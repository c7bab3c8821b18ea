------------------------- MODULE SmsDispatchProofs -------------------------
(***************************************************************************)
(* Machine-checked proofs about SmsDispatch, for every number of messages,  *)
(* workers, callers, lease tokens and attempts.  First the invariant that   *)
(* makes a message sent at most once; then what SmsDispatch promises: the   *)
(* attempts of a notification are bounded however many workers take its job *)
(* over, a message that has left pending is never sent again, what is kept  *)
(* beside a message (its share of the budget, its parameters, its reconcile *)
(* job) follows it, and the pipeline implements SmsPromise.                 *)
(***************************************************************************)
EXTENDS SmsDispatch, TLAPS, FiniteSetTheorems

-----------------------------------------------------------------------------
(* Sequences of attempts *)

\* Writing a verdict into an attempt changes that attempt and nothing else.
LEMMA SeqUpdate ==
    ASSUME NEW S, NEW s \in Seq(S), NEW n \in 1 .. Len(s), NEW x \in S
    PROVE  /\ [s EXCEPT ![n] = x] \in Seq(S)
           /\ Len([s EXCEPT ![n] = x]) = Len(s)
           /\ \A i \in 1 .. Len(s) : [s EXCEPT ![n] = x][i] = IF i = n THEN x ELSE s[i]
  OBVIOUS

\* A new dispatch marker becomes the last attempt.
LEMMA SeqAppend ==
    ASSUME NEW S, NEW s \in Seq(S), NEW x \in S
    PROVE  /\ Append(s, x) \in Seq(S)
           /\ Len(Append(s, x)) = Len(s) + 1
           /\ \A i \in 1 .. Len(s) : Append(s, x)[i] = s[i]
           /\ Append(s, x)[Len(s) + 1] = x
  OBVIOUS

\* Recovery rewrites the attempts of a message one by one.
LEMMA SeqMap ==
    ASSUME NEW S, NEW s \in Seq(S), NEW f, \A i \in 1 .. Len(s) : f[i] \in S,
           f = [i \in 1 .. Len(s) |-> f[i]]
    PROVE  f \in Seq(S) /\ Len(f) = Len(s)
  OBVIOUS

-----------------------------------------------------------------------------
(* Types *)

\* The two writes to the attempts of one message keep their type.
LEMMA CompleteAttemptType ==
    ASSUME TypeOK, NEW m \in Messages, NEW n \in Nat, NEW status \in AttemptStatus,
           CompleteAttempt(m, n, status)
    PROVE  attempts' \in [Messages -> Seq(Attempt)]
<1> DEFINE row == [attempts[m][n] EXCEPT !.status = status]
<1>1. attempts' = [attempts EXCEPT ![m] = [attempts[m] EXCEPT ![n] = row]]
  BY DEF CompleteAttempt
<1>2. attempts[m] \in Seq(Attempt)
  BY DEF TypeOK
<1>3. CASE n \in 1 .. Len(attempts[m])
  <2>0. attempts[m][n] \in Attempt
    BY <1>2, <1>3
  <2>1. row \in Attempt
    BY <2>0 DEF Attempt
  <2>2. [attempts[m] EXCEPT ![n] = row] \in Seq(Attempt)
    BY <1>2, <1>3, <2>1, SeqUpdate
  <2> QED  BY <1>1, <2>2 DEF TypeOK
<1>4. CASE n \notin 1 .. Len(attempts[m])
  <2>1. [attempts[m] EXCEPT ![n] = row] = attempts[m]
    BY <1>2, <1>4
  <2> QED  BY <1>1, <1>2, <2>1 DEF TypeOK
<1> QED  BY <1>3, <1>4

LEMMA CreateStartedType ==
    ASSUME TypeOK, NEW m \in Messages, NEW t \in LeaseTokens \cup {NoToken},
           CreateStarted(m, t)
    PROVE  attempts' \in [Messages -> Seq(Attempt)]
<1> DEFINE row == [status |-> "started", token |-> t]
<1>1. row \in Attempt
  BY DEF Attempt, AttemptStatus
<1>2. attempts[m] \in Seq(Attempt)
  BY DEF TypeOK
<1>3. Append(attempts[m], row) \in Seq(Attempt)
  BY <1>1, <1>2, SeqAppend
<1> QED  BY <1>3 DEF TypeOK, CreateStarted

\* Closing the markers of some messages changes their open attempts and nothing else.
LEMMA CloseMarkersFacts ==
    ASSUME TypeOK, NEW S, CloseMarkers(S)
    PROVE  /\ attempts' \in [Messages -> Seq(Attempt)]
           /\ \A m \in Messages :
                 /\ m \notin S => attempts'[m] = attempts[m]
                 /\ Len(attempts'[m]) = Len(attempts[m])
                 /\ \A n \in 1 .. Len(attempts[m]) :
                       /\ attempts'[m][n].token = attempts[m][n].token
                       /\ attempts'[m][n].status =
                            IF m \in S /\ attempts[m][n].status = "started"
                              THEN "unknown" ELSE attempts[m][n].status
                       /\ attempts[m][n].status # "started" => attempts'[m][n] = attempts[m][n]
<1>1. ASSUME NEW m \in Messages
      PROVE  /\ attempts'[m] \in Seq(Attempt)
             /\ m \notin S => attempts'[m] = attempts[m]
             /\ Len(attempts'[m]) = Len(attempts[m])
             /\ \A n \in 1 .. Len(attempts[m]) :
                   /\ attempts'[m][n].token = attempts[m][n].token
                   /\ attempts'[m][n].status =
                        IF m \in S /\ attempts[m][n].status = "started"
                          THEN "unknown" ELSE attempts[m][n].status
                   /\ attempts[m][n].status # "started" => attempts'[m][n] = attempts[m][n]
  <2>1. attempts[m] \in Seq(Attempt) /\ DOMAIN attempts[m] = 1 .. Len(attempts[m])
    BY DEF TypeOK
  <2>2. CASE m \notin S
    BY <2>1, <2>2 DEF CloseMarkers
  <2>3. CASE m \in S
    <3> DEFINE f == [n \in 1 .. Len(attempts[m]) |->
                       IF attempts[m][n].status = "started"
                         THEN [attempts[m][n] EXCEPT !.status = "unknown"]
                         ELSE attempts[m][n]]
    <3>1. attempts'[m] = f
      BY <2>1, <2>3 DEF CloseMarkers
    <3>2. ASSUME NEW n \in 1 .. Len(attempts[m])
          PROVE  /\ f[n] \in Attempt
                 /\ f[n].token = attempts[m][n].token
                 /\ f[n].status = IF attempts[m][n].status = "started"
                                    THEN "unknown" ELSE attempts[m][n].status
                 /\ attempts[m][n].status # "started" => f[n] = attempts[m][n]
      <4>1. attempts[m][n] \in Attempt
        BY <2>1
      <4> QED  BY <4>1 DEF Attempt, AttemptStatus
    <3>3. f \in Seq(Attempt) /\ Len(f) = Len(attempts[m])
      <4> HIDE DEF f
      <4>1. f = [n \in 1 .. Len(attempts[m]) |-> f[n]]
        BY DEF f
      <4> QED  BY <2>1, <3>2, <4>1, SeqMap
    <3> HIDE DEF f
    <3> QED  BY <2>3, <3>1, <3>2, <3>3
  <2> QED  BY <2>2, <2>3
<1>2. attempts' = [m \in Messages |-> attempts'[m]]
  BY DEF CloseMarkers
<1> QED  BY <1>1, <1>2

\* Holding and releasing budget keep the reservation and the counters typed.
LEMMA BudgetType ==
    ASSUME TypeOK, NEW m \in Messages, HoldBudget(m) \/ ReleaseBudget(m)
    PROVE  /\ reservation' \in [Messages -> Reservation]
           /\ heldCount' \in [Days -> Nat]
<1>1. /\ reservation \in [Messages -> Reservation]
      /\ heldCount \in [Days -> Nat]
      /\ day \in Days
  BY DEF TypeOK
<1>2. [state |-> "held", day |-> day] \in Reservation
  BY <1>1 DEF Reservation
<1>3. /\ reservation[m] \in Reservation
      /\ reservation[m].day \in Days
      /\ [reservation[m] EXCEPT !.state = "released"] \in Reservation
  <2>1. reservation[m] \in Reservation
    BY <1>1
  <2> QED  BY <2>1 DEF Reservation
<1>4. /\ heldCount[day] + 1 \in Nat
      /\ heldCount[reservation[m].day] \in Nat
      /\ heldCount[reservation[m].day] > 0 => heldCount[reservation[m].day] - 1 \in Nat
  BY <1>1, <1>3
<1>5. CASE HoldBudget(m)
  BY <1>1, <1>2, <1>4, <1>5 DEF HoldBudget, budget
<1>6. CASE ReleaseBudget(m)
  BY <1>1, <1>3, <1>4, <1>6 DEF ReleaseBudget, budget
<1> QED  BY <1>5, <1>6

\* Acceptance and delivery written by completeAcceptance.
LEMMA AcceptanceType ==
    ASSUME TypeOK, NEW S, NEW status \in AcceptanceStatus, CompleteAcceptance(S, status)
    PROVE  /\ acceptance' \in [Messages -> AcceptanceStatus \cup {"absent"}]
           /\ delivery' \in [Messages -> DeliveryStatus]
BY DEF TypeOK, CompleteAcceptance, DeliveryAfter, DeliveryStatus, AcceptanceStatus

LEMMA UnleasedType ==
    ASSUME NEW state \in JobState, NEW count \in Nat
    PROVE  Unleased(state, count) \in Job
BY DEF Unleased, Job

\* A process that is handed a well-formed task stays well-formed.
LEMMA ProcType ==
    ASSUME TypeOK, NEW p \in Processes
    PROVE  /\ Idle \in Process
           /\ Become(p, Idle) => proc' \in [Processes -> Process]
           /\ \A x \in {"marked", "opened", "sent", "answered"} :
                 [proc[p] EXCEPT !.pc = x] \in Process
           /\ \A n \in Nat : [proc[p] EXCEPT !.pc = "marked", !.no = n] \in Process
           /\ \A r \in Replies : [proc[p] EXCEPT !.pc = "answered", !.reply = r] \in Process
<1>1. Idle \in Process
  BY DEF Idle, Process
<1>2. proc[p] \in Process
  BY DEF TypeOK
<1>3. proc \in [Processes -> Process]
  BY DEF TypeOK
<1> QED  BY <1>1, <1>2, <1>3 DEF Process, Become

\* Process p settles: only its own task is forgotten.
Forget(p) ==
    /\ Become(p, Idle)
    /\ UNCHANGED <<message, job, attempts, budget, reconcile, policy, provider>>

\* The steps that only end a process's task.
LEMMA ForgettingSteps ==
    ASSUME NEW p \in Processes,
           AbortMark(p) \/ AbortOpen(p) \/ AbortDispatch(p) \/ DropAnswer(p) \/ Crash(p)
    PROVE  Forget(p)
BY DEF AbortMark, AbortOpen, AbortDispatch, DropAnswer, Crash, Forget, Settle, policy, provider

\* Where a busy process stands: its message exists, and an engaged one has an
\* attempt of that message.
LEMMA ProcFacts ==
    ASSUME TypeOK, DispatchInv, NEW p \in Processes, proc[p].pc # "idle"
    PROVE  /\ proc[p].msg \in Messages
           /\ proc[p].no \in Nat
           /\ proc[p].token \in LeaseTokens \cup {NoToken}
           /\ p \in Workers => proc[p].msg \in Notifications /\ proc[p].token \in LeaseTokens
           /\ p \in Callers => proc[p].msg \in Otps /\ proc[p].token = NoToken /\ Engaged(p)
           /\ Engaged(p) => proc[p].no \in 1 .. Len(attempts[proc[p].msg])
           /\ proc[p].pc = "answered" => proc[p].reply \in Replies
<1>1. proc[p] \in Process
  BY DEF TypeOK
<1>2. proc[p].no \in Nat /\ proc[p].token \in LeaseTokens \cup {NoToken}
  BY <1>1 DEF Process
<1>3. p \in Workers \/ p \in Callers
  BY DEF Processes
<1> QED  BY <1>2, <1>3 DEF DispatchInv, DispatchersOwnAttempts, Messages, Engaged

\* TypeOK is preserved by every step.
LEMMA TypeStep == TypeOK /\ DispatchInv /\ [Next]_vars => TypeOK'
<1> SUFFICES ASSUME TypeOK, DispatchInv, [Next]_vars PROVE TypeOK'
  OBVIOUS
<1> USE DEF message, budget, policy, provider
<1>t. /\ acceptance \in [Messages -> AcceptanceStatus \cup {"absent"}]
      /\ delivery \in [Messages -> DeliveryStatus]
      /\ params \in [Messages -> BOOLEAN]
      /\ job \in [Notifications -> Job]
      /\ attempts \in [Messages -> Seq(Attempt)]
      /\ reservation \in [Messages -> Reservation]
      /\ heldCount \in [Days -> Nat]
      /\ reconcile \in [Messages -> BOOLEAN]
      /\ day \in Days
      /\ circuitOpen \in BOOLEAN
      /\ proc \in [Processes -> Process]
      /\ inflight \subseteq Messages \X (Nat \ {0})
      /\ taken \subseteq Messages \X (Nat \ {0})
      /\ refused \subseteq Messages \X (Nat \ {0})
  BY DEF TypeOK
<1>1. ASSUME NEW p \in Processes, Forget(p) PROVE TypeOK'
  BY <1>1, <1>t, ProcType DEF TypeOK, Forget
<1>2. ASSUME NEW m \in Notifications, EnqueueNotification(m) PROVE TypeOK'
  <2>1. Unleased("pending", 0) \in Job
    BY UnleasedType DEF JobState
  <2> QED  BY <1>2, <1>t, <2>1 DEF TypeOK, EnqueueNotification, Messages, AcceptanceStatus
<1>3. ASSUME NEW c \in Callers, NEW m \in Otps, SendOtpNow(c, m) PROVE TypeOK'
  <2>1. m \in Messages /\ c \in Processes
    BY DEF Messages, Processes
  <2>2. attempts' \in [Messages -> Seq(Attempt)]
    BY <1>3, <2>1, CreateStartedType DEF SendOtpNow
  <2>3. reservation' \in [Messages -> Reservation] /\ heldCount' \in [Days -> Nat]
    BY <1>3, <2>1, BudgetType DEF SendOtpNow
  <2>4. Len(attempts[m]) + 1 \in Nat
    BY <1>t, <2>1
  <2>5. proc' \in [Processes -> Process]
    BY <1>3, <1>t, <2>1, <2>4 DEF SendOtpNow, Become, Idle, Process
  <2>6. acceptance' \in [Messages -> AcceptanceStatus \cup {"absent"}]
    BY <1>3, <1>t, <2>1 DEF SendOtpNow, AcceptanceStatus
  <2> QED  BY <1>3, <1>t, <2>2, <2>3, <2>5, <2>6 DEF TypeOK, SendOtpNow
<1>4. ASSUME NEW p \in Processes, DispatchOtp(p) \/ Dispatch(p) PROVE TypeOK'
  <2>1. /\ proc[p].pc = "opened"
        /\ inflight' = inflight \cup {<<proc[p].msg, proc[p].no>>}
        /\ proc' = [proc EXCEPT ![p].pc = "sent"]
        /\ UNCHANGED <<message, job, attempts, budget, reconcile, policy, taken, refused>>
    BY <1>4 DEF DispatchOtp, Dispatch
  <2>2. proc[p].msg \in Messages /\ proc[p].no \in Nat \ {0}
    BY <2>1, <1>t, ProcFacts DEF Engaged
  <2>3. proc' \in [Processes -> Process]
    BY <2>1, <1>t, ProcType
  <2>4. inflight' \subseteq Messages \X (Nat \ {0})
    BY <2>1, <2>2, <1>t
  <2> QED  BY <1>t, <2>1, <2>3, <2>4 DEF TypeOK
<1>5. ASSUME NEW p \in Processes, NEW r \in Replies, Receive(p, r) PROVE TypeOK'
  BY <1>5, <1>t, ProcType DEF TypeOK, Receive
<1>6. ASSUME NEW c \in Callers, CompleteOtp(c) PROVE TypeOK'
  <2> DEFINE m == proc[c].msg
             n == proc[c].no
             status == IF proc[c].reply \in {"rejected", "throttled"} THEN "rejected"
                                                                      ELSE proc[c].reply
  <2>1. CASE ~AcceptanceTransition(acceptance[m], status)
             /\ UNCHANGED <<message, job, attempts, budget, reconcile, policy, provider>>
    <3>1. Forget(c) /\ c \in Processes
      BY <1>6, <2>1 DEF CompleteOtp, Forget, Processes
    <3> QED  BY <1>1, <3>1
  <2>2. CASE /\ CompleteAcceptance({m}, status)
             /\ CompleteAttempt(m, n, status)
             /\ IF status = "rejected"
                  THEN ReleaseBudget(m) /\ UNCHANGED reconcile
                  ELSE EnsureReconcile({m}) /\ UNCHANGED budget
             /\ UNCHANGED <<params, job, policy, provider>>
    <3>1. c \in Processes /\ m \in Messages /\ n \in Nat /\ status \in AcceptanceStatus
      BY <1>6, ProcFacts DEF CompleteOtp, Processes, AcceptanceStatus, Replies
    <3>2. status \in AttemptStatus
      BY <1>6, ProcFacts DEF CompleteOtp, Processes, AttemptStatus, Replies
    <3>3. attempts' \in [Messages -> Seq(Attempt)]
      BY <2>2, <3>1, <3>2, CompleteAttemptType
    <3>4. /\ acceptance' \in [Messages -> AcceptanceStatus \cup {"absent"}]
          /\ delivery' \in [Messages -> DeliveryStatus]
      BY <2>2, <3>1, AcceptanceType
    <3>5. /\ reservation' \in [Messages -> Reservation]
          /\ heldCount' \in [Days -> Nat]
      BY <2>2, <3>1, <1>t, BudgetType
    <3>6. reconcile' \in [Messages -> BOOLEAN]
      BY <2>2, <1>t DEF EnsureReconcile
    <3>7. proc' \in [Processes -> Process]
      BY <1>6, <3>1, ProcType DEF CompleteOtp
    <3> QED  BY <1>t, <2>2, <3>3, <3>4, <3>5, <3>6, <3>7 DEF TypeOK
  <2> QED  BY <1>6, <2>1, <2>2 DEF CompleteOtp
<1>7. ASSUME NEW w \in Workers, NEW m \in Notifications, NEW t \in LeaseTokens,
             Lease(w, m, t)
      PROVE  TypeOK'
  <2>1. w \in Processes /\ m \in Messages /\ job[m] \in Job
    BY <1>t DEF Processes, Messages
  <2>2. [job[m] EXCEPT !.state = "leased", !.token = t, !.live = TRUE] \in Job
    BY <2>1 DEF Job, JobState
  <2>3. job[m].count \in Nat
    BY <2>1 DEF Job
  <2>4. [Idle EXCEPT !.pc = "leased", !.msg = m, !.token = t, !.count = job[m].count] \in Process
    BY <2>1, <2>3 DEF Idle, Process
  <2> QED  BY <1>7, <1>t, <2>1, <2>2, <2>4 DEF TypeOK, Lease, Become
<1>8. ASSUME NEW w \in Workers, MarkDispatch(w) PROVE TypeOK'
  <2> DEFINE m == proc[w].msg
             t == proc[w].token
  <2>1. w \in Processes /\ m \in Messages /\ t \in LeaseTokens
    BY <1>8, ProcFacts DEF MarkDispatch, Processes
  <2>2. attempts' \in [Messages -> Seq(Attempt)]
    BY <1>8, <2>1, CreateStartedType DEF MarkDispatch
  <2>3. reservation' \in [Messages -> Reservation] /\ heldCount' \in [Days -> Nat]
    BY <1>8, <2>1, BudgetType DEF MarkDispatch
  <2>4. Len(attempts[m]) + 1 \in Nat
    BY <1>t, <2>1
  <2>5. proc' \in [Processes -> Process]
    BY <1>8, <1>t, <2>1, <2>4, ProcType DEF MarkDispatch
  <2> QED  BY <1>8, <1>t, <2>2, <2>3, <2>5 DEF TypeOK, MarkDispatch
<1>9. ASSUME NEW w \in Workers, RejectUndispatched(w) PROVE TypeOK'
  <2> DEFINE m == proc[w].msg
  <2>1. w \in Processes /\ m \in Messages /\ m \in Notifications
    BY <1>9, ProcFacts DEF RejectUndispatched, Processes
  <2>2. reservation' \in [Messages -> Reservation] /\ heldCount' \in [Days -> Nat]
    BY <1>9, <2>1, BudgetType DEF RejectUndispatched
  <2>3. job[m].count \in Nat
    BY <1>t, <2>1 DEF Job
  <2>4. Unleased("dead", job[m].count) \in Job
    BY <2>3, UnleasedType DEF JobState
  <2>5. job' \in [Notifications -> Job]
    BY <1>9, <1>t, <2>4 DEF RejectUndispatched
  <2>6. /\ acceptance' \in [Messages -> AcceptanceStatus \cup {"absent"}]
        /\ delivery' \in [Messages -> DeliveryStatus]
        /\ params' \in [Messages -> BOOLEAN]
    BY <1>9, <1>t DEF RejectUndispatched, AcceptanceStatus, DeliveryStatus, ClearRenderParams
  <2>7. proc' \in [Processes -> Process]
    BY <1>9, <2>1, ProcType DEF RejectUndispatched
  <2> QED  BY <1>9, <1>t, <2>2, <2>5, <2>6, <2>7 DEF TypeOK, RejectUndispatched
<1>10. ASSUME NEW w \in Workers, OpenProviderInput(w) PROVE TypeOK'
  <2>1. w \in Processes
    BY DEF Processes
  <2> QED  BY <1>10, <1>t, <2>1, ProcType DEF TypeOK, OpenProviderInput
<1>11. ASSUME NEW w \in Workers,
              CompleteAccepted(w) \/ CompleteUnknown(w) \/ CompleteRejected(w) \/ Reschedule(w)
       PROVE  TypeOK'
  <2> DEFINE m == proc[w].msg
  <2>1. /\ w \in Processes /\ m \in Messages /\ m \in Notifications /\ proc[w].no \in Nat
    BY <1>11, ProcFacts
       DEF CompleteAccepted, CompleteUnknown, CompleteRejected, Reschedule, Processes
  <2>2. job[m].count \in Nat /\ job[m].count + 1 \in Nat
    BY <1>t, <2>1 DEF Job
  <2>3. \A st \in JobState : /\ Unleased(st, job[m].count) \in Job
                             /\ Unleased(st, job[m].count + 1) \in Job
    BY <2>2, UnleasedType
  <2>4. /\ proc' \in [Processes -> Process]
        /\ UNCHANGED <<policy, provider>>
    BY <1>11, <2>1, ProcType
       DEF CompleteAccepted, CompleteUnknown, CompleteRejected, Reschedule, Settle
  <2>5. job' \in [Notifications -> Job]
    BY <1>11, <1>t, <2>3
       DEF CompleteAccepted, CompleteUnknown, CompleteRejected, Reschedule, CompleteJob, JobState
  <2>6. attempts' \in [Messages -> Seq(Attempt)]
    BY <1>11, <1>t, <2>1, CompleteAttemptType
       DEF CompleteAccepted, CompleteUnknown, CompleteRejected, Reschedule, EnsureAttempt,
           AttemptStatus
  <2>7. /\ acceptance' \in [Messages -> AcceptanceStatus \cup {"absent"}]
        /\ delivery' \in [Messages -> DeliveryStatus]
    BY <1>11, <1>t, AcceptanceType
       DEF CompleteAccepted, CompleteUnknown, CompleteRejected, Reschedule, AcceptanceStatus
  <2>8. params' \in [Messages -> BOOLEAN] /\ reconcile' \in [Messages -> BOOLEAN]
    BY <1>11, <1>t
       DEF CompleteAccepted, CompleteUnknown, CompleteRejected, Reschedule, ClearRenderParams,
           EnsureReconcile
  <2>9. reservation' \in [Messages -> Reservation] /\ heldCount' \in [Days -> Nat]
    BY <1>11, <1>t, <2>1, BudgetType
       DEF CompleteAccepted, CompleteUnknown, CompleteRejected, Reschedule
  <2> QED  BY <1>t, <2>4, <2>5, <2>6, <2>7, <2>8, <2>9 DEF TypeOK
<1>12. ASSUME NEW r \in inflight, ProviderTakes(r) \/ ProviderRefuses(r) PROVE TypeOK'
  BY <1>12, <1>t DEF TypeOK, ProviderTakes, ProviderRefuses
<1>13. ASSUME NEW R \in SUBSET Notifications, NEW Q \in SUBSET Notifications,
              NEW D \in SUBSET Otps, RecoverBatch(R, Q, D)
       PROVE  TypeOK'
  <2>1. /\ acceptance' \in [Messages -> AcceptanceStatus \cup {"absent"}]
        /\ delivery' \in [Messages -> DeliveryStatus]
    BY <1>13, AcceptanceType DEF RecoverBatch, AcceptanceStatus
  <2>2. params' \in [Messages -> BOOLEAN] /\ reconcile' \in [Messages -> BOOLEAN]
    BY <1>13, <1>t DEF RecoverBatch, ClearRenderParams, EnsureReconcile
  <2>3. job' \in [Notifications -> Job]
    <3>1. ASSUME NEW m \in Notifications
          PROVE  /\ job[m] \in Job
                 /\ Unleased("pending", job[m].count) \in Job
                 /\ Unleased("succeeded", job[m].count) \in Job
      <4>1. job[m].count \in Nat
        BY <1>t DEF Job
      <4> QED  BY <4>1, <1>t, UnleasedType DEF JobState
    <3> QED  BY <1>13, <3>1 DEF RecoverBatch
  <2>4. attempts' \in [Messages -> Seq(Attempt)]
    BY <1>13, CloseMarkersFacts DEF RecoverBatch
  <2> QED  BY <1>13, <1>t, <2>1, <2>2, <2>3, <2>4 DEF TypeOK, RecoverBatch
<1>14. ASSUME NEW m \in Notifications, ExpireLease(m) PROVE TypeOK'
  <2>1. job[m] \in Job
    BY <1>t
  <2>2. [job[m] EXCEPT !.live = FALSE] \in Job
    BY <2>1 DEF Job
  <2> QED  BY <1>14, <1>t, <2>2 DEF TypeOK, ExpireLease
<1>15. ASSUME NextDay \/ SwitchCircuit PROVE TypeOK'
  <2>1. day' \in Days
    BY <1>15, <1>t, DispatchConstants DEF NextDay, SwitchCircuit, Days
  <2>2. circuitOpen' \in BOOLEAN
    BY <1>15, <1>t, Zenon DEF NextDay, SwitchCircuit
  <2> QED  BY <1>15, <1>t, <2>1, <2>2 DEF TypeOK, NextDay, SwitchCircuit
<1>16. CASE UNCHANGED vars
  BY <1>16, <1>t DEF TypeOK, vars
<1>17. ASSUME NEW m \in Messages, Retain(m) PROVE TypeOK'
  <2>1. acceptance' \in [Messages -> AcceptanceStatus \cup {"absent"}]
    BY <1>17, <1>t DEF Retain, Verdict, AcceptanceStatus
  <2>2. delivery' \in [Messages -> DeliveryStatus]
    BY <1>17, <1>t DEF Retain, DeliveryStatus
  <2>3. attempts' \in [Messages -> Seq(Attempt)]
    BY <1>17, CloseMarkersFacts DEF Retain
  <2>4. job' \in [Notifications -> Job]
    <3>1. ASSUME NEW x \in Notifications
          PROVE  job[x] \in Job /\ Unleased("dead", job[x].count) \in Job
      <4>1. job[x] \in Job /\ job[x].count \in Nat
        BY <1>t DEF Job
      <4> QED  BY <4>1, UnleasedType DEF JobState
    <3> QED  BY <1>17, <3>1 DEF Retain, KillJob
  <2>5. params' \in [Messages -> BOOLEAN]
    BY <1>17, <1>t DEF Retain, ClearRenderParams
  <2>6. reservation' \in [Messages -> Reservation] /\ heldCount' \in [Days -> Nat]
    BY <1>17, <1>t, BudgetType DEF Retain
  <2> QED  BY <1>17, <1>t, <2>1, <2>2, <2>3, <2>4, <2>5, <2>6 DEF TypeOK, Retain
<1>18. ASSUME NEW c \in Callers, CallerStep(c) PROVE TypeOK'
  <2>1. c \in Processes
    BY DEF Processes
  <2> QED  BY <1>18, <2>1, <1>3, <1>4, <1>5, <1>6 DEF CallerStep
<1>19. ASSUME NEW w \in Workers, WorkerStep(w) PROVE TypeOK'
  <2>1. w \in Processes
    BY DEF Processes
  <2>2. CASE AbortMark(w) \/ AbortOpen(w) \/ AbortDispatch(w) \/ DropAnswer(w)
    BY <2>1, <2>2, <1>1, ForgettingSteps
  <2> QED  BY <1>19, <2>1, <2>2, <1>4, <1>5, <1>7, <1>8, <1>9, <1>10, <1>11 DEF WorkerStep
<1>20. ASSUME EnvironmentStep PROVE TypeOK'
  <2>1. ASSUME NEW p \in Processes, Crash(p) PROVE TypeOK'
    BY <2>1, <1>1, ForgettingSteps
  <2> QED  BY <1>20, <2>1, <1>2, <1>14, <1>15, <1>17, DispatchConstants DEF EnvironmentStep
<1> QED  BY <1>12, <1>13, <1>16, <1>18, <1>19, <1>20 DEF Next, ProviderStep, Recover

-----------------------------------------------------------------------------
(* The inductive invariant *)

\* An attempt without a verdict is the last one, and the message stands where
\* the attempt does.
LEMMA OpenAttempt ==
    ASSUME TypeOK, DispatchInv, NEW m \in Messages, NEW n \in 1 .. Len(attempts[m])
    PROVE  /\ attempts[m][n] \in Attempt
           /\ attempts[m][n].status # "rejected" => n = Len(attempts[m])
           /\ attempts[m][n].status = "started" => acceptance[m] = "pending"
           /\ attempts[m][n].status = "unknown" => acceptance[m] = "unknown"
           /\ attempts[m][n].status = "accepted" => acceptance[m] = "accepted"
<1>1. attempts[m] \in Seq(Attempt) /\ acceptance[m] \in AcceptanceStatus \cup {"absent"}
  BY DEF TypeOK
<1>2. attempts[m][n] \in Attempt
  BY <1>1
<1>3. n < Len(attempts[m]) \/ n = Len(attempts[m])
  BY <1>1
<1>4. /\ n < Len(attempts[m]) => attempts[m][n].status = "rejected"
      /\ n = Len(attempts[m]) =>
            attempts[m][n].status \in
              (IF acceptance[m] = "pending" THEN {"started", "rejected"} ELSE {acceptance[m]})
  BY DEF DispatchInv, AttemptsFollowAcceptance
<1> QED  BY <1>1, <1>2, <1>3, <1>4 DEF AcceptanceStatus

\* Rows and processes as the steps of the pipeline see them.
LEMMA Domains ==
    ASSUME TypeOK, NEW m \in Messages
    PROVE  /\ attempts[m] \in Seq(Attempt)
           /\ Len(attempts[m]) \in Nat
           /\ DOMAIN attempts[m] = 1 .. Len(attempts[m])
BY DEF TypeOK

\* Ending a task without writing anything.
LEMMA ForgetKeepsInv ==
    ASSUME TypeOK, DispatchInv, NEW p \in Processes, Forget(p)
    PROVE  DispatchInv'
<1> USE DEF message, budget, policy, provider
<1>1. /\ UNCHANGED <<acceptance, attempts, job, inflight, taken, refused>>
      /\ proc' = [proc EXCEPT ![p] = Idle]
  BY DEF Forget, Become
<1>2. \A q \in Processes : proc'[q] = IF q = p THEN Idle ELSE proc[q]
  BY <1>1 DEF TypeOK
<1>3. Idle.pc = "idle"
  BY DEF Idle
<1>4. \A w \in Workers : w \in Processes
  BY DEF Processes
<1>5. \A c \in Callers : c \in Processes
  BY DEF Processes
<1>6. DispatchersOwnAttempts'
  BY <1>1, <1>2, <1>3, <1>4, <1>5
     DEF DispatchInv, DispatchersOwnAttempts, Engaged, Request
<1>7. AttemptsFollowAcceptance'
  BY <1>1 DEF DispatchInv, AttemptsFollowAcceptance, HasStarted
<1>8. RequestsFollowAttempts'
  BY <1>1 DEF DispatchInv, RequestsFollowAttempts
<1>9. PendingHasJob' /\ MarkerFenced'
  BY <1>1 DEF DispatchInv, PendingHasJob, MarkerFenced, OwnsLease
<1> QED  BY <1>6, <1>7, <1>8, <1>9 DEF DispatchInv

\* Writing a dispatch marker: the new attempt is the last one, nobody else owns
\* it, and a queued one lies under the lease it was written with.
LEMMA MarkKeepsInv ==
    ASSUME TypeOK, TypeOK', DispatchInv,
           NEW p \in Processes, NEW m \in Messages, NEW t \in LeaseTokens \cup {NoToken},
           CreateStarted(m, t),
           proc[p].pc \in {"idle", "leased"},
           \A q \in Processes \ {p} : proc'[q] = proc[q],
           proc'[p].pc \in {"marked", "opened"},
           proc'[p].msg = m, proc'[p].token = t, proc'[p].no = Len(attempts[m]) + 1,
           \A x \in Messages \ {m} : acceptance'[x] = acceptance[x],
           acceptance[m] \in {"absent", "pending"}, acceptance'[m] = "pending",
           m \in Notifications => acceptance[m] = "pending" /\ OwnsLease(m, t),
           p \in Workers => m \in Notifications /\ t \in LeaseTokens,
           p \in Callers => m \in Otps /\ t = NoToken,
           UNCHANGED <<job, inflight, taken, refused>>
    PROVE  DispatchInv'
<1> DEFINE new == Len(attempts[m]) + 1
           row == [status |-> "started", token |-> t]
<1>1. /\ \A x \in Messages : x # m => attempts'[x] = attempts[x]
      /\ attempts'[m] = Append(attempts[m], row)
      /\ ~HasStarted(m)
  <2>1. attempts \in [Messages -> Seq(Attempt)]
    BY DEF TypeOK
  <2> QED  BY <2>1 DEF CreateStarted
<1>2. /\ Len(attempts'[m]) = new
      /\ \A i \in 1 .. Len(attempts[m]) : attempts'[m][i] = attempts[m][i]
      /\ attempts'[m][new] = row
      /\ Len(attempts[m]) \in Nat
  <2>1. row \in Attempt
    BY DEF Attempt, AttemptStatus
  <2> QED  BY <1>1, <2>1, Domains, SeqAppend
<1>3. \A i \in 1 .. Len(attempts[m]) : attempts[m][i].status = "rejected"
  <2> SUFFICES ASSUME NEW i \in 1 .. Len(attempts[m]) PROVE attempts[m][i].status = "rejected"
    OBVIOUS
  <2>1. attempts[m][i].status # "started"
    BY <1>1, Domains DEF HasStarted
  <2> QED  BY <2>1, OpenAttempt DEF Attempt, AttemptStatus
<1>4. \A x \in Messages : DOMAIN attempts'[x] = 1 .. Len(attempts'[x])
  BY DEF TypeOK
<1>5. AttemptsFollowAcceptance'
  <2> SUFFICES ASSUME NEW x \in Messages
               PROVE  /\ acceptance'[x] = "absent" => attempts'[x] = <<>>
                      /\ acceptance'[x] \in {"accepted", "unknown"} => attempts'[x] # <<>>
                      /\ acceptance'[x] = "pending" /\ x \in Otps => HasStarted(x)'
                      /\ \A n \in 1 .. Len(attempts'[x]) :
                           /\ n < Len(attempts'[x]) => attempts'[x][n].status = "rejected"
                           /\ n = Len(attempts'[x]) =>
                                attempts'[x][n].status \in
                                  (IF acceptance'[x] = "pending" THEN {"started", "rejected"}
                                                                 ELSE {acceptance'[x]})
    BY DEF AttemptsFollowAcceptance
  <2>1. CASE x # m
    <3>1. attempts'[x] = attempts[x] /\ acceptance'[x] = acceptance[x]
      BY <1>1, <2>1
    <3>2. HasStarted(x)' <=> HasStarted(x)
      BY <3>1 DEF HasStarted
    <3>3. /\ acceptance[x] = "absent" => attempts[x] = <<>>
          /\ acceptance[x] \in {"accepted", "unknown"} => attempts[x] # <<>>
          /\ acceptance[x] = "pending" /\ x \in Otps => HasStarted(x)
          /\ \A n \in 1 .. Len(attempts[x]) :
               /\ n < Len(attempts[x]) => attempts[x][n].status = "rejected"
               /\ n = Len(attempts[x]) =>
                    attempts[x][n].status \in
                      (IF acceptance[x] = "pending" THEN {"started", "rejected"}
                                                    ELSE {acceptance[x]})
      BY DEF DispatchInv, AttemptsFollowAcceptance
    <3> HIDE DEF HasStarted
    <3> QED  BY <3>1, <3>2, <3>3
  <2>2. CASE x = m
    <3>1. HasStarted(m)'
      BY <1>2, <1>4 DEF HasStarted
    <3> QED  BY <1>2, <1>3, <2>2, <3>1
  <2> QED  BY <2>1, <2>2
<1>6. RequestsFollowAttempts'
  <2>1. ASSUME NEW r \in inflight \cup taken \cup refused
        PROVE  r[2] <= Len(attempts'[r[1]])
    <3>1. r[1] \in Messages /\ r[2] \in Nat
      BY DEF TypeOK
    <3>2. r[2] <= Len(attempts[r[1]])
      BY DEF DispatchInv, RequestsFollowAttempts
    <3>3. CASE r[1] # m
      BY <1>1, <3>1, <3>2, <3>3
    <3>4. CASE r[1] = m
      BY <1>2, <3>1, <3>2, <3>4
    <3> QED  BY <3>3, <3>4
  <2>2. ASSUME NEW x \in Messages, NEW n \in 1 .. Len(attempts'[x])
        PROVE  /\ attempts'[x][n].status = "rejected" => <<x, n>> \in refused
               /\ attempts'[x][n].status = "accepted" => <<x, n>> \in taken
    <3>1. CASE x # m \/ n # new
      <4>1. /\ n \in 1 .. Len(attempts[x])
            /\ attempts'[x][n] = attempts[x][n]
        BY <1>1, <1>2, <3>1
      <4> QED  BY <4>1 DEF DispatchInv, RequestsFollowAttempts
    <3>2. CASE x = m /\ n = new
      BY <1>2, <3>2
    <3> QED  BY <3>1, <3>2
  <2> QED  BY <2>1, <2>2 DEF DispatchInv, RequestsFollowAttempts
<1>7. DispatchersOwnAttempts'
  <2>1. ASSUME NEW q \in Processes, q # p, Engaged(q)
        PROVE  /\ Engaged(q)' <=> Engaged(q)
               /\ Request(q)' = Request(q) /\ Request(q) # Request(p)'
               /\ proc[q].msg \in Messages /\ proc[q].no \in 1 .. Len(attempts[proc[q].msg])
               /\ proc[q].no \in 1 .. Len(attempts'[proc[q].msg])
               /\ attempts'[proc[q].msg][proc[q].no] = attempts[proc[q].msg][proc[q].no]
    <3>1. proc'[q] = proc[q] /\ proc[q].pc # "idle"
      BY <2>1 DEF Engaged
    <3>2. proc[q].msg \in Messages /\ proc[q].no \in 1 .. Len(attempts[proc[q].msg])
      BY <2>1, <3>1, ProcFacts
    <3> QED  BY <1>1, <1>2, <2>1, <3>1, <3>2 DEF Engaged, Request
  <2>2. ASSUME NEW q \in Processes, Engaged(q)'
        PROVE  /\ proc'[q].no \in 1 .. Len(attempts'[proc'[q].msg])
               /\ attempts'[proc'[q].msg][proc'[q].no].status \in {"started", "unknown"}
               /\ attempts'[proc'[q].msg][proc'[q].no].token = proc'[q].token
               /\ proc'[q].pc \in {"marked", "opened"} =>
                     Request(q)' \notin inflight \cup taken \cup refused
               /\ proc'[q].pc = "answered" =>
                     /\ proc'[q].reply \in Replies
                     /\ proc'[q].reply = "accepted" => Request(q)' \in taken
                     /\ proc'[q].reply \in {"rejected", "throttled"} => Request(q)' \in refused
    <3>1. CASE q # p
      <4>1. proc'[q] = proc[q] /\ Engaged(q)
        BY <2>2, <3>1 DEF Engaged
      <4> QED  BY <2>1, <3>1, <4>1 DEF DispatchInv, DispatchersOwnAttempts, Request
    <3>2. CASE q = p
      <4>1. <<m, new>> \notin inflight \cup taken \cup refused
        BY <1>2 DEF DispatchInv, RequestsFollowAttempts
      <4> QED  BY <1>2, <3>2, <4>1 DEF Request
    <3> QED  BY <3>1, <3>2
  <2>3. ASSUME NEW q \in Processes, NEW o \in Processes, Engaged(q)', Engaged(o)',
               Request(q)' = Request(o)'
        PROVE  q = o
    <3>1. \A x \in Processes : x # p => (Engaged(x)' => Engaged(x))
      BY DEF Engaged
    <3>2. CASE q # p /\ o # p
      BY <2>1, <2>3, <3>1, <3>2 DEF DispatchInv, DispatchersOwnAttempts
    <3> QED  BY <2>1, <2>3, <3>1, <3>2
  <2>4. \A w \in Workers : proc'[w].pc # "idle" =>
            proc'[w].msg \in Notifications /\ proc'[w].token \in LeaseTokens
    BY DEF DispatchInv, DispatchersOwnAttempts, Processes
  <2>5. \A c \in Callers : proc'[c].pc # "idle" =>
            proc'[c].msg \in Otps /\ proc'[c].token = NoToken /\ Engaged(c)'
    BY DEF DispatchInv, DispatchersOwnAttempts, Processes, Engaged
  <2> QED  BY <2>2, <2>3, <2>4, <2>5 DEF DispatchersOwnAttempts
<1>8. PendingHasJob'
  BY DEF DispatchInv, PendingHasJob, Messages
<1>9. MarkerFenced'
  <2> SUFFICES ASSUME NEW x \in Notifications, NEW n \in 1 .. Len(attempts'[x]),
                      attempts'[x][n].status = "started"
               PROVE  /\ OwnsLease(x, attempts'[x][n].token)
                      /\ acceptance'[x] = "pending"
                      /\ n = Len(attempts'[x])
    BY <1>4 DEF MarkerFenced, OwnsLease, Messages
  <2>0. x \in Messages
    BY DEF Messages
  <2>1. CASE x # m
    BY <1>1, <2>0, <2>1, Domains DEF DispatchInv, MarkerFenced
  <2>2. CASE x = m /\ n = new
    BY <1>2, <2>2
  <2>3. CASE x = m /\ n # new
    BY <1>2, <1>3, <2>3
  <2> QED  BY <2>1, <2>2, <2>3
<1> QED  BY <1>5, <1>6, <1>7, <1>8, <1>9 DEF DispatchInv

\* Recording a verdict: process p, which alone speaks for attempt n of m, writes
\* status into it and forgets its task.  The message takes the status, or it
\* stays pending with its job back in the queue.
LEMMA VerdictKeepsInv ==
    ASSUME TypeOK, TypeOK', DispatchInv,
           NEW p \in Processes, NEW m \in Messages, NEW n \in 1 .. Len(attempts[m]),
           NEW status \in {"accepted", "rejected", "unknown"},
           Engaged(p), m = proc[p].msg, n = proc[p].no,
           status = "accepted" => <<m, n>> \in taken,
           status = "rejected" => <<m, n>> \in refused,
           attempts' = [attempts EXCEPT ![m][n].status = status],
           Become(p, Idle),
           \A x \in Messages \ {m} : acceptance'[x] = acceptance[x],
           \/ acceptance'[m] = status
           \/ acceptance'[m] = "pending" /\ status = "rejected" /\ m \in Notifications,
           \A x \in Notifications \ {m} : job'[x] = job[x],
           m \in Notifications =>
               (acceptance'[m] = "pending" <=> job'[m].state \in {"pending", "leased"}),
           UNCHANGED provider
    PROVE  DispatchInv'
<1> DEFINE row == [attempts[m][n] EXCEPT !.status = status]
<1>1. /\ attempts[m][n] \in Attempt
      /\ row \in Attempt /\ row.status = status /\ row.token = attempts[m][n].token
      /\ n = Len(attempts[m])
      /\ attempts[m][n].status \in {"started", "unknown"}
  <2>1. attempts[m][n].status \in {"started", "unknown"}
    BY DEF DispatchInv, DispatchersOwnAttempts
  <2>2. attempts[m][n] \in Attempt /\ n = Len(attempts[m])
    BY <2>1, OpenAttempt
  <2> QED  BY <2>1, <2>2 DEF Attempt, AttemptStatus
<1>2. /\ \A x \in Messages : x # m => attempts'[x] = attempts[x]
      /\ attempts'[m] = [attempts[m] EXCEPT ![n] = row]
  <2>1. attempts \in [Messages -> Seq(Attempt)]
    BY DEF TypeOK
  <2> QED  BY <2>1
<1> HIDE DEF row
<1>3. /\ Len(attempts'[m]) = Len(attempts[m])
      /\ \A i \in 1 .. Len(attempts[m]) : attempts'[m][i] = IF i = n THEN row ELSE attempts[m][i]
      /\ Len(attempts[m]) \in Nat
  <2>1. attempts[m] \in Seq(Attempt) /\ Len(attempts[m]) \in Nat
    BY Domains
  <2>2. n \in 1 .. Len(attempts[m]) /\ row \in Attempt
    BY <1>1
  <2>3. /\ Len([attempts[m] EXCEPT ![n] = row]) = Len(attempts[m])
        /\ \A i \in 1 .. Len(attempts[m]) :
              [attempts[m] EXCEPT ![n] = row][i] = IF i = n THEN row ELSE attempts[m][i]
    BY <2>1, <2>2, SeqUpdate
  <2> QED  BY <1>2, <2>1, <2>3
<1>s. attempts'[m][n] = row
  BY <1>1, <1>3
<1>4. \A x \in Messages : DOMAIN attempts'[x] = 1 .. Len(attempts'[x])
  BY DEF TypeOK
<1>5. \A x \in Messages : Len(attempts'[x]) = Len(attempts[x])
  BY <1>2, <1>3
<1>6. \A q \in Processes : proc'[q] = IF q = p THEN Idle ELSE proc[q]
  BY DEF Become, TypeOK
<1>7. \A i \in 1 .. Len(attempts[m]) : i # n => attempts[m][i].status = "rejected"
  BY <1>1, OpenAttempt
<1>8. UNCHANGED <<inflight, taken, refused>>
  BY DEF provider
<1>9. AttemptsFollowAcceptance'
  <2> SUFFICES ASSUME NEW x \in Messages
               PROVE  /\ acceptance'[x] = "absent" => attempts'[x] = <<>>
                      /\ acceptance'[x] \in {"accepted", "unknown"} => attempts'[x] # <<>>
                      /\ acceptance'[x] = "pending" /\ x \in Otps => HasStarted(x)'
                      /\ \A i \in 1 .. Len(attempts'[x]) :
                           /\ i < Len(attempts'[x]) => attempts'[x][i].status = "rejected"
                           /\ i = Len(attempts'[x]) =>
                                attempts'[x][i].status \in
                                  (IF acceptance'[x] = "pending" THEN {"started", "rejected"}
                                                                 ELSE {acceptance'[x]})
    BY DEF AttemptsFollowAcceptance
  <2>1. CASE x # m
    <3>1. attempts'[x] = attempts[x] /\ acceptance'[x] = acceptance[x]
      BY <1>2, <2>1
    <3>2. HasStarted(x)' <=> HasStarted(x)
      BY <3>1 DEF HasStarted
    <3>3. /\ acceptance[x] = "absent" => attempts[x] = <<>>
          /\ acceptance[x] \in {"accepted", "unknown"} => attempts[x] # <<>>
          /\ acceptance[x] = "pending" /\ x \in Otps => HasStarted(x)
          /\ \A i \in 1 .. Len(attempts[x]) :
               /\ i < Len(attempts[x]) => attempts[x][i].status = "rejected"
               /\ i = Len(attempts[x]) =>
                    attempts[x][i].status \in
                      (IF acceptance[x] = "pending" THEN {"started", "rejected"}
                                                    ELSE {acceptance[x]})
      BY DEF DispatchInv, AttemptsFollowAcceptance
    <3> QED  BY <3>1, <3>2, <3>3
  <2>2. CASE x = m
    <3>1. attempts'[m] # <<>> /\ acceptance'[m] # "absent"
      BY <1>3, <1>4
    <3>2. ~(acceptance'[m] = "pending" /\ m \in Otps)
      BY DispatchConstants
    <3>3. \A i \in 1 .. Len(attempts[m]) :
              /\ i # n => attempts'[m][i].status = "rejected"
              /\ i = n => attempts'[m][i].status = status
      BY <1>1, <1>3, <1>7
    <3>4. \A i \in 1 .. Len(attempts[m]) : i < Len(attempts[m]) => i # n
      BY <1>1, <1>3
    <3>5. status \in (IF acceptance'[m] = "pending" THEN {"started", "rejected"}
                                                    ELSE {acceptance'[m]})
      OBVIOUS
    <3>6. /\ acceptance'[m] # "absent" /\ attempts'[m] # <<>>
          /\ ~(acceptance'[m] = "pending" /\ m \in Otps)
          /\ n = Len(attempts[m]) /\ Len(attempts'[m]) = Len(attempts[m])
      BY <1>1, <1>3, <3>1, <3>2
    <3>7. ASSUME NEW i \in 1 .. Len(attempts[m])
          PROVE  /\ i < Len(attempts[m]) => attempts'[m][i].status = "rejected"
                 /\ i = Len(attempts[m]) =>
                      attempts'[m][i].status \in
                        (IF acceptance'[m] = "pending" THEN {"started", "rejected"}
                                                       ELSE {acceptance'[m]})
      BY <3>3, <3>4, <3>5, <3>6
    <3> QED  BY <2>2, <3>6, <3>7
  <2> QED  BY <2>1, <2>2
<1>10. RequestsFollowAttempts'
  <2>1. ASSUME NEW r \in inflight \cup taken \cup refused
        PROVE  r[2] <= Len(attempts'[r[1]])
    <3>1. r[1] \in Messages
      BY DEF TypeOK
    <3>2. r[2] <= Len(attempts[r[1]])
      BY DEF DispatchInv, RequestsFollowAttempts
    <3> QED  BY <1>5, <3>1, <3>2
  <2>2. ASSUME NEW x \in Messages, NEW i \in 1 .. Len(attempts'[x])
        PROVE  /\ attempts'[x][i].status = "rejected" => <<x, i>> \in refused
               /\ attempts'[x][i].status = "accepted" => <<x, i>> \in taken
    <3>1. CASE x # m \/ i # n
      <4>1. /\ i \in 1 .. Len(attempts[x])
            /\ attempts'[x][i] = attempts[x][i]
        BY <1>2, <1>3, <1>5, <3>1
      <4> QED  BY <4>1 DEF DispatchInv, RequestsFollowAttempts
    <3>2. CASE x = m /\ i = n
      BY <1>1, <1>3, <3>2
    <3> QED  BY <3>1, <3>2
  <2> QED  BY <1>8, <2>1, <2>2 DEF DispatchInv, RequestsFollowAttempts
<1>11. DispatchersOwnAttempts'
  <2>1. ASSUME NEW q \in Processes, Engaged(q)'
        PROVE  /\ q # p /\ Engaged(q) /\ proc'[q] = proc[q] /\ Request(q)' = Request(q)
               /\ proc[q].msg \in Messages /\ proc[q].no \in 1 .. Len(attempts[proc[q].msg])
               /\ attempts'[proc[q].msg][proc[q].no] = attempts[proc[q].msg][proc[q].no]
    <3>1. q # p /\ Engaged(q) /\ proc'[q] = proc[q] /\ Request(q)' = Request(q)
      BY <1>6, <2>1 DEF Engaged, Idle, Request
    <3>2. proc[q].msg \in Messages /\ proc[q].no \in 1 .. Len(attempts[proc[q].msg])
      BY <3>1, ProcFacts DEF Engaged
    <3>3. Request(q) # Request(p)
      BY <3>1 DEF DispatchInv, DispatchersOwnAttempts
    <3>4. ~(proc[q].msg = m /\ proc[q].no = n)
      BY <3>3 DEF Request
    <3> QED  BY <1>2, <1>3, <3>1, <3>2, <3>4
  <2>2. ASSUME NEW q \in Processes, Engaged(q)'
        PROVE  /\ proc'[q].no \in 1 .. Len(attempts'[proc'[q].msg])
               /\ attempts'[proc'[q].msg][proc'[q].no].status \in {"started", "unknown"}
               /\ attempts'[proc'[q].msg][proc'[q].no].token = proc'[q].token
               /\ proc'[q].pc \in {"marked", "opened"} =>
                     Request(q)' \notin inflight \cup taken \cup refused
               /\ proc'[q].pc = "answered" =>
                     /\ proc'[q].reply \in Replies
                     /\ proc'[q].reply = "accepted" => Request(q)' \in taken
                     /\ proc'[q].reply \in {"rejected", "throttled"} => Request(q)' \in refused
    <3>1. /\ proc[q].no \in 1 .. Len(attempts[proc[q].msg])
          /\ attempts[proc[q].msg][proc[q].no].status \in {"started", "unknown"}
          /\ attempts[proc[q].msg][proc[q].no].token = proc[q].token
          /\ proc[q].pc \in {"marked", "opened"} =>
                Request(q) \notin inflight \cup taken \cup refused
          /\ proc[q].pc = "answered" =>
                /\ proc[q].reply \in Replies
                /\ proc[q].reply = "accepted" => Request(q) \in taken
                /\ proc[q].reply \in {"rejected", "throttled"} => Request(q) \in refused
      BY <2>1, <2>2 DEF DispatchInv, DispatchersOwnAttempts
    <3>2. /\ proc'[q] = proc[q] /\ Request(q)' = Request(q)
          /\ Len(attempts'[proc[q].msg]) = Len(attempts[proc[q].msg])
          /\ attempts'[proc[q].msg][proc[q].no] = attempts[proc[q].msg][proc[q].no]
      BY <1>5, <2>1, <2>2
    <3> HIDE DEF Request
    <3> QED  BY <3>1, <3>2
  <2>3. ASSUME NEW q \in Processes, NEW o \in Processes, Engaged(q)', Engaged(o)',
               Request(q)' = Request(o)'
        PROVE  q = o
    BY <2>1, <2>3 DEF DispatchInv, DispatchersOwnAttempts
  <2>4. \A w \in Workers : proc'[w].pc # "idle" =>
            proc'[w].msg \in Notifications /\ proc'[w].token \in LeaseTokens
    BY <1>6 DEF DispatchInv, DispatchersOwnAttempts, Processes, Idle
  <2>5. \A c \in Callers : proc'[c].pc # "idle" =>
            proc'[c].msg \in Otps /\ proc'[c].token = NoToken /\ Engaged(c)'
    BY <1>6 DEF DispatchInv, DispatchersOwnAttempts, Processes, Engaged, Idle
  <2> QED  BY <1>8, <2>2, <2>3, <2>4, <2>5 DEF DispatchersOwnAttempts
<1>12. PendingHasJob'
  BY DEF DispatchInv, PendingHasJob, Messages
<1>13. MarkerFenced'
  <2>1. ASSUME NEW x \in Notifications, NEW i \in 1 .. Len(attempts'[x]),
               attempts'[x][i].status = "started"
        PROVE  /\ OwnsLease(x, attempts[x][i].token)'
               /\ acceptance'[x] = "pending"
               /\ i = Len(attempts'[x])
    <3>0. x \in Messages
      BY DEF Messages
    <3>1. x # m
      <4>1. x = m => i \in 1 .. Len(attempts[m])
        BY <1>3
      <4> QED  BY <1>1, <1>3, <1>7, <2>1, <4>1
    <3>2. attempts'[x] = attempts[x] /\ acceptance'[x] = acceptance[x] /\ job'[x] = job[x]
      BY <1>2, <3>0, <3>1
    <3>3. /\ OwnsLease(x, attempts[x][i].token)
          /\ acceptance[x] = "pending"
          /\ i = Len(attempts[x])
      <4>1. i \in DOMAIN attempts[x] /\ attempts[x][i].status = "started"
        BY <2>1, <3>0, <3>2, Domains
      <4> QED  BY <4>1 DEF DispatchInv, MarkerFenced
    <3> QED  BY <3>2, <3>3 DEF OwnsLease
  <2>2. \A x \in Notifications : DOMAIN attempts'[x] = 1 .. Len(attempts'[x])
    BY <1>4 DEF Messages
  <2> QED  BY <2>1, <2>2 DEF MarkerFenced
<1> QED  BY <1>9, <1>10, <1>11, <1>12, <1>13 DEF DispatchInv

\* A process moves on with the attempt it owns, and the provider's record of
\* requests grows by that attempt's request or by a decision about a request.
LEMMA DispatchKeepsInv ==
    ASSUME TypeOK, DispatchInv, NEW p \in Processes, DispatchOtp(p) \/ Dispatch(p)
    PROVE  DispatchInv'
<1> USE DEF message, budget, policy, provider
<1>1. /\ proc[p].pc = "opened" /\ Engaged(p)
      /\ inflight' = inflight \cup {Request(p)}
      /\ proc' = [proc EXCEPT ![p].pc = "sent"]
      /\ UNCHANGED <<acceptance, job, attempts, taken, refused>>
  BY DEF DispatchOtp, Dispatch, Engaged, Request
<1>2. /\ proc'[p].pc = "sent" /\ proc'[p].msg = proc[p].msg /\ proc'[p].no = proc[p].no
      /\ proc'[p].token = proc[p].token
      /\ \A q \in Processes \ {p} : proc'[q] = proc[q]
  <2>1. proc \in [Processes -> Process]
    BY DEF TypeOK
  <2>2. proc[p] \in Process
    BY <2>1
  <2> QED  BY <1>1, <2>1, <2>2 DEF Process
<1>3. /\ proc[p].msg \in Messages /\ proc[p].no \in 1 .. Len(attempts[proc[p].msg])
      /\ Request(p) \notin inflight \cup taken \cup refused
  BY <1>1, ProcFacts DEF DispatchInv, DispatchersOwnAttempts
<1>4. AttemptsFollowAcceptance' /\ PendingHasJob' /\ MarkerFenced'
  <2>1. AttemptsFollowAcceptance'
    BY <1>1 DEF DispatchInv, AttemptsFollowAcceptance, HasStarted
  <2>2. PendingHasJob' /\ MarkerFenced'
    BY <1>1 DEF DispatchInv, PendingHasJob, MarkerFenced, OwnsLease
  <2> QED  BY <2>1, <2>2
<1>5. RequestsFollowAttempts'
  <2>1. Request(p)[1] = proc[p].msg /\ Request(p)[2] = proc[p].no
    BY DEF Request
  <2>2. Request(p)[2] <= Len(attempts[Request(p)[1]])
    BY <1>3, <2>1, Domains
  <2>3. \A r \in inflight' \cup taken \cup refused : r[2] <= Len(attempts[r[1]])
    BY <1>1, <2>2 DEF DispatchInv, RequestsFollowAttempts
  <2> QED  BY <1>1, <1>3, <2>3 DEF DispatchInv, RequestsFollowAttempts
<1>6. DispatchersOwnAttempts'
  <2>1. ASSUME NEW q \in Processes
        PROVE  /\ Engaged(q)' <=> Engaged(q)
               /\ Request(q)' = Request(q)
               /\ proc'[q].msg = proc[q].msg /\ proc'[q].token = proc[q].token
               /\ proc'[q].no = proc[q].no
               /\ q # p => proc'[q] = proc[q]
    BY <1>1, <1>2 DEF Engaged, Request
  <2>2. ASSUME NEW q \in Processes, Engaged(q)'
        PROVE  /\ proc'[q].no \in 1 .. Len(attempts'[proc'[q].msg])
               /\ attempts'[proc'[q].msg][proc'[q].no].status \in {"started", "unknown"}
               /\ attempts'[proc'[q].msg][proc'[q].no].token = proc'[q].token
               /\ proc'[q].pc \in {"marked", "opened"} =>
                     Request(q)' \notin inflight' \cup taken' \cup refused'
               /\ proc'[q].pc = "answered" =>
                     /\ proc'[q].reply \in Replies
                     /\ proc'[q].reply = "accepted" => Request(q)' \in taken'
                     /\ proc'[q].reply \in {"rejected", "throttled"} => Request(q)' \in refused'
    <3>1. /\ proc[q].no \in 1 .. Len(attempts[proc[q].msg])
          /\ attempts[proc[q].msg][proc[q].no].status \in {"started", "unknown"}
          /\ attempts[proc[q].msg][proc[q].no].token = proc[q].token
          /\ proc[q].pc \in {"marked", "opened"} =>
                Request(q) \notin inflight \cup taken \cup refused
          /\ proc[q].pc = "answered" =>
                /\ proc[q].reply \in Replies
                /\ proc[q].reply = "accepted" => Request(q) \in taken
                /\ proc[q].reply \in {"rejected", "throttled"} => Request(q) \in refused
      BY <2>1, <2>2 DEF DispatchInv, DispatchersOwnAttempts
    <3>2. CASE q = p
      BY <1>1, <1>2, <2>1, <3>1, <3>2
    <3>3. CASE q # p
      <4>1. Request(q) # Request(p)
        BY <1>1, <2>1, <2>2, <3>3 DEF DispatchInv, DispatchersOwnAttempts
      <4> QED  BY <1>1, <2>1, <3>1, <3>3, <4>1
    <3> QED  BY <3>2, <3>3
  <2>3. ASSUME NEW q \in Processes, NEW o \in Processes, Engaged(q)', Engaged(o)',
               Request(q)' = Request(o)'
        PROVE  q = o
    BY <2>1, <2>3 DEF DispatchInv, DispatchersOwnAttempts
  <2>4. \A w \in Workers : proc'[w].pc # "idle" =>
            proc'[w].msg \in Notifications /\ proc'[w].token \in LeaseTokens
    <3>1. \A w \in Workers : w \in Processes /\ (proc'[w].pc # "idle" => proc[w].pc # "idle")
      BY <1>1, <1>2 DEF Processes
    <3> QED  BY <2>1, <3>1 DEF DispatchInv, DispatchersOwnAttempts
  <2>5. \A c \in Callers : proc'[c].pc # "idle" =>
            proc'[c].msg \in Otps /\ proc'[c].token = NoToken /\ Engaged(c)'
    <3>1. \A c \in Callers : c \in Processes /\ (proc'[c].pc # "idle" => proc[c].pc # "idle")
      BY <1>1, <1>2 DEF Processes
    <3> QED  BY <2>1, <3>1 DEF DispatchInv, DispatchersOwnAttempts
  <2> QED  BY <2>2, <2>3, <2>4, <2>5 DEF DispatchersOwnAttempts
<1> QED  BY <1>4, <1>5, <1>6 DEF DispatchInv

\* A process learns something (it leases a job, opens the parameters, receives
\* an answer) without touching an attempt or a request.
LEMMA LearnKeepsInv ==
    ASSUME TypeOK, TypeOK', DispatchInv, NEW p \in Processes,
           \A q \in Processes \ {p} : proc'[q] = proc[q],
           proc[p].pc # "sent" => proc'[p].pc \in {"leased", "opened"},
           proc[p].pc = "sent" => proc'[p].pc = "answered",
           p \in Workers => proc'[p].msg \in Notifications /\ proc'[p].token \in LeaseTokens,
           p \in Callers => proc[p].pc = "sent",
           proc'[p].pc = "leased" \/ (proc[p].pc \in {"marked", "sent"}
                                       /\ proc'[p].msg = proc[p].msg /\ proc'[p].no = proc[p].no
                                       /\ proc'[p].token = proc[p].token),
           proc'[p].pc = "answered" =>
                /\ proc'[p].reply \in Replies
                /\ proc'[p].reply = "accepted" => Request(p) \in taken
                /\ proc'[p].reply \in {"rejected", "throttled"} => Request(p) \in refused,
           UNCHANGED <<attempts, provider>>
    PROVE  DispatchersOwnAttempts'
<1>0. UNCHANGED <<inflight, taken, refused>>
  BY DEF provider
<1>1. ASSUME NEW q \in Processes, Engaged(q)'
      PROVE  /\ Engaged(q) /\ Request(q)' = Request(q)
             /\ proc'[q].msg = proc[q].msg /\ proc'[q].token = proc[q].token
             /\ proc'[q].no = proc[q].no
             /\ q # p => proc'[q] = proc[q]
  BY <1>1 DEF Engaged, Request
<1>2. ASSUME NEW q \in Processes, Engaged(q)'
      PROVE  /\ proc'[q].no \in 1 .. Len(attempts'[proc'[q].msg])
             /\ attempts'[proc'[q].msg][proc'[q].no].status \in {"started", "unknown"}
             /\ attempts'[proc'[q].msg][proc'[q].no].token = proc'[q].token
             /\ proc'[q].pc \in {"marked", "opened"} =>
                   Request(q)' \notin inflight' \cup taken' \cup refused'
             /\ proc'[q].pc = "answered" =>
                   /\ proc'[q].reply \in Replies
                   /\ proc'[q].reply = "accepted" => Request(q)' \in taken'
                   /\ proc'[q].reply \in {"rejected", "throttled"} => Request(q)' \in refused'
  <2>1. /\ proc[q].no \in 1 .. Len(attempts[proc[q].msg])
        /\ attempts[proc[q].msg][proc[q].no].status \in {"started", "unknown"}
        /\ attempts[proc[q].msg][proc[q].no].token = proc[q].token
        /\ proc[q].pc \in {"marked", "opened"} =>
              Request(q) \notin inflight \cup taken \cup refused
        /\ proc[q].pc = "answered" =>
              /\ proc[q].reply \in Replies
              /\ proc[q].reply = "accepted" => Request(q) \in taken
              /\ proc[q].reply \in {"rejected", "throttled"} => Request(q) \in refused
    BY <1>1, <1>2 DEF DispatchInv, DispatchersOwnAttempts
  <2>2. CASE q # p
    BY <1>0, <1>1, <1>2, <2>1, <2>2
  <2>3. CASE q = p
    <3>1. proc[p].pc \in {"marked", "sent"}
      BY <1>2, <2>3 DEF Engaged
    <3> QED  BY <1>0, <1>1, <1>2, <2>1, <2>3, <3>1
  <2> QED  BY <2>2, <2>3
<1>3. ASSUME NEW q \in Processes, NEW o \in Processes, Engaged(q)', Engaged(o)',
             Request(q)' = Request(o)'
      PROVE  q = o
  BY <1>1, <1>3 DEF DispatchInv, DispatchersOwnAttempts
<1>4. \A w \in Workers : proc'[w].pc # "idle" =>
          proc'[w].msg \in Notifications /\ proc'[w].token \in LeaseTokens
  BY DEF DispatchInv, DispatchersOwnAttempts, Processes
<1>5. ASSUME NEW c \in Callers, proc'[c].pc # "idle"
      PROVE  proc'[c].msg \in Otps /\ proc'[c].token = NoToken /\ Engaged(c)'
  <2>1. c \in Processes
    BY DEF Processes
  <2>2. CASE c = p
    <3>1. proc'[p].pc = "answered"
      BY <2>2
    <3>2. Engaged(p)' /\ Engaged(p) /\ proc[p].pc # "idle"
      BY <2>2, <3>1 DEF Engaged
    <3> QED  BY <2>2, <3>1, <3>2 DEF DispatchInv, DispatchersOwnAttempts
  <2>3. CASE c # p
    <3>1. proc'[c] = proc[c]
      BY <2>1, <2>3
    <3> QED  BY <1>5, <3>1 DEF DispatchInv, DispatchersOwnAttempts, Engaged
  <2> QED  BY <2>2, <2>3
<1> QED  BY <1>2, <1>3, <1>4, <1>5 DEF DispatchersOwnAttempts

\* The provider decides a request, as long as the answer has not been received.
LEMMA ProviderKeepsInv ==
    ASSUME TypeOK, DispatchInv, NEW r \in inflight, ProviderTakes(r) \/ ProviderRefuses(r)
    PROVE  DispatchInv'
<1> USE DEF message, budget, policy, provider
<1>1. /\ UNCHANGED <<acceptance, job, attempts, proc>>
      /\ inflight' = inflight \ {r}
      /\ \/ taken' = taken \cup {r} /\ refused' = refused
         \/ taken' = taken /\ refused' = refused \cup {r}
  BY DEF ProviderTakes, ProviderRefuses
<1>2. AttemptsFollowAcceptance' /\ PendingHasJob' /\ MarkerFenced'
  <2>1. AttemptsFollowAcceptance'
    BY <1>1 DEF DispatchInv, AttemptsFollowAcceptance, HasStarted
  <2>2. PendingHasJob' /\ MarkerFenced'
    BY <1>1 DEF DispatchInv, PendingHasJob, MarkerFenced, OwnsLease
  <2> QED  BY <2>1, <2>2
<1>3. RequestsFollowAttempts'
  BY <1>1 DEF DispatchInv, RequestsFollowAttempts
<1>4. DispatchersOwnAttempts'
  <2>1. /\ inflight' \cup taken' \cup refused' = inflight \cup taken \cup refused
        /\ taken \subseteq taken' /\ refused \subseteq refused'
    BY <1>1
  <2> QED  BY <1>1, <2>1 DEF DispatchInv, DispatchersOwnAttempts, Engaged, Request
<1> QED  BY <1>2, <1>3, <1>4 DEF DispatchInv

\* Steps that change the acceptance or the job of one notification without an
\* open attempt, and write no attempt.
LEMMA RowKeepsInv ==
    ASSUME TypeOK, TypeOK', DispatchInv, NEW m \in Notifications,
           \A n \in 1 .. Len(attempts[m]) : attempts[m][n].status = "rejected",
           acceptance[m] = "absent" => attempts[m] = <<>>,
           \A x \in Messages \ {m} : acceptance'[x] = acceptance[x],
           acceptance'[m] \in {"pending", "rejected"},
           \A x \in Notifications \ {m} : job'[x] = job[x],
           acceptance'[m] = "pending" <=> job'[m].state \in {"pending", "leased"},
           UNCHANGED <<attempts, provider>>
    PROVE  /\ AttemptsFollowAcceptance' /\ RequestsFollowAttempts'
           /\ PendingHasJob' /\ MarkerFenced'
<1>0. UNCHANGED <<inflight, taken, refused>>
  BY DEF provider
<1>1. m \in Messages /\ m \notin Otps
  BY DispatchConstants DEF Messages
<1>2. AttemptsFollowAcceptance'
  <2> SUFFICES ASSUME NEW x \in Messages
               PROVE  /\ acceptance'[x] = "absent" => attempts[x] = <<>>
                      /\ acceptance'[x] \in {"accepted", "unknown"} => attempts[x] # <<>>
                      /\ acceptance'[x] = "pending" /\ x \in Otps => HasStarted(x)
                      /\ \A n \in 1 .. Len(attempts[x]) :
                           /\ n < Len(attempts[x]) => attempts[x][n].status = "rejected"
                           /\ n = Len(attempts[x]) =>
                                attempts[x][n].status \in
                                  (IF acceptance'[x] = "pending" THEN {"started", "rejected"}
                                                                 ELSE {acceptance'[x]})
    BY DEF AttemptsFollowAcceptance, HasStarted
  <2>1. CASE x # m
    BY <2>1 DEF DispatchInv, AttemptsFollowAcceptance
  <2>2. CASE x = m
    BY <1>1, <2>2
  <2> QED  BY <2>1, <2>2
<1>3. RequestsFollowAttempts'
  BY <1>0 DEF DispatchInv, RequestsFollowAttempts
<1>4. PendingHasJob'
  BY DEF DispatchInv, PendingHasJob, Messages
<1>5. MarkerFenced'
  <2>1. ASSUME NEW x \in Notifications, NEW n \in DOMAIN attempts[x],
               attempts[x][n].status = "started"
        PROVE  /\ OwnsLease(x, attempts[x][n].token)'
               /\ acceptance'[x] = "pending"
               /\ n = Len(attempts[x])
    <3>1. x # m /\ x \in Messages
      BY <1>1, <2>1, Domains DEF Messages
    <3> QED  BY <2>1, <3>1 DEF DispatchInv, MarkerFenced, OwnsLease
  <2> QED  BY <2>1 DEF MarkerFenced
<1> QED  BY <1>2, <1>3, <1>4, <1>5

\* Giving up on open attempts: the attempts of the messages in S become unknown
\* with them, and of all other jobs those under a marker stay what they are.
LEMMA ClosingKeepsInv ==
    ASSUME TypeOK, TypeOK', DispatchInv, NEW S \in SUBSET Messages,
           CloseMarkers(S),
           UNCHANGED <<proc, inflight, taken, refused>>,
           \A m \in Messages : acceptance'[m] = IF m \in S THEN "unknown" ELSE acceptance[m],
           \A m \in S : HasStarted(m),
           \A m \in Notifications :
              /\ m \in S => job'[m].state \notin {"pending", "leased"}
              /\ m \notin S => (job'[m].state \in {"pending", "leased"} <=>
                                   job[m].state \in {"pending", "leased"})
              /\ m \notin S /\ HasStarted(m) => job'[m] = job[m]
    PROVE  DispatchInv'
<1>1. /\ UNCHANGED <<proc, inflight, taken, refused>>
      /\ \A m \in Messages : acceptance'[m] = IF m \in S THEN "unknown" ELSE acceptance[m]
  OBVIOUS
<1>2. ASSUME NEW m \in S
      PROVE  /\ m \in Messages /\ Len(attempts[m]) \in 1 .. Len(attempts[m])
             /\ attempts[m][Len(attempts[m])].status = "started"
  <2>1. PICK n \in DOMAIN attempts[m] : attempts[m][n].status = "started"
    BY DEF HasStarted
  <2>2. n \in 1 .. Len(attempts[m]) /\ n = Len(attempts[m])
    BY <2>1, Domains, OpenAttempt
  <2> QED  BY <2>1, <2>2
<1>3. ASSUME NEW m \in Messages
      PROVE  /\ m \notin S => attempts'[m] = attempts[m]
             /\ Len(attempts'[m]) = Len(attempts[m])
             /\ \A n \in 1 .. Len(attempts[m]) :
                   /\ attempts'[m][n].token = attempts[m][n].token
                   /\ attempts'[m][n].status =
                        IF m \in S /\ attempts[m][n].status = "started"
                          THEN "unknown" ELSE attempts[m][n].status
  BY CloseMarkersFacts
<1>4. \A m \in Notifications :
         /\ m \in S => job'[m].state \notin {"pending", "leased"}
         /\ m \notin S => (job'[m].state \in {"pending", "leased"} <=>
                              job[m].state \in {"pending", "leased"})
         /\ m \notin S /\ HasStarted(m) => job'[m] = job[m]
  OBVIOUS
<1>5. AttemptsFollowAcceptance'
  <2> SUFFICES ASSUME NEW x \in Messages
               PROVE  /\ acceptance'[x] = "absent" => attempts'[x] = <<>>
                      /\ acceptance'[x] \in {"accepted", "unknown"} => attempts'[x] # <<>>
                      /\ acceptance'[x] = "pending" /\ x \in Otps => HasStarted(x)'
                      /\ \A n \in 1 .. Len(attempts'[x]) :
                           /\ n < Len(attempts'[x]) => attempts'[x][n].status = "rejected"
                           /\ n = Len(attempts'[x]) =>
                                attempts'[x][n].status \in
                                  (IF acceptance'[x] = "pending" THEN {"started", "rejected"}
                                                                 ELSE {acceptance'[x]})
    BY DEF AttemptsFollowAcceptance
  <2>1. CASE x \notin S
    <3>1. attempts'[x] = attempts[x] /\ acceptance'[x] = acceptance[x]
      BY <1>1, <1>3, <2>1
    <3>2. HasStarted(x)' <=> HasStarted(x)
      BY <3>1 DEF HasStarted
    <3>3. /\ acceptance[x] = "absent" => attempts[x] = <<>>
          /\ acceptance[x] \in {"accepted", "unknown"} => attempts[x] # <<>>
          /\ acceptance[x] = "pending" /\ x \in Otps => HasStarted(x)
          /\ \A n \in 1 .. Len(attempts[x]) :
               /\ n < Len(attempts[x]) => attempts[x][n].status = "rejected"
               /\ n = Len(attempts[x]) =>
                    attempts[x][n].status \in
                      (IF acceptance[x] = "pending" THEN {"started", "rejected"}
                                                    ELSE {acceptance[x]})
      BY DEF DispatchInv, AttemptsFollowAcceptance
    <3> QED  BY <3>1, <3>2, <3>3
  <2>2. CASE x \in S
    <3>1. acceptance'[x] = "unknown"
      BY <1>1, <2>2
    <3>2. Len(attempts'[x]) = Len(attempts[x]) /\ Len(attempts[x]) \in 1 .. Len(attempts[x])
      BY <1>2, <1>3, <2>2
    <3>3. attempts'[x] # <<>>
      BY <3>2
    <3>4. \A n \in 1 .. Len(attempts[x]) :
            /\ n < Len(attempts[x]) => attempts'[x][n].status = "rejected"
            /\ n = Len(attempts[x]) => attempts'[x][n].status = "unknown"
      <4>1. \A n \in 1 .. Len(attempts[x]) :
              n < Len(attempts[x]) => attempts[x][n].status = "rejected"
        BY DEF DispatchInv, AttemptsFollowAcceptance
      <4>2. attempts[x][Len(attempts[x])].status = "started"
        BY <1>2, <2>2
      <4> QED  BY <1>3, <2>2, <4>1, <4>2
    <3> QED  BY <3>1, <3>2, <3>3, <3>4
  <2> QED  BY <2>1, <2>2
<1>6. RequestsFollowAttempts'
  <2>1. ASSUME NEW r \in inflight \cup taken \cup refused
        PROVE  r[2] <= Len(attempts'[r[1]])
    <3>1. r[1] \in Messages
      BY DEF TypeOK
    <3>2. r[2] <= Len(attempts[r[1]])
      BY DEF DispatchInv, RequestsFollowAttempts
    <3> QED  BY <1>3, <3>1, <3>2
  <2>2. ASSUME NEW x \in Messages, NEW n \in 1 .. Len(attempts'[x])
        PROVE  /\ attempts'[x][n].status = "rejected" => <<x, n>> \in refused
               /\ attempts'[x][n].status = "accepted" => <<x, n>> \in taken
    <3>1. n \in 1 .. Len(attempts[x])
      BY <1>3
    <3>2. attempts'[x][n].status \in {"rejected", "accepted"} =>
             attempts'[x][n].status = attempts[x][n].status
      BY <1>3, <3>1
    <3> QED  BY <3>1, <3>2 DEF DispatchInv, RequestsFollowAttempts
  <2> QED  BY <1>1, <2>1, <2>2 DEF DispatchInv, RequestsFollowAttempts
<1>7. DispatchersOwnAttempts'
  <2>1. ASSUME NEW p \in Processes, Engaged(p)
        PROVE  /\ proc[p].no \in 1 .. Len(attempts'[proc[p].msg])
               /\ attempts'[proc[p].msg][proc[p].no].status \in {"started", "unknown"}
               /\ attempts'[proc[p].msg][proc[p].no].token = proc[p].token
    <3>1. /\ proc[p].msg \in Messages
          /\ proc[p].no \in 1 .. Len(attempts[proc[p].msg])
          /\ attempts[proc[p].msg][proc[p].no].status \in {"started", "unknown"}
          /\ attempts[proc[p].msg][proc[p].no].token = proc[p].token
      BY <2>1, ProcFacts DEF DispatchInv, DispatchersOwnAttempts, Engaged
    <3> QED  BY <1>3, <3>1
  <2>2. UNCHANGED <<proc, inflight, taken, refused>>
    BY <1>1
  <2> QED  BY <2>1, <2>2 DEF DispatchInv, DispatchersOwnAttempts, Engaged, Request
<1>8. PendingHasJob'
  <2> SUFFICES ASSUME NEW m \in Notifications
               PROVE  acceptance'[m] = "pending" <=> job'[m].state \in {"pending", "leased"}
    BY DEF PendingHasJob
  <2>1. m \in Messages
    BY DEF Messages
  <2>2. acceptance[m] = "pending" <=> job[m].state \in {"pending", "leased"}
    BY DEF DispatchInv, PendingHasJob
  <2> QED  BY <1>1, <1>4, <2>1, <2>2
<1>9. MarkerFenced'
  <2>1. ASSUME NEW x \in Notifications, NEW n \in 1 .. Len(attempts'[x]),
               attempts'[x][n].status = "started"
        PROVE  /\ OwnsLease(x, attempts[x][n].token)'
               /\ attempts'[x][n].token = attempts[x][n].token
               /\ acceptance'[x] = "pending"
               /\ n = Len(attempts'[x])
    <3>1. x \in Messages
      BY DEF Messages
    <3>2. x \notin S /\ attempts'[x] = attempts[x] /\ acceptance'[x] = acceptance[x]
      BY <1>1, <1>3, <2>1, <3>1
    <3>3. n \in DOMAIN attempts[x] /\ attempts[x][n].status = "started"
      BY <2>1, <3>1, <3>2, Domains
    <3>4. HasStarted(x)
      BY <3>3 DEF HasStarted
    <3>5. job'[x] = job[x]
      BY <1>4, <3>2, <3>4
    <3> QED  BY <3>2, <3>3, <3>5 DEF DispatchInv, MarkerFenced, OwnsLease
  <2>2. \A x \in Notifications : DOMAIN attempts'[x] = 1 .. Len(attempts'[x])
    BY DEF TypeOK, Messages
  <2> QED  BY <2>1, <2>2 DEF MarkerFenced, OwnsLease
<1> QED  BY <1>5, <1>6, <1>7, <1>8, <1>9 DEF DispatchInv

\* Recovery: the leases without a marker go back to the queue, the attempts under
\* the others and the abandoned direct attempts become unknown with their message.
LEMMA RecoverKeepsInv ==
    ASSUME TypeOK, TypeOK', DispatchInv, NEW R \in SUBSET Notifications,
           NEW Q \in SUBSET Notifications, NEW D \in SUBSET Otps, RecoverBatch(R, Q, D)
    PROVE  DispatchInv'
<1> USE DEF message, budget, policy, provider
<1> DEFINE S == Q \cup D
<1>1. /\ UNCHANGED <<proc, inflight, taken, refused>>
      /\ \A m \in Messages : acceptance'[m] = IF m \in S THEN "unknown" ELSE acceptance[m]
      /\ \A m \in S : acceptance[m] = "pending"
  BY DEF RecoverBatch, CompleteAcceptance, AcceptanceTransition, Messages
<1>a. /\ \A m \in R : m \in ExpiredJobs /\ ~HasStarted(m)
      /\ \A m \in D : HasStarted(m)
  BY DEF RecoverBatch
<1>b. ASSUME NEW m \in Q PROVE HasStarted(m)
  <2>1. PICK n \in DOMAIN attempts[m] :
              attempts[m][n] = [status |-> "started", token |-> job[m].token]
    BY DEF RecoverBatch
  <2>2. attempts[m][n].status = "started"
    BY <2>1
  <2> QED  BY <2>2 DEF HasStarted
<1>2. \A m \in Notifications :
          /\ m \in Q => job'[m].state = "succeeded"
          /\ m \in R \ Q => job'[m].state = "pending" /\ job[m].state = "leased"
          /\ m \notin R \cup Q => job'[m] = job[m]
          /\ m \in R => ~HasStarted(m)
          /\ m \notin D
  <2>1. R \cap Q = {}
    BY <1>a, <1>b
  <2> QED  BY <1>a, <2>1, DispatchConstants DEF RecoverBatch, Unleased, ExpiredJobs
<1>3. S \in SUBSET Messages /\ \A m \in S : HasStarted(m)
  BY <1>a, <1>b DEF Messages
<1>4. CloseMarkers(S)
  BY DEF RecoverBatch
<1> HIDE DEF S
<1>5. \A m \in Notifications :
         /\ m \in S => job'[m].state \notin {"pending", "leased"}
         /\ m \notin S => (job'[m].state \in {"pending", "leased"} <=>
                              job[m].state \in {"pending", "leased"})
         /\ m \notin S /\ HasStarted(m) => job'[m] = job[m]
  BY <1>2 DEF S
<1> QED  BY <1>1, <1>3, <1>4, <1>5, ClosingKeepsInv

\* Retention: a message whose marker was left open becomes unknown with it, one
\* that nobody has sent is rejected, and the rows of all others stay what they are.
LEMMA RetainKeepsInv ==
    ASSUME TypeOK, TypeOK', DispatchInv, NEW m \in Messages, Retain(m)
    PROVE  DispatchInv'
<1> USE DEF message, budget, policy, provider
<1>1. /\ UNCHANGED <<proc, inflight, taken, refused>>
      /\ acceptance[m] # "absent"
      /\ \A x \in Messages : x # m => acceptance'[x] = acceptance[x]
      /\ acceptance[m] = "pending" => acceptance'[m] = Verdict(m)
      /\ acceptance[m] # "pending" => acceptance'[m] = acceptance[m]
      /\ CloseMarkers({m})
  BY DEF Retain, TypeOK
<1>2. \A x \in Notifications :
          /\ x # m \/ job[x].state \notin {"pending", "leased"} => job'[x] = job[x]
          /\ x = m /\ job[x].state \in {"pending", "leased"} => job'[x].state = "dead"
  BY DEF Retain, KillJob, Unleased
<1>3. \A x \in Notifications :
          acceptance[x] = "pending" <=> job[x].state \in {"pending", "leased"}
  BY DEF DispatchInv, PendingHasJob
<1>4. HasStarted(m) => acceptance[m] = "pending" /\ Verdict(m) = "unknown"
  BY Domains, OpenAttempt DEF HasStarted, Verdict, Dispatched
<1>5. CASE HasStarted(m)
  <2>1. \A x \in Messages : acceptance'[x] = IF x \in {m} THEN "unknown" ELSE acceptance[x]
    BY <1>1, <1>4, <1>5
  <2>2. \A x \in Notifications :
           /\ x \in {m} => job'[x].state \notin {"pending", "leased"}
           /\ x \notin {m} => (job'[x].state \in {"pending", "leased"} <=>
                                 job[x].state \in {"pending", "leased"})
           /\ x \notin {m} /\ HasStarted(x) => job'[x] = job[x]
    BY <1>2
  <2> QED  BY <1>1, <1>5, <2>1, <2>2, ClosingKeepsInv
<1>6. CASE ~HasStarted(m)
  <2>1. attempts' = attempts
    <3>1. ASSUME NEW x \in Messages PROVE attempts'[x] = attempts[x]
      <4>1. CASE x # m
        BY <1>1, <4>1, CloseMarkersFacts
      <4>2. CASE x = m
        <5>1. /\ attempts[m] \in Seq(Attempt) /\ attempts'[m] \in Seq(Attempt)
              /\ Len(attempts'[m]) = Len(attempts[m])
          BY <1>1, CloseMarkersFacts DEF TypeOK
        <5>2. \A n \in 1 .. Len(attempts[m]) : attempts'[m][n] = attempts[m][n]
          <6>1. \A n \in 1 .. Len(attempts[m]) : attempts[m][n].status # "started"
            BY <1>6, Domains DEF HasStarted
          <6> QED  BY <1>1, <6>1, CloseMarkersFacts
        <5> QED  BY <4>2, <5>1, <5>2
      <4> QED  BY <4>1, <4>2
    <3>2. attempts \in [Messages -> Seq(Attempt)] /\ attempts' \in [Messages -> Seq(Attempt)]
      BY <1>1, CloseMarkersFacts DEF TypeOK
    <3> QED  BY <3>1, <3>2
  <2>2. DispatchersOwnAttempts'
    BY <1>1, <2>1 DEF DispatchInv, DispatchersOwnAttempts, Engaged, Request
  <2>3. CASE acceptance[m] = "pending"
    <3>1. m \in Notifications
      BY <1>6, <2>3 DEF DispatchInv, AttemptsFollowAcceptance, Messages
    <3>2. \A n \in 1 .. Len(attempts[m]) : attempts[m][n].status = "rejected"
      <4>1. ASSUME NEW n \in 1 .. Len(attempts[m]) PROVE attempts[m][n].status = "rejected"
        <5>1. attempts[m][n].status # "started"
          BY <1>6, Domains DEF HasStarted
        <5> QED  BY <2>3, <5>1, OpenAttempt DEF Attempt, AttemptStatus
      <4> QED  BY <4>1
    <3>3. acceptance'[m] = "rejected"
      <4>1. ~Dispatched(m)
        BY <3>2, Domains DEF Dispatched
      <4> QED  BY <1>1, <2>3, <4>1 DEF Verdict
    <3>4. job'[m].state = "dead"
      BY <1>2, <1>3, <2>3, <3>1
    <3>5. \A x \in Notifications \ {m} : job'[x] = job[x]
      BY <1>2
    <3> QED  BY <1>1, <2>1, <2>2, <2>3, <3>1, <3>2, <3>3, <3>4, <3>5, RowKeepsInv
             DEF DispatchInv
  <2>4. CASE acceptance[m] # "pending"
    <3>1. acceptance' = acceptance
      BY <1>1, <2>4 DEF TypeOK
    <3>2. job' = job
      <4>1. \A x \in Notifications : job'[x] = job[x]
        BY <1>2, <1>3, <2>4
      <4>2. /\ job \in [Notifications -> Job]
            /\ job' \in [Notifications -> Job]
        BY DEF TypeOK
      <4> HIDE DEF message, budget, policy, provider
      <4> QED  BY <4>1, <4>2
    <3>3. AttemptsFollowAcceptance' /\ RequestsFollowAttempts'
      BY <1>1, <2>1, <3>1
         DEF DispatchInv, AttemptsFollowAcceptance, RequestsFollowAttempts, HasStarted
    <3>4. PendingHasJob' /\ MarkerFenced'
      BY <2>1, <3>1, <3>2 DEF DispatchInv, PendingHasJob, MarkerFenced, OwnsLease
    <3> QED  BY <2>2, <3>3, <3>4 DEF DispatchInv
  <2> QED  BY <2>3, <2>4
<1> QED  BY <1>5, <1>6

-----------------------------------------------------------------------------
(* Every step keeps the inductive invariant *)

\* A worker's lease of a pending job: no attempt of the message is open.
LEMMA LeaseKeepsInv ==
    ASSUME TypeOK, TypeOK', DispatchInv,
           NEW w \in Workers, NEW m \in Notifications, NEW t \in LeaseTokens, Lease(w, m, t)
    PROVE  DispatchInv'
<1> USE DEF message, budget, policy, provider
<1>1. w \in Processes /\ m \in Messages
  BY DEF Processes, Messages
<1>2. /\ job[m].state = "pending" /\ acceptance[m] = "pending"
      /\ \A x \in Notifications : x # m => job'[x] = job[x]
      /\ job'[m].state = "leased"
      /\ UNCHANGED <<acceptance, attempts, inflight, taken, refused>>
  <2>1. job \in [Notifications -> Job] /\ job[m] \in Job
    BY DEF TypeOK
  <2> QED  BY <2>1 DEF Lease, Job, DispatchInv, PendingHasJob
<1>3. \A n \in 1 .. Len(attempts[m]) : attempts[m][n].status = "rejected"
  <2> SUFFICES ASSUME NEW n \in 1 .. Len(attempts[m]) PROVE attempts[m][n].status = "rejected"
    OBVIOUS
  <2>1. attempts[m][n].status # "started"
    BY <1>1, <1>2, Domains DEF DispatchInv, MarkerFenced, OwnsLease
  <2> QED  BY <1>1, <1>2, <2>1, OpenAttempt DEF Attempt, AttemptStatus
<1>4. AttemptsFollowAcceptance' /\ RequestsFollowAttempts' /\ PendingHasJob' /\ MarkerFenced'
  BY <1>2, <1>3, RowKeepsInv
<1>5. /\ \A q \in Processes \ {w} : proc'[q] = proc[q]
      /\ proc[w].pc = "idle"
      /\ proc'[w].pc = "leased" /\ proc'[w].msg = m /\ proc'[w].token = t
  BY <1>1 DEF Lease, Become, TypeOK, Idle
<1>6. DispatchersOwnAttempts'
  <2>1. w \notin Callers
    BY DispatchConstants
  <2> QED  BY <1>1, <1>2, <1>5, <2>1, LearnKeepsInv
<1> QED  BY <1>4, <1>6 DEF DispatchInv

\* A message whose template or signature became unusable between two attempts.
LEMMA RejectUndispatchedKeepsInv ==
    ASSUME TypeOK, TypeOK', DispatchInv, NEW w \in Workers, RejectUndispatched(w)
    PROVE  DispatchInv'
<1> USE DEF message, budget, policy, provider
<1> DEFINE m == proc[w].msg
<1>1. w \in Processes /\ m \in Notifications /\ m \in Messages
  BY ProcFacts DEF RejectUndispatched, Processes
<1>2. /\ \A x \in Messages : x # m => acceptance'[x] = acceptance[x]
      /\ acceptance[m] = "pending" /\ acceptance'[m] = "rejected"
      /\ \A x \in Notifications : x # m => job'[x] = job[x]
      /\ job'[m].state = "dead"
      /\ UNCHANGED <<attempts, inflight, taken, refused>>
      /\ \A n \in 1 .. Len(attempts[m]) : attempts[m][n].status = "rejected"
  BY <1>1, Domains DEF RejectUndispatched, TypeOK, Unleased
<1>3. AttemptsFollowAcceptance' /\ RequestsFollowAttempts' /\ PendingHasJob' /\ MarkerFenced'
  BY <1>1, <1>2, RowKeepsInv
<1>4. \A q \in Processes : proc'[q] = IF q = w THEN Idle ELSE proc[q]
  BY DEF RejectUndispatched, Become, TypeOK
<1>5. Idle.pc = "idle"
  BY DEF Idle
<1>6. \A q \in Workers \cup Callers : q \in Processes
  BY DEF Processes
<1>7. DispatchersOwnAttempts'
  BY <1>2, <1>4, <1>5, <1>6 DEF DispatchInv, DispatchersOwnAttempts, Engaged, Request
<1> QED  BY <1>3, <1>7 DEF DispatchInv

\* The five ways a worker records the provider's answer.
LEMMA CompletionKeepsInv ==
    ASSUME TypeOK, TypeOK', DispatchInv, NEW w \in Workers,
           CompleteAccepted(w) \/ CompleteUnknown(w) \/ CompleteRejected(w) \/ Reschedule(w)
    PROVE  DispatchInv'
<1> USE DEF message, budget, policy, provider
<1> DEFINE m == proc[w].msg
           n == proc[w].no
           t == proc[w].token
<1>1. /\ w \in Processes /\ proc[w].pc = "answered" /\ Engaged(w)
      /\ m \in Notifications /\ m \in Messages /\ n \in 1 .. Len(attempts[m])
      /\ Request(w) = <<m, n>>
  <2>1. w \in Processes /\ proc[w].pc = "answered" /\ Engaged(w)
    BY DEF CompleteAccepted, CompleteUnknown, CompleteRejected, Reschedule, Processes, Engaged
  <2> QED  BY <2>1, ProcFacts DEF Request
<1>2. /\ attempts[m][n].status \in {"started", "unknown"}
      /\ attempts[m][n].token = t
      /\ n = Len(attempts[m])
      /\ proc[w].reply = "accepted" => <<m, n>> \in taken
      /\ proc[w].reply \in {"rejected", "throttled"} => <<m, n>> \in refused
  <2>1. /\ attempts[m][n].status \in {"started", "unknown"}
        /\ attempts[m][n].token = t
        /\ proc[w].reply = "accepted" => <<m, n>> \in taken
        /\ proc[w].reply \in {"rejected", "throttled"} => <<m, n>> \in refused
    BY <1>1 DEF DispatchInv, DispatchersOwnAttempts
  <2> QED  BY <1>1, <2>1, OpenAttempt
<1>3. acceptance[m] = "pending" <=> job[m].state \in {"pending", "leased"}
  BY <1>1 DEF DispatchInv, PendingHasJob
<1>4. acceptance[m] = "pending" => OwnsLease(m, t)
  <2>1. acceptance[m] = "pending" => attempts[m][n].status = "started"
    BY <1>1, <1>2, OpenAttempt
  <2> QED  BY <1>1, <1>2, <2>1, Domains DEF DispatchInv, MarkerFenced
<1>5. /\ Become(w, Idle)
      /\ UNCHANGED provider
      /\ UNCHANGED <<inflight, taken, refused>>
  BY DEF CompleteAccepted, CompleteUnknown, CompleteRejected, Reschedule, Settle
<1>6. job \in [Notifications -> Job] /\ acceptance \in [Messages -> AcceptanceStatus \cup {"absent"}]
  BY DEF TypeOK
<1>7. ASSUME NEW status \in {"accepted", "rejected", "unknown"}, NEW state \in {"succeeded", "dead"},
             CompleteAcceptance({m}, status),
             status = "accepted" => proc[w].reply = "accepted",
             status = "rejected" => proc[w].reply \in {"rejected", "throttled"},
             EnsureAttempt(m, n, status) \/ CompleteAttempt(m, n, status),
             CompleteJob(m, t, Unleased(state, job[m].count)),
             status = "unknown" => attempts[m][n].status = "started"
      PROVE  DispatchInv'
  <2>1. attempts' = [attempts EXCEPT ![m][n].status = status]
    <3>1. attempts[m][n].status # status
      BY <1>2, <1>7
    <3> QED  BY <1>7, <3>1 DEF EnsureAttempt, CompleteAttempt
  <2>2. /\ \A x \in Messages \ {m} : acceptance'[x] = acceptance[x]
        /\ acceptance'[m] = status
        /\ acceptance[m] \in {"pending", "unknown"}
    BY <1>1, <1>7 DEF CompleteAcceptance, AcceptanceTransition
  <2>3. \A x \in Notifications \ {m} : job'[x] = job[x]
    BY <1>6, <1>7 DEF CompleteJob
  <2>4. job'[m].state \notin {"pending", "leased"}
    <3>1. CASE OwnsLease(m, t)
      BY <1>1, <1>6, <1>7, <3>1 DEF CompleteJob, Unleased
    <3>2. CASE ~OwnsLease(m, t)
      BY <1>3, <1>4, <1>7, <2>2, <3>2 DEF CompleteJob
    <3> QED  BY <3>1, <3>2
  <2>5. status # "pending"
    OBVIOUS
  <2> HIDE DEF m, n, t
  <2> QED  BY <1>1, <1>2, <1>5, <1>7, <2>1, <2>2, <2>3, <2>4, <2>5, VerdictKeepsInv DEF m, n
<1>8. CASE CompleteAccepted(w)
  BY <1>7, <1>8 DEF CompleteAccepted
<1>9. CASE CompleteUnknown(w)
  BY <1>7, <1>9 DEF CompleteUnknown
<1>10. CASE CompleteRejected(w)
  BY <1>7, <1>10 DEF CompleteRejected
<1>11. CASE Reschedule(w)
  <2>1. /\ attempts' = [attempts EXCEPT ![m][n].status = "rejected"]
        /\ acceptance' = acceptance
        /\ proc[w].reply \in {"rejected", "throttled"}
        /\ OwnsLease(m, t)
        /\ job' = [job EXCEPT ![m] = Unleased("pending", job[m].count + 1)]
    BY <1>11 DEF Reschedule, CompleteAttempt, MustFinalize
  <2>2. acceptance[m] = "pending" /\ acceptance'[m] = "pending"
    BY <1>1, <1>3, <2>1 DEF OwnsLease
  <2>3. /\ \A x \in Notifications \ {m} : job'[x] = job[x]
        /\ job'[m].state = "pending"
    BY <1>1, <1>6, <2>1 DEF Unleased
  <2>4. \A x \in Messages \ {m} : acceptance'[x] = acceptance[x]
    BY <2>1
  <2> HIDE DEF m, n, t
  <2> QED  BY <1>1, <1>2, <1>5, <2>1, <2>2, <2>3, <2>4, VerdictKeepsInv DEF m, n
<1> QED  BY <1>8, <1>9, <1>10, <1>11

\* sendOtpNow records its answer, or its transaction is refused.
LEMMA CompleteOtpKeepsInv ==
    ASSUME TypeOK, TypeOK', DispatchInv, NEW c \in Callers, CompleteOtp(c)
    PROVE  DispatchInv'
<1> USE DEF message, budget, policy, provider
<1> DEFINE m == proc[c].msg
           n == proc[c].no
           status == IF proc[c].reply \in {"rejected", "throttled"} THEN "rejected"
                                                                    ELSE proc[c].reply
<1>1. /\ c \in Processes /\ proc[c].pc = "answered" /\ Engaged(c) /\ Become(c, Idle)
      /\ m \in Otps /\ m \in Messages /\ m \notin Notifications
      /\ n \in 1 .. Len(attempts[m])
      /\ Request(c) = <<m, n>>
      /\ proc[c].reply \in Replies
  <2>1. c \in Processes /\ proc[c].pc = "answered" /\ Engaged(c) /\ Become(c, Idle)
    BY DEF CompleteOtp, Processes, Engaged
  <2> QED  BY <2>1, ProcFacts, DispatchConstants DEF Request
<1>2. CASE ~AcceptanceTransition(acceptance[m], status)
           /\ UNCHANGED <<message, job, attempts, budget, reconcile, policy, provider>>
  BY <1>1, <1>2, ForgetKeepsInv DEF Forget
<1>3. CASE /\ CompleteAcceptance({m}, status)
           /\ CompleteAttempt(m, n, status)
           /\ UNCHANGED <<params, job, policy, provider>>
  <2>1. status \in {"accepted", "rejected", "unknown"}
    BY <1>1 DEF Replies
  <2>2. /\ status = "accepted" => <<m, n>> \in taken
        /\ status = "rejected" => <<m, n>> \in refused
    BY <1>1 DEF DispatchInv, DispatchersOwnAttempts, Replies
  <2>3. /\ \A x \in Messages \ {m} : acceptance'[x] = acceptance[x]
        /\ acceptance'[m] = status
    BY <1>1, <1>3 DEF CompleteAcceptance
  <2>4. /\ attempts' = [attempts EXCEPT ![m][n].status = status]
        /\ \A x \in Notifications \ {m} : job'[x] = job[x]
        /\ UNCHANGED provider
    BY <1>3 DEF CompleteAttempt
  <2> HIDE DEF m, n, status
  <2> QED  BY <1>1, <2>1, <2>2, <2>3, <2>4, VerdictKeepsInv DEF m, n
<1> QED  BY <1>2, <1>3 DEF CompleteOtp

LEMMA InvStep == TypeOK /\ DispatchInv /\ [Next]_vars => DispatchInv'
<1> SUFFICES ASSUME TypeOK, DispatchInv, [Next]_vars PROVE DispatchInv'
  OBVIOUS
<1>t. TypeOK'
  BY TypeStep
<1> USE DEF message, budget, policy, provider
<1>1. /\ \A w \in Workers : w \in Processes /\ w \notin Callers
      /\ \A c \in Callers : c \in Processes /\ c \notin Workers
  BY DispatchConstants DEF Processes
<1>2. ASSUME NEW m \in Notifications, EnqueueNotification(m) PROVE DispatchInv'
  <2>1. /\ m \in Messages /\ acceptance[m] = "absent" /\ acceptance'[m] = "pending"
        /\ \A x \in Messages : x # m => acceptance'[x] = acceptance[x]
        /\ \A x \in Notifications : x # m => job'[x] = job[x]
        /\ job'[m].state = "pending"
        /\ UNCHANGED <<attempts, proc, inflight, taken, refused>>
    BY <1>2 DEF EnqueueNotification, TypeOK, Messages, Unleased
  <2>2. attempts[m] = <<>>
    BY <2>1 DEF DispatchInv, AttemptsFollowAcceptance
  <2>3. \A n \in 1 .. Len(attempts[m]) : attempts[m][n].status = "rejected"
    BY <2>2
  <2>4. /\ AttemptsFollowAcceptance' /\ RequestsFollowAttempts'
        /\ PendingHasJob' /\ MarkerFenced'
    BY <1>t, <2>1, <2>2, <2>3, RowKeepsInv
  <2>5. DispatchersOwnAttempts'
    BY <2>1 DEF DispatchInv, DispatchersOwnAttempts, Engaged, Request
  <2> QED  BY <2>4, <2>5 DEF DispatchInv
<1>3. ASSUME NEW c \in Callers, NEW m \in Otps, SendOtpNow(c, m) PROVE DispatchInv'
  <2>1. /\ m \in Messages /\ m \notin Notifications
        /\ acceptance[m] = "absent" /\ acceptance'[m] = "pending"
        /\ \A x \in Messages \ {m} : acceptance'[x] = acceptance[x]
        /\ proc[c].pc = "idle"
        /\ CreateStarted(m, NoToken)
        /\ UNCHANGED <<job, inflight, taken, refused>>
    BY <1>3, DispatchConstants DEF SendOtpNow, TypeOK, Messages
  <2>2. /\ \A q \in Processes \ {c} : proc'[q] = proc[q]
        /\ proc'[c].pc = "opened" /\ proc'[c].msg = m /\ proc'[c].token = NoToken
        /\ proc'[c].no = Len(attempts[m]) + 1
    BY <1>1, <1>3 DEF SendOtpNow, Become, Idle, TypeOK
  <2> QED  BY <1>1, <1>t, <2>1, <2>2, MarkKeepsInv
<1>4. ASSUME NEW w \in Workers, MarkDispatch(w) PROVE DispatchInv'
  <2> DEFINE m == proc[w].msg
             t == proc[w].token
  <2>1. /\ proc[w].pc = "leased" /\ m \in Notifications /\ m \in Messages /\ t \in LeaseTokens
        /\ OwnsLease(m, t)
        /\ acceptance[m] = "pending" /\ acceptance' = acceptance
        /\ CreateStarted(m, t)
        /\ UNCHANGED <<job, inflight, taken, refused>>
    BY <1>1, <1>4, ProcFacts DEF MarkDispatch, HoldsLiveLease
  <2>2. /\ \A q \in Processes \ {w} : proc'[q] = proc[q]
        /\ proc'[w].pc = "marked" /\ proc'[w].msg = m /\ proc'[w].token = t
        /\ proc'[w].no = Len(attempts[m]) + 1
    <3>1. proc[w] \in Process
      BY <1>1 DEF TypeOK
    <3> QED  BY <1>1, <1>4, <3>1 DEF MarkDispatch, TypeOK, Process
  <2>3. /\ acceptance'[m] = "pending"
        /\ \A x \in Messages \ {m} : acceptance'[x] = acceptance[x]
    BY <2>1
  <2> HIDE DEF m, t
  <2> QED  BY <1>1, <1>t, <2>1, <2>2, <2>3, MarkKeepsInv
<1>5. ASSUME NEW w \in Workers, OpenProviderInput(w) PROVE DispatchInv'
  <2>1. proc[w] \in Process
    BY <1>1 DEF TypeOK
  <2>2. /\ proc[w].pc = "marked"
        /\ proc'[w].pc = "opened" /\ proc'[w].msg = proc[w].msg /\ proc'[w].no = proc[w].no
        /\ proc'[w].token = proc[w].token
        /\ \A q \in Processes \ {w} : proc'[q] = proc[q]
        /\ UNCHANGED <<acceptance, job, attempts, inflight, taken, refused>>
    BY <1>1, <1>5, <2>1 DEF OpenProviderInput, TypeOK, Process
  <2>3. proc[w].msg \in Notifications /\ proc[w].token \in LeaseTokens
    BY <1>1, <2>2, ProcFacts
  <2>4. DispatchersOwnAttempts'
    BY <1>1, <1>t, <2>2, <2>3, LearnKeepsInv
  <2>5. AttemptsFollowAcceptance' /\ RequestsFollowAttempts'
    BY <2>2 DEF DispatchInv, AttemptsFollowAcceptance, RequestsFollowAttempts, HasStarted
  <2>6. PendingHasJob' /\ MarkerFenced'
    BY <2>2 DEF DispatchInv, PendingHasJob, MarkerFenced, OwnsLease
  <2> QED  BY <2>4, <2>5, <2>6 DEF DispatchInv
<1>6. ASSUME NEW p \in Processes, NEW reply \in Replies, Receive(p, reply) PROVE DispatchInv'
  <2>1. proc[p] \in Process
    BY DEF TypeOK
  <2>2. /\ proc[p].pc = "sent"
        /\ proc'[p].pc = "answered" /\ proc'[p].msg = proc[p].msg /\ proc'[p].no = proc[p].no
        /\ proc'[p].token = proc[p].token /\ proc'[p].reply = reply
        /\ \A q \in Processes \ {p} : proc'[q] = proc[q]
        /\ reply = "accepted" => Request(p) \in taken
        /\ reply \in {"rejected", "throttled"} => Request(p) \in refused
        /\ UNCHANGED <<acceptance, job, attempts, inflight, taken, refused>>
    BY <1>6, <2>1 DEF Receive, TypeOK, Process, Request
  <2>3. p \in Workers => proc[p].msg \in Notifications /\ proc[p].token \in LeaseTokens
    BY <2>2, ProcFacts
  <2>4. DispatchersOwnAttempts'
    BY <1>1, <1>t, <2>2, <2>3, LearnKeepsInv
  <2>5. AttemptsFollowAcceptance' /\ RequestsFollowAttempts'
    <3>0. UNCHANGED <<acceptance, attempts>>
      BY <2>2
    <3>1. AttemptsFollowAcceptance'
      BY <3>0 DEF DispatchInv, AttemptsFollowAcceptance, HasStarted
    <3>2. RequestsFollowAttempts'
      BY <2>2 DEF DispatchInv, RequestsFollowAttempts
    <3> QED  BY <3>1, <3>2
  <2>6. PendingHasJob' /\ MarkerFenced'
    BY <2>2 DEF DispatchInv, PendingHasJob, MarkerFenced, OwnsLease
  <2> QED  BY <2>4, <2>5, <2>6 DEF DispatchInv
<1>7. ASSUME UNCHANGED <<acceptance, attempts, proc, inflight, taken, refused>>,
             \A m \in Notifications :
                /\ job'[m].state = job[m].state
                /\ job'[m].token = job[m].token
      PROVE  DispatchInv'
  <2>1. AttemptsFollowAcceptance' /\ RequestsFollowAttempts'
    BY <1>7 DEF DispatchInv, AttemptsFollowAcceptance, RequestsFollowAttempts, HasStarted
  <2>2. PendingHasJob' /\ MarkerFenced'
    <3>1. PendingHasJob'
      BY <1>7 DEF DispatchInv, PendingHasJob
    <3>2. ASSUME NEW m \in Notifications, NEW t PROVE OwnsLease(m, t)' <=> OwnsLease(m, t)
      BY <1>7 DEF OwnsLease
    <3>3. MarkerFenced'
      BY <1>7, <3>2 DEF DispatchInv, MarkerFenced
    <3> QED  BY <3>1, <3>3
  <2>3. DispatchersOwnAttempts'
    BY <1>7 DEF DispatchInv, DispatchersOwnAttempts, Engaged, Request
  <2> QED  BY <2>1, <2>2, <2>3 DEF DispatchInv
<1>8. ASSUME NEW m \in Notifications, ExpireLease(m) PROVE DispatchInv'
  <2>1. \A x \in Notifications : job'[x].state = job[x].state /\ job'[x].token = job[x].token
    BY <1>8 DEF ExpireLease, TypeOK, Job
  <2> QED  BY <1>7, <1>8, <2>1 DEF ExpireLease
<1>9. CASE NextDay \/ SwitchCircuit \/ UNCHANGED vars
  BY <1>7, <1>9 DEF NextDay, SwitchCircuit, vars
<1>10. ASSUME NEW c \in Callers, CallerStep(c) PROVE DispatchInv'
  BY <1>1, <1>t, <1>3, <1>6, <1>10, DispatchKeepsInv, CompleteOtpKeepsInv DEF CallerStep
<1>11. ASSUME NEW w \in Workers, WorkerStep(w) PROVE DispatchInv'
  <2>1. CASE AbortMark(w) \/ AbortOpen(w) \/ AbortDispatch(w) \/ DropAnswer(w)
    BY <1>1, <2>1, ForgettingSteps, ForgetKeepsInv
  <2>2. CASE \E m \in Notifications, t \in LeaseTokens : Lease(w, m, t)
    BY <1>t, <2>2, LeaseKeepsInv
  <2>3. CASE CompleteAccepted(w) \/ CompleteUnknown(w) \/ CompleteRejected(w) \/ Reschedule(w)
    BY <1>t, <2>3, CompletionKeepsInv
  <2> QED  BY <1>1, <1>t, <1>4, <1>5, <1>6, <1>11, <2>1, <2>2, <2>3, DispatchKeepsInv,
              RejectUndispatchedKeepsInv
           DEF WorkerStep
<1>12. CASE EnvironmentStep
  <2>1. ASSUME NEW p \in Processes, Crash(p) PROVE DispatchInv'
    BY <2>1, ForgettingSteps, ForgetKeepsInv
  <2>2. ASSUME NEW m \in OldMessages, Retain(m) PROVE DispatchInv'
    BY <1>t, <2>2, DispatchConstants, RetainKeepsInv
  <2> QED  BY <1>2, <1>8, <1>9, <1>12, <2>1, <2>2 DEF EnvironmentStep
<1>13. CASE ProviderStep
  BY <1>13, ProviderKeepsInv DEF ProviderStep
<1>14. CASE Recover
  BY <1>t, <1>14, RecoverKeepsInv DEF Recover
<1> QED  BY <1>9, <1>10, <1>11, <1>12, <1>13, <1>14 DEF Next

LEMMA InitInv == Init => TypeOK /\ DispatchInv
<1> SUFFICES ASSUME Init PROVE TypeOK /\ DispatchInv
  OBVIOUS
<1> USE DEF Init
<1>1. TypeOK
  <2>1. Idle \in Process
    BY DEF Idle, Process
  <2>2. [state |-> "none", token |-> NoToken, live |-> FALSE, count |-> 0] \in Job
    BY DEF Job, JobState
  <2>3. 0 \in Days /\ [state |-> "none", day |-> 0] \in Reservation
    BY DispatchConstants DEF Days, Reservation
  <2>4. /\ acceptance \in [Messages -> AcceptanceStatus \cup {"absent"}]
        /\ delivery \in [Messages -> DeliveryStatus]
        /\ params \in [Messages -> BOOLEAN]
        /\ reconcile \in [Messages -> BOOLEAN]
        /\ circuitOpen \in BOOLEAN
    BY DEF DeliveryStatus
  <2>5. /\ attempts \in [Messages -> Seq(Attempt)]
        /\ heldCount \in [Days -> Nat]
    OBVIOUS
  <2>6. /\ job \in [Notifications -> Job]
        /\ reservation \in [Messages -> Reservation]
        /\ proc \in [Processes -> Process]
        /\ day \in Days
    BY <2>1, <2>2, <2>3
  <2>7. /\ inflight \subseteq Messages \X (Nat \ {0})
        /\ taken \subseteq Messages \X (Nat \ {0})
        /\ refused \subseteq Messages \X (Nat \ {0})
    OBVIOUS
  <2> HIDE DEF Init
  <2> QED  BY <2>4, <2>5, <2>6, <2>7 DEF TypeOK
<1>2. AttemptsFollowAcceptance /\ RequestsFollowAttempts
  BY DEF AttemptsFollowAcceptance, RequestsFollowAttempts
<1>3. DispatchersOwnAttempts
  BY DEF DispatchersOwnAttempts, Engaged, Idle, Processes
<1>4. PendingHasJob /\ MarkerFenced
  BY DEF PendingHasJob, MarkerFenced, Messages
<1> QED  BY <1>1, <1>2, <1>3, <1>4 DEF DispatchInv

\* The inductive invariant holds in every reachable state.
THEOREM InvariantHolds == Spec => [](TypeOK /\ DispatchInv)
<1>1. TypeOK /\ DispatchInv /\ [Next]_vars => (TypeOK /\ DispatchInv)'
  BY TypeStep, InvStep
<1> QED  BY <1>1, InitInv, PTL DEF Spec

\* Every row, counter and process keeps the shape the schema gives it.
THEOREM TypeCorrect == Spec => []TypeOK
BY InvariantHolds, PTL

-----------------------------------------------------------------------------
(* What the inductive invariant says about the provider *)

LEMMA InvImpliesSingleSend == TypeOK /\ DispatchInv => SingleAcceptedSend
<1> SUFFICES ASSUME TypeOK, DispatchInv, NEW r \in taken, NEW s \in taken, r[1] = s[1]
             PROVE  r = s
  BY DEF SingleAcceptedSend
<1>1. /\ r \in Messages \X (Nat \ {0}) /\ s \in Messages \X (Nat \ {0})
  BY DEF TypeOK
<1>2. ASSUME NEW q \in taken PROVE q[2] = Len(attempts[q[1]])
  <2>1. q[1] \in Messages /\ q[2] \in Nat \ {0} /\ q = <<q[1], q[2]>>
    BY DEF TypeOK
  <2>2. q[2] \in 1 .. Len(attempts[q[1]])
    BY <2>1, Domains DEF DispatchInv, RequestsFollowAttempts
  <2>3. attempts[q[1]][q[2]].status # "rejected"
    BY <2>1, <2>2 DEF DispatchInv, RequestsFollowAttempts
  <2> QED  BY <2>1, <2>2, <2>3, OpenAttempt
<1> QED  BY <1>1, <1>2

LEMMA InvImpliesOutcome == TypeOK /\ DispatchInv => OutcomeMatchesProvider
<1> SUFFICES ASSUME TypeOK, DispatchInv, NEW m \in Messages
             PROVE  /\ acceptance[m] = "accepted" => Sends(m)
                    /\ acceptance[m] = "rejected" => ~Asked(m)
  BY DEF OutcomeMatchesProvider
<1>1. ASSUME acceptance[m] = "accepted" PROVE Sends(m)
  <2>1. attempts[m] # <<>>
    BY <1>1 DEF DispatchInv, AttemptsFollowAcceptance
  <2>2. Len(attempts[m]) \in 1 .. Len(attempts[m])
    BY <2>1, Domains
  <2>3. attempts[m][Len(attempts[m])].status = "accepted"
    BY <1>1, <2>2 DEF DispatchInv, AttemptsFollowAcceptance
  <2>4. <<m, Len(attempts[m])>> \in taken
    BY <2>2, <2>3 DEF DispatchInv, RequestsFollowAttempts
  <2> QED  BY <2>4 DEF Sends
<1>2. ASSUME acceptance[m] = "rejected", NEW r \in inflight \cup taken, r[1] = m PROVE FALSE
  <2>1. r = <<m, r[2]>> /\ r[2] \in Nat \ {0}
    BY <1>2 DEF TypeOK
  <2>2. r[2] \in 1 .. Len(attempts[m])
    BY <1>2, <2>1, Domains DEF DispatchInv, RequestsFollowAttempts
  <2>3. attempts[m][r[2]].status = "rejected"
    BY <1>2, <2>2, OpenAttempt DEF Attempt, AttemptStatus
  <2>4. <<m, r[2]>> \in refused
    BY <2>2, <2>3 DEF DispatchInv, RequestsFollowAttempts
  <2> QED  BY <2>1, <2>4 DEF DispatchInv, RequestsFollowAttempts
<1> QED  BY <1>1, <1>2 DEF Asked

\* No recipient ever gets the same message twice: of all the attempts that
\* workers, retries and stalled callers make, the provider takes at most one.
THEOREM SingleSend == Spec => []SingleAcceptedSend
BY InvariantHolds, InvImpliesSingleSend, PTL

\* What a message says about its acceptance is what the provider did.
THEOREM OutcomeIsTrue == Spec => []OutcomeMatchesProvider
BY InvariantHolds, InvImpliesOutcome, PTL

\* A pending notification always has a job that can still run, and a dispatch
\* marker always lies under the lease it was written with.
THEOREM JobsFollowMessages == Spec => [](PendingHasJob /\ MarkerFenced)
<1>1. DispatchInv => PendingHasJob /\ MarkerFenced
  BY DEF DispatchInv
<1> QED  BY <1>1, InvariantHolds, PTL

-----------------------------------------------------------------------------
(* Steps that write no dispatch marker                                      *)

\* A step after which no notification has another attempt, is newly pending, counted or without its open attempt, and no worker newly owns a lease.
QuietStep ==
    /\ \A m \in Notifications :
          /\ Len(attempts'[m]) = Len(attempts[m])
          /\ acceptance'[m] = "pending" =>
                /\ acceptance[m] = "pending"
                /\ HasStarted(m) => HasStarted(m)'
                /\ job'[m].count = job[m].count
          /\ \A t \in LeaseTokens : OwnsLease(m, t)' =>
                OwnsLease(m, t) /\ job'[m].count = job[m].count
    /\ \A w \in Workers : proc'[w].pc # "idle" =>
          /\ proc[w].pc # "idle"
          /\ proc'[w].msg = proc[w].msg
          /\ proc'[w].token = proc[w].token
          /\ proc'[w].count = proc[w].count

\* Such a step keeps the count of the attempts right.
LEMMA QuietKeepsRetries ==
    ASSUME TypeOK, TypeOK', DispatchInv, DispatchInv', RetryInv, QuietStep
    PROVE  RetryInv'
<1>1. ASSUME NEW m \in Notifications
      PROVE  /\ Len(attempts'[m]) <= MaxAttempts
             /\ acceptance'[m] = "pending" =>
                   /\ job'[m].count < MaxAttempts
                   /\ Len(attempts'[m]) <= job'[m].count + 1
                   /\ Len(attempts'[m]) = job'[m].count + 1 => HasStarted(m)'
  <2>1. /\ Len(attempts'[m]) = Len(attempts[m])
        /\ acceptance'[m] = "pending" =>
              /\ acceptance[m] = "pending"
              /\ HasStarted(m) => HasStarted(m)'
              /\ job'[m].count = job[m].count
    BY DEF QuietStep
  <2>2. /\ Len(attempts[m]) <= MaxAttempts
        /\ acceptance[m] = "pending" =>
              /\ job[m].count < MaxAttempts
              /\ Len(attempts[m]) <= job[m].count + 1
              /\ Len(attempts[m]) = job[m].count + 1 => HasStarted(m)
    BY DEF RetryInv
  <2> QED  BY <2>1, <2>2
<1>2. ASSUME NEW w \in Workers, proc'[w].pc # "idle",
             job'[proc'[w].msg].state = "leased", job'[proc'[w].msg].token = proc'[w].token
      PROVE  proc'[w].count = job'[proc'[w].msg].count
  <2>1. /\ proc[w].pc # "idle"
        /\ proc'[w].msg = proc[w].msg
        /\ proc'[w].token = proc[w].token
        /\ proc'[w].count = proc[w].count
    BY <1>2 DEF QuietStep
  <2>2. proc[w].msg \in Notifications /\ proc[w].token \in LeaseTokens
    BY <2>1, ProcFacts DEF Processes
  <2>3. OwnsLease(proc[w].msg, proc[w].token)'
    BY <1>2, <2>1, <2>2 DEF OwnsLease
  <2>4. /\ OwnsLease(proc[w].msg, proc[w].token)
        /\ job'[proc[w].msg].count = job[proc[w].msg].count
    <3> HIDE DEF OwnsLease
    <3> DEFINE m == proc[w].msg
               t == proc[w].token
    <3> QED  BY <1>2, <2>1, <2>2 DEF QuietStep, OwnsLease
  <2>5. proc[w].count = job[proc[w].msg].count
    BY <2>1, <2>4 DEF RetryInv
  <2> QED  BY <2>1, <2>4, <2>5
<1>3. /\ \A w \in Workers : proc'[w].pc # "idle" /\ OwnsLease(proc[w].msg, proc[w].token)' =>
            proc'[w].count = job'[proc'[w].msg].count
  BY <1>2 DEF OwnsLease
<1> QED  BY <1>1, <1>3 DEF RetryInv

\* Where no row of a notification changes and busy workers keep their task.
LEMMA RowsKeptIsQuiet ==
    ASSUME \A m \in Notifications : /\ acceptance'[m] = acceptance[m]
                                    /\ attempts'[m] = attempts[m]
                                    /\ job'[m] = job[m],
           \A w \in Workers : proc'[w].pc # "idle" =>
              /\ proc[w].pc # "idle"
              /\ proc'[w].msg = proc[w].msg
              /\ proc'[w].token = proc[w].token
              /\ proc'[w].count = proc[w].count
    PROVE  QuietStep
BY DEF QuietStep, HasStarted, OwnsLease

\* Steps of a process that touch no row of a notification.
LEMMA ProcessStepsAreQuiet ==
    ASSUME TypeOK, DispatchInv, NEW p \in Processes,
           \/ Forget(p) \/ DispatchOtp(p) \/ Dispatch(p) \/ OpenProviderInput(p)
           \/ \E reply \in Replies : Receive(p, reply)
    PROVE  QuietStep
<1>1. /\ UNCHANGED <<acceptance, attempts, job>>
      /\ \/ proc' = [proc EXCEPT ![p] = Idle]
         \/ \E pc \in {"opened", "sent"} :
               proc[p].pc # "idle" /\ proc' = [proc EXCEPT ![p].pc = pc]
         \/ \E reply \in Replies :
               /\ proc[p].pc # "idle"
               /\ proc' = [proc EXCEPT ![p].pc = "answered", ![p].reply = reply]
  BY DEF Forget, Become, DispatchOtp, Dispatch, OpenProviderInput, Receive, message
<1>2. \A q \in Processes : proc'[q].pc # "idle" =>
         /\ proc[q].pc # "idle"
         /\ proc'[q].msg = proc[q].msg
         /\ proc'[q].token = proc[q].token
         /\ proc'[q].count = proc[q].count
  <2>1. proc \in [Processes -> Process] /\ Idle.pc = "idle"
    BY DEF TypeOK, Idle
  <2>2. \A q \in Processes : proc[q] \in Process
    BY <2>1
  <2> QED  BY <1>1, <2>1, <2>2 DEF Process
<1> QED  BY <1>1, <1>2, RowsKeptIsQuiet DEF Processes

\* Steps of the provider, the calendar and the operators.
LEMMA OutsideStepsAreQuiet ==
    ASSUME \/ \E r \in inflight : ProviderTakes(r) \/ ProviderRefuses(r)
           \/ NextDay \/ SwitchCircuit \/ UNCHANGED vars
    PROVE  QuietStep
<1>1. UNCHANGED <<acceptance, attempts, job, proc>>
  BY DEF ProviderTakes, ProviderRefuses, NextDay, SwitchCircuit, vars, message
<1> QED  BY <1>1, RowsKeptIsQuiet

\* A lease that runs out stays the same lease.
LEMMA ExpiryIsQuiet ==
    ASSUME TypeOK, NEW x \in Notifications, ExpireLease(x)
    PROVE  QuietStep
<1>1. UNCHANGED <<acceptance, attempts, proc>>
  BY DEF ExpireLease, message
<1>2. \A m \in Notifications : /\ job'[m].state = job[m].state
                               /\ job'[m].token = job[m].token
                               /\ job'[m].count = job[m].count
  <2>1. \A m \in Notifications : job[m] \in Job
    BY DEF TypeOK
  <2> QED  BY <2>1 DEF ExpireLease, TypeOK, Job
<1> QED  BY <1>1, <1>2 DEF QuietStep, HasStarted, OwnsLease

\* A direct send and its completion concern no notification.
LEMMA OtpStepsAreQuiet ==
    ASSUME TypeOK, DispatchInv, NEW c \in Callers,
           CompleteOtp(c) \/ \E m \in Otps : SendOtpNow(c, m)
    PROVE  QuietStep
<1>1. c \in Processes /\ c \notin Workers
  BY DispatchConstants DEF Processes
<1>2. \A w \in Workers : w \in Processes /\ proc'[w] = proc[w]
  BY <1>1 DEF CompleteOtp, SendOtpNow, Become, TypeOK, Processes
<1>3. ASSUME NEW m \in Notifications
      PROVE  /\ acceptance'[m] = acceptance[m]
             /\ attempts'[m] = attempts[m]
             /\ job'[m] = job[m]
  <2>1. m \notin Otps /\ m \in Messages
    BY DispatchConstants DEF Messages
  <2>2. CASE \E o \in Otps : SendOtpNow(c, o)
    BY <2>1, <2>2 DEF SendOtpNow, CreateStarted, TypeOK
  <2>3. CASE CompleteOtp(c)
    <3>1. m # proc[c].msg
      BY <1>1, <2>1, <2>3, ProcFacts DEF CompleteOtp
    <3>2. UNCHANGED job
      BY <2>3 DEF CompleteOtp
    <3>3. acceptance'[m] = acceptance[m]
      BY <2>1, <2>3, <3>1 DEF CompleteOtp, CompleteAcceptance, message
    <3>4. attempts'[m] = attempts[m]
      BY <2>1, <2>3, <3>1 DEF CompleteOtp, CompleteAttempt, TypeOK
    <3> QED  BY <3>2, <3>3, <3>4
  <2> QED  BY <2>2, <2>3
<1> QED  BY <1>2, <1>3, RowsKeptIsQuiet

\* A verdict of a worker, or the rejection of what can no longer be sent: the
\* notification leaves pending, and its job leaves the lease or is left alone.
LEMMA VerdictIsQuiet ==
    ASSUME TypeOK, DispatchInv, NEW w \in Workers,
           CompleteAccepted(w) \/ CompleteUnknown(w) \/ CompleteRejected(w) \/ RejectUndispatched(w)
    PROVE  QuietStep
<1> DEFINE m == proc[w].msg
<1>1. /\ w \in Processes /\ m \in Notifications /\ m \in Messages
      /\ proc' = [proc EXCEPT ![w] = Idle]
  BY ProcFacts
     DEF CompleteAccepted, CompleteUnknown, CompleteRejected, RejectUndispatched, Settle, Become,
         Processes
<1>2. \A x \in Processes : proc'[x].pc # "idle" => proc'[x] = proc[x]
  BY <1>1 DEF TypeOK, Idle
<1>3. /\ acceptance'[m] # "pending"
      /\ \A x \in Messages : x # m => acceptance'[x] = acceptance[x]
  BY <1>1 DEF CompleteAccepted, CompleteUnknown, CompleteRejected, RejectUndispatched,
              CompleteAcceptance, TypeOK
<1>4. \A x \in Messages : /\ x # m => attempts'[x] = attempts[x]
                          /\ Len(attempts'[x]) = Len(attempts[x])
  <2>1. CASE UNCHANGED attempts
    BY <2>1
  <2>2. CASE \E n \in Nat, status \in AttemptStatus : CompleteAttempt(m, n, status)
    <3>1. PICK n \in Nat, status \in AttemptStatus : CompleteAttempt(m, n, status)
      BY <2>2
    <3> DEFINE row == [attempts[m][n] EXCEPT !.status = status]
    <3>2. attempts' = [attempts EXCEPT ![m] = [attempts[m] EXCEPT ![n] = row]]
      BY <3>1 DEF CompleteAttempt
    <3>3. attempts[m] \in Seq(Attempt) /\ attempts \in [Messages -> Seq(Attempt)]
      BY <1>1 DEF TypeOK
    <3>4. Len([attempts[m] EXCEPT ![n] = row]) = Len(attempts[m])
      <4> HIDE DEF row
      <4> QED  BY <3>3
    <3> QED  BY <1>1, <3>2, <3>3, <3>4
  <2>3. proc[w].no \in Nat
    BY <1>1, ProcFacts
       DEF CompleteAccepted, CompleteUnknown, CompleteRejected, RejectUndispatched
  <2> QED  BY <2>1, <2>2, <2>3
           DEF CompleteAccepted, CompleteUnknown, CompleteRejected, RejectUndispatched,
               EnsureAttempt, AttemptStatus
<1>5. /\ \A x \in Notifications : x # m => job'[x] = job[x]
      /\ job'[m] = job[m] \/ job'[m].state # "leased"
  BY <1>1 DEF CompleteAccepted, CompleteUnknown, CompleteRejected, RejectUndispatched,
              CompleteJob, Unleased, TypeOK
<1> QED  BY <1>1, <1>2, <1>3, <1>4, <1>5
         DEF QuietStep, HasStarted, OwnsLease, Messages, Processes

\* Recovery counts no retry and closes the markers it makes unknown.
LEMMA RecoveryIsQuiet ==
    ASSUME TypeOK, DispatchInv, NEW R \in SUBSET Notifications, NEW Q \in SUBSET Notifications,
           NEW D \in SUBSET Otps, RecoverBatch(R, Q, D)
    PROVE  QuietStep
<1>1. UNCHANGED proc
  BY DEF RecoverBatch
<1>2. ASSUME NEW m \in Notifications
      PROVE  /\ Len(attempts'[m]) = Len(attempts[m])
             /\ acceptance'[m] = "pending" =>
                   /\ acceptance[m] = "pending"
                   /\ HasStarted(m) => HasStarted(m)'
                   /\ job'[m].count = job[m].count
             /\ job'[m] = job[m] \/ job'[m].state # "leased"
  <2>1. m \in Messages /\ attempts[m] \in Seq(Attempt)
    BY DEF Messages, TypeOK
  <2>2. CASE m \in Q
    <3>1. acceptance'[m] = "unknown"
      BY <2>1, <2>2 DEF RecoverBatch, CompleteAcceptance
    <3>2. Len(attempts'[m]) = Len(attempts[m])
      BY <2>1, CloseMarkersFacts DEF RecoverBatch
    <3>3. job'[m] = job[m] \/ job'[m].state # "leased"
      BY <2>2 DEF RecoverBatch, Unleased
    <3> QED  BY <3>1, <3>2, <3>3
  <2>3. CASE m \notin Q
    <3>1. attempts'[m] = attempts[m] /\ acceptance'[m] = acceptance[m]
      <4>1. m \notin Q \cup D
        BY <2>3, DispatchConstants
      <4> QED  BY <2>1, <4>1, CloseMarkersFacts DEF RecoverBatch, CompleteAcceptance
    <3>2. /\ job'[m].count = job[m].count
          /\ job'[m] = job[m] \/ job'[m].state # "leased"
      BY <2>3 DEF RecoverBatch, Unleased
    <3> QED  BY <3>1, <3>2 DEF HasStarted
  <2> QED  BY <2>2, <2>3
<1> QED  BY <1>1, <1>2 DEF QuietStep, OwnsLease

\* Retention leaves no message pending that it touches, and counts no retry.
LEMMA RetentionIsQuiet ==
    ASSUME TypeOK, DispatchInv, NEW x \in Messages, Retain(x)
    PROVE  QuietStep
<1>1. UNCHANGED proc
  BY DEF Retain
<1>2. ASSUME NEW m \in Notifications
      PROVE  /\ Len(attempts'[m]) = Len(attempts[m])
             /\ acceptance'[m] = "pending" =>
                   /\ acceptance[m] = "pending"
                   /\ HasStarted(m) => HasStarted(m)'
                   /\ job'[m].count = job[m].count
             /\ job'[m] = job[m] \/ job'[m].state # "leased"
  <2>1. m \in Messages /\ acceptance \in [Messages -> AcceptanceStatus \cup {"absent"}]
    BY DEF Messages, TypeOK
  <2>2. Len(attempts'[m]) = Len(attempts[m])
    BY <2>1, CloseMarkersFacts DEF Retain
  <2>3. job'[m] = job[m] \/ job'[m].state # "leased"
    BY DEF Retain, KillJob, Unleased
  <2>4. CASE m = x
    <3>1. acceptance'[m] # "pending"
      BY <2>1, <2>4 DEF Retain, Verdict
    <3> QED  BY <2>2, <2>3, <3>1
  <2>5. CASE m # x
    <3>1. attempts'[m] = attempts[m]
      BY <2>1, <2>5, CloseMarkersFacts DEF Retain
    <3>2. acceptance'[m] = acceptance[m] /\ job'[m] = job[m]
      BY <2>1, <2>5 DEF Retain, KillJob
    <3> QED  BY <3>1, <3>2 DEF HasStarted
  <2> QED  BY <2>4, <2>5
<1> QED  BY <1>1, <1>2 DEF QuietStep, OwnsLease

-----------------------------------------------------------------------------
(* Steps that count or start an attempt                                     *)

\* A stored notification starts with no attempt and no retry.
LEMMA EnqueueKeepsRetries ==
    ASSUME TypeOK, DispatchInv, RetryInv, NEW x \in Notifications, EnqueueNotification(x)
    PROVE  RetryInv'
<1>1. /\ UNCHANGED <<attempts, proc>> /\ attempts[x] = <<>>
      /\ \A m \in Notifications : m # x => acceptance'[m] = acceptance[m] /\ job'[m] = job[m]
      /\ job'[x].state = "pending" /\ job'[x].count = 0
  BY DEF EnqueueNotification, DispatchInv, AttemptsFollowAcceptance, Messages, Unleased, TypeOK
<1>2. MaxAttempts \in Nat \ {0}
  BY DispatchConstants
<1> QED  BY <1>1, <1>2 DEF RetryInv, HasStarted, OwnsLease

\* A worker leases a job together with its count, under a token nobody else holds.
LEMMA LeaseKeepsRetries ==
    ASSUME TypeOK, DispatchInv, RetryInv,
           NEW w \in Workers, NEW x \in Notifications, NEW t \in LeaseTokens, Lease(w, x, t)
    PROVE  RetryInv'
<1>1. /\ UNCHANGED <<acceptance, attempts>>
      /\ \A m \in Notifications : m # x => job'[m] = job[m]
      /\ job'[x].token = t /\ job'[x].count = job[x].count
  BY DEF Lease, message, TypeOK, Job
<1>2. /\ w \in Processes
      /\ \A v \in Workers : v # w => proc'[v] = proc[v]
      /\ proc'[w].msg = x /\ proc'[w].count = job[x].count
  BY DEF Lease, Become, Idle, TypeOK, Processes
<1>3. \A v \in Workers : v # w /\ proc[v].msg = x => proc[v].token # t
  BY DEF Lease, FreshToken
<1> QED  BY <1>1, <1>2, <1>3 DEF RetryInv, HasStarted, OwnsLease

\* A dispatch marker follows a counted retry, and is open.
LEMMA MarkKeepsRetries ==
    ASSUME TypeOK, DispatchInv, RetryInv, NEW w \in Workers, MarkDispatch(w)
    PROVE  RetryInv'
<1>0. PICK x \in Notifications : x = proc[w].msg
  BY ProcFacts DEF MarkDispatch, Processes
<1> DEFINE row == [status |-> "started", token |-> proc[w].token]
<1>1. w \in Processes /\ x \in Messages
  BY DEF Messages, Processes
<1>2. /\ UNCHANGED <<acceptance, job>>
      /\ acceptance[x] = "pending"
      /\ ~HasStarted(x)
      /\ \A m \in Messages : m # x => attempts'[m] = attempts[m]
      /\ attempts'[x] = Append(attempts[x], row)
  BY <1>0, <1>1 DEF MarkDispatch, CreateStarted, TypeOK, message
<1>3. \A v \in Workers : /\ proc'[v].pc # "idle" => proc[v].pc # "idle"
                         /\ proc'[v].msg = proc[v].msg
                         /\ proc'[v].token = proc[v].token
                         /\ proc'[v].count = proc[v].count
  BY <1>1 DEF MarkDispatch, TypeOK, Process, Processes
<1>4. /\ attempts[x] \in Seq(Attempt)
      /\ Len(attempts'[x]) = Len(attempts[x]) + 1
      /\ HasStarted(x)'
  <2>1. attempts[x] \in Seq(Attempt)
    BY <1>1 DEF TypeOK
  <2>2. row \in Attempt
    BY <1>0, <1>1, ProcFacts DEF MarkDispatch, Attempt, AttemptStatus
  <2>3. /\ Len(attempts'[x]) = Len(attempts[x]) + 1
        /\ Len(attempts[x]) + 1 \in DOMAIN attempts'[x]
        /\ attempts'[x][Len(attempts[x]) + 1].status = "started"
    BY <1>2, <2>1, <2>2, SeqAppend
  <2>4. HasStarted(x)'
    BY <2>3 DEF HasStarted
  <2> QED  BY <2>1, <2>3, <2>4
<1>5. /\ Len(attempts[x]) <= job[x].count
      /\ job[x].count < MaxAttempts
      /\ job[x].count \in Nat /\ MaxAttempts \in Nat /\ Len(attempts[x]) \in Nat
  <2>1. job[x].count \in Nat /\ MaxAttempts \in Nat /\ Len(attempts[x]) \in Nat
    BY <1>1, <1>4, DispatchConstants DEF TypeOK, Job
  <2>2. /\ job[x].count < MaxAttempts
        /\ Len(attempts[x]) <= job[x].count + 1
        /\ Len(attempts[x]) # job[x].count + 1
    BY <1>1, <1>2 DEF RetryInv
  <2> QED  BY <2>1, <2>2
<1>6. ASSUME NEW m \in Notifications
      PROVE  /\ Len(attempts'[m]) <= MaxAttempts
             /\ acceptance'[m] = "pending" =>
                   /\ job'[m].count < MaxAttempts
                   /\ Len(attempts'[m]) <= job'[m].count + 1
                   /\ Len(attempts'[m]) = job'[m].count + 1 => HasStarted(m)'
  <2>1. CASE m = x
    BY <1>2, <1>4, <1>5, <2>1 DEF HasStarted
  <2>2. CASE m # x
    BY <1>2, <2>2 DEF RetryInv, HasStarted, Messages
  <2> QED  BY <2>1, <2>2
<1>7. ASSUME NEW v \in Workers, proc'[v].pc # "idle",
             job[proc[v].msg].state = "leased", job[proc[v].msg].token = proc[v].token,
             proc[v].msg \in Notifications
      PROVE  proc[v].count = job[proc[v].msg].count
  BY <1>3, <1>7 DEF RetryInv, OwnsLease
<1> QED  BY <1>2, <1>3, <1>6, <1>7 DEF RetryInv, OwnsLease

\* A retry is counted while the count the worker leased is still the job's.
LEMMA RescheduleKeepsRetries ==
    ASSUME TypeOK, TypeOK', DispatchInv, RetryInv, NEW w \in Workers, Reschedule(w)
    PROVE  RetryInv'
<1>0. PICK x \in Notifications : x = proc[w].msg
  BY ProcFacts DEF Reschedule, Processes
<1> DEFINE n == proc[w].no
           row == [attempts[x][n] EXCEPT !.status = "rejected"]
<1>1. /\ w \in Processes /\ x \in Messages
      /\ proc[w].pc = "answered" /\ n \in 1 .. Len(attempts[x])
      /\ proc' = [proc EXCEPT ![w] = Idle]
  BY <1>0, ProcFacts DEF Reschedule, Settle, Become, Processes, Engaged, Messages
<1>2. /\ UNCHANGED acceptance
      /\ \A m \in Notifications : m # x => job'[m] = job[m]
      /\ job'[x].state = "pending" /\ job'[x].count = job[x].count + 1
      /\ OwnsLease(x, proc[w].token)
      /\ ~Exhausted(w)
  BY <1>0, <1>1 DEF Reschedule, MustFinalize, Unleased, TypeOK, message
<1>3. proc[w].count = job[x].count /\ acceptance[x] = "pending"
  BY <1>0, <1>1, <1>2 DEF RetryInv, DispatchInv, PendingHasJob, OwnsLease
<1>4. /\ job[x].count \in Nat /\ MaxAttempts \in Nat
      /\ job[x].count + 1 < MaxAttempts
  <2>1. job[x].count \in Nat /\ MaxAttempts \in Nat
    BY <1>1, DispatchConstants DEF TypeOK, Job
  <2> QED  BY <1>2, <1>3, <2>1 DEF Exhausted
<1>5. /\ \A m \in Messages : m # x => attempts'[m] = attempts[m]
      /\ Len(attempts'[x]) = Len(attempts[x])
      /\ Len(attempts[x]) \in Nat
  <2>1. attempts' = [attempts EXCEPT ![x] = [attempts[x] EXCEPT ![n] = row]]
    BY <1>0 DEF Reschedule, CompleteAttempt
  <2>2. attempts[x] \in Seq(Attempt) /\ attempts \in [Messages -> Seq(Attempt)]
    BY <1>1 DEF TypeOK
  <2>3. Len([attempts[x] EXCEPT ![n] = row]) = Len(attempts[x])
    <3> HIDE DEF row
    <3> QED  BY <2>2
  <2> QED  BY <1>1, <2>1, <2>2, <2>3
<1>6. ASSUME NEW m \in Notifications
      PROVE  /\ Len(attempts'[m]) <= MaxAttempts
             /\ acceptance'[m] = "pending" =>
                   /\ job'[m].count < MaxAttempts
                   /\ Len(attempts'[m]) <= job'[m].count + 1
                   /\ Len(attempts'[m]) = job'[m].count + 1 => HasStarted(m)'
  <2>1. CASE m = x
    <3>1. /\ Len(attempts[x]) <= MaxAttempts
          /\ Len(attempts[x]) <= job[x].count + 1
      BY <1>1, <1>3 DEF RetryInv
    <3>2. /\ Len(attempts'[x]) <= MaxAttempts
          /\ job'[x].count < MaxAttempts
          /\ Len(attempts'[x]) < job'[x].count + 1
          /\ Len(attempts'[x]) \in Nat /\ job'[x].count \in Nat
      BY <1>2, <1>4, <1>5, <3>1
    <3> QED  BY <1>2, <1>4, <1>5, <2>1, <3>2
  <2>2. CASE m # x
    BY <1>2, <1>5, <2>2 DEF RetryInv, HasStarted, Messages
  <2> QED  BY <2>1, <2>2
<1>7. ASSUME NEW v \in Workers, proc'[v].pc # "idle", OwnsLease(proc[v].msg, proc[v].token)'
      PROVE  proc'[v].count = job'[proc'[v].msg].count
  <2>1. v # w /\ proc'[v] = proc[v]
    BY <1>1, <1>7 DEF Idle, TypeOK, Processes
  <2>2. proc[v].msg # x /\ proc[v].msg \in Notifications
    BY <1>2, <1>7, <2>1 DEF OwnsLease
  <2> QED  BY <1>2, <1>7, <2>1, <2>2 DEF RetryInv, OwnsLease
<1> QED  BY <1>6, <1>7 DEF RetryInv

-----------------------------------------------------------------------------
(* The bound on the attempts                                                *)

LEMMA RetryStep == TypeOK /\ DispatchInv /\ RetryInv /\ [Next]_vars => RetryInv'
<1> SUFFICES ASSUME TypeOK, DispatchInv, RetryInv, [Next]_vars PROVE RetryInv'
  OBVIOUS
<1>1. TypeOK' /\ DispatchInv'
  BY TypeStep, InvStep
<1>2. QuietStep => RetryInv'
  BY <1>1, QuietKeepsRetries
<1>3. /\ \A w \in Workers : w \in Processes
      /\ \A c \in Callers : c \in Processes
  BY DEF Processes
<1>4. ASSUME NEW c \in Callers, CallerStep(c) PROVE RetryInv'
  <2>1. CASE \/ CompleteOtp(c)
             \/ \E m \in Otps : SendOtpNow(c, m)
    BY <1>2, <2>1, OtpStepsAreQuiet
  <2>2. CASE DispatchOtp(c) \/ \E reply \in Replies : Receive(c, reply)
    BY <1>2, <1>3, <2>2, ProcessStepsAreQuiet
  <2> QED  BY <1>4, <2>1, <2>2 DEF CallerStep
<1>5. ASSUME NEW w \in Workers, WorkerStep(w) PROVE RetryInv'
  <2>1. CASE \E m \in Notifications, t \in LeaseTokens : Lease(w, m, t)
    BY <2>1, LeaseKeepsRetries
  <2>2. CASE MarkDispatch(w)
    BY <2>2, MarkKeepsRetries
  <2>3. CASE Reschedule(w)
    BY <1>1, <2>3, RescheduleKeepsRetries
  <2>4. CASE CompleteAccepted(w) \/ CompleteUnknown(w) \/ CompleteRejected(w)
             \/ RejectUndispatched(w)
    BY <1>2, <2>4, VerdictIsQuiet
  <2>5. CASE OpenProviderInput(w) \/ Dispatch(w) \/ \E reply \in Replies : Receive(w, reply)
    BY <1>2, <1>3, <2>5, ProcessStepsAreQuiet
  <2>6. CASE AbortMark(w) \/ AbortOpen(w) \/ AbortDispatch(w) \/ DropAnswer(w)
    BY <1>2, <1>3, <2>6, ForgettingSteps, ProcessStepsAreQuiet
  <2> QED  BY <1>5, <2>1, <2>2, <2>3, <2>4, <2>5, <2>6 DEF WorkerStep
<1>6. CASE EnvironmentStep
  <2>1. ASSUME NEW p \in Processes, Crash(p) PROVE RetryInv'
    BY <1>2, <2>1, ForgettingSteps, ProcessStepsAreQuiet
  <2>2. ASSUME NEW m \in OldMessages, Retain(m) PROVE RetryInv'
    BY <1>2, <2>2, DispatchConstants, RetentionIsQuiet
  <2> QED
    BY <1>2, <1>6, <2>1, <2>2, EnqueueKeepsRetries, ExpiryIsQuiet, OutsideStepsAreQuiet
       DEF EnvironmentStep
<1>7. CASE ProviderStep \/ UNCHANGED vars
  BY <1>2, <1>7, OutsideStepsAreQuiet DEF ProviderStep
<1>8. CASE Recover
  BY <1>2, <1>8, RecoveryIsQuiet DEF Recover
<1> QED  BY <1>4, <1>5, <1>6, <1>7, <1>8 DEF Next

LEMMA InitRetries == Init => RetryInv
<1> SUFFICES ASSUME Init PROVE RetryInv
  OBVIOUS
<1>1. \A w \in Workers : proc[w].pc = "idle"
  BY DEF Init, Idle, Processes
<1>2. \A m \in Notifications : acceptance[m] = "absent" /\ Len(attempts[m]) = 0
  BY DEF Init, Messages
<1> QED  BY <1>1, <1>2, DispatchConstants DEF RetryInv

\* However many workers take a job over from one another, recovery returns it or
\* leases run out, a notification makes at most max_attempts attempts.
THEOREM RetriesAreBounded == Spec => []RetriesBounded
<1>1. Init => RetryInv
  BY InitRetries
<1>2. TypeOK /\ DispatchInv /\ RetryInv /\ [Next]_vars => RetryInv'
  BY RetryStep
<1>3. RetryInv => RetriesBounded
  BY DEF RetryInv, RetriesBounded
<1> QED  BY <1>1, <1>2, <1>3, InvariantHolds, PTL DEF Spec

-----------------------------------------------------------------------------
(* What has left pending is not sent again                                  *)

\* Writing a verdict adds no attempt.
LEMMA VerdictAddsNoAttempt ==
    ASSUME TypeOK, NEW x \in Messages, NEW n \in Nat, NEW status \in AttemptStatus,
           EnsureAttempt(x, n, status) \/ CompleteAttempt(x, n, status)
    PROVE  \A m \in Messages : Len(attempts'[m]) = Len(attempts[m])
<1>1. CASE UNCHANGED attempts
  BY <1>1
<1>2. CASE CompleteAttempt(x, n, status)
  <2> DEFINE row == [attempts[x][n] EXCEPT !.status = status]
  <2>1. attempts' = [attempts EXCEPT ![x] = [attempts[x] EXCEPT ![n] = row]]
    BY <1>2 DEF CompleteAttempt
  <2>2. attempts[x] \in Seq(Attempt) /\ attempts \in [Messages -> Seq(Attempt)]
    BY DEF TypeOK
  <2>3. Len([attempts[x] EXCEPT ![n] = row]) = Len(attempts[x])
    <3> HIDE DEF row
    <3> QED  BY <2>2
  <2> QED  BY <2>1, <2>2, <2>3
<1> QED  BY <1>1, <1>2 DEF EnsureAttempt

\* Every marker is written on a pending or a new message.
LEMMA MarkersOnOpenMessages ==
    ASSUME TypeOK, DispatchInv, [Next]_vars, NEW m \in Messages,
           acceptance[m] \in {"accepted", "rejected", "unknown"}
    PROVE  Len(attempts'[m]) = Len(attempts[m])
<1>1. ASSUME UNCHANGED attempts PROVE Len(attempts'[m]) = Len(attempts[m])
  BY <1>1
<1>2. /\ \A w \in Workers : w \in Processes
      /\ \A c \in Callers : c \in Processes
  BY DEF Processes
<1>3. ASSUME NEW p \in Processes, Forget(p) PROVE Len(attempts'[m]) = Len(attempts[m])
  BY <1>3 DEF Forget
<1>4. ASSUME NEW c \in Callers, CallerStep(c) PROVE Len(attempts'[m]) = Len(attempts[m])
  <2>1. CASE \E x \in Otps : SendOtpNow(c, x)
    BY <2>1 DEF SendOtpNow, CreateStarted, TypeOK, Messages
  <2>2. CASE CompleteOtp(c)
    <3>1. /\ proc[c].msg \in Messages /\ proc[c].no \in Nat /\ proc[c].reply \in Replies
      BY <1>2, <2>2, ProcFacts DEF CompleteOtp
    <3> QED  BY <2>2, <3>1, VerdictAddsNoAttempt DEF CompleteOtp, AttemptStatus, Replies
  <2>3. CASE DispatchOtp(c) \/ \E reply \in Replies : Receive(c, reply)
    BY <2>3 DEF DispatchOtp, Receive
  <2> QED  BY <1>4, <2>1, <2>2, <2>3 DEF CallerStep
<1>5. ASSUME NEW w \in Workers, WorkerStep(w) PROVE Len(attempts'[m]) = Len(attempts[m])
  <2>1. CASE MarkDispatch(w)
    BY <2>1 DEF MarkDispatch, CreateStarted, TypeOK
  <2>2. CASE CompleteAccepted(w) \/ CompleteUnknown(w) \/ CompleteRejected(w) \/ Reschedule(w)
    <3>1. proc[w].msg \in Messages /\ proc[w].no \in Nat
      BY <1>2, <2>2, ProcFacts DEF CompleteAccepted, CompleteUnknown, CompleteRejected, Reschedule
    <3> QED
      BY <2>2, <3>1, VerdictAddsNoAttempt
         DEF CompleteAccepted, CompleteUnknown, CompleteRejected, Reschedule, AttemptStatus
  <2>3. CASE AbortMark(w) \/ AbortOpen(w) \/ AbortDispatch(w) \/ DropAnswer(w)
    BY <1>2, <1>3, <2>3, ForgettingSteps
  <2>4. CASE \/ \E x \in Notifications, t \in LeaseTokens : Lease(w, x, t)
             \/ RejectUndispatched(w) \/ OpenProviderInput(w) \/ Dispatch(w)
             \/ \E reply \in Replies : Receive(w, reply)
    BY <1>1, <2>4 DEF Lease, RejectUndispatched, OpenProviderInput, Dispatch, Receive
  <2> QED  BY <1>5, <2>1, <2>2, <2>3, <2>4 DEF WorkerStep
<1>6. CASE Recover
  <2>1. PICK R \in SUBSET Notifications, Q \in SUBSET Notifications, D \in SUBSET Otps :
           RecoverBatch(R, Q, D)
    BY <1>6 DEF Recover
  <2>2. m \notin Q \cup D
    BY <2>1 DEF RecoverBatch, CompleteAcceptance, AcceptanceTransition
  <2> QED  BY <2>1, <2>2, CloseMarkersFacts DEF RecoverBatch
<1>7. CASE ProviderStep \/ EnvironmentStep \/ UNCHANGED vars
  <2>1. ASSUME NEW p \in Processes, Crash(p) PROVE Len(attempts'[m]) = Len(attempts[m])
    BY <1>3, <2>1, ForgettingSteps
  <2>2. ASSUME NEW x \in OldMessages, Retain(x) PROVE Len(attempts'[m]) = Len(attempts[m])
    BY <2>2, CloseMarkersFacts DEF Retain
  <2> QED
    BY <1>1, <1>7, <2>1, <2>2
       DEF ProviderStep, ProviderTakes, ProviderRefuses, EnvironmentStep, EnqueueNotification,
           ExpireLease, NextDay, SwitchCircuit, vars
<1> QED  BY <1>4, <1>5, <1>6, <1>7 DEF Next

\* A worker hands the provider a request only under its live lease, and such a
\* lease lies on a pending notification; a direct send concerns no notification.
LEMMA RequestsOnOpenMessages ==
    ASSUME TypeOK, DispatchInv, [Next]_vars, NEW m \in Notifications,
           acceptance[m] # "pending", NEW r \in inflight' \ inflight
    PROVE  r[1] # m
<1>1. PICK p \in Processes : \/ p \in Callers /\ DispatchOtp(p)
                             \/ p \in Workers /\ Dispatch(p)
  <2>1. ~(inflight' \subseteq inflight)
    OBVIOUS
  <2>2. /\ \A w \in Workers : w \in Processes
        /\ \A c \in Callers : c \in Processes
    BY DEF Processes
  <2>3. ASSUME NEW p \in Processes, Forget(p) PROVE inflight' \subseteq inflight
    BY <2>3 DEF Forget, provider
  <2>4. ASSUME NEW c \in Callers, CallerStep(c), ~DispatchOtp(c)
        PROVE  inflight' \subseteq inflight
    BY <2>4 DEF CallerStep, SendOtpNow, Receive, CompleteOtp, provider
  <2>5. ASSUME NEW w \in Workers, WorkerStep(w), ~Dispatch(w)
        PROVE  inflight' \subseteq inflight
    <3>1. CASE AbortMark(w) \/ AbortOpen(w) \/ AbortDispatch(w) \/ DropAnswer(w)
      BY <2>2, <2>3, <3>1, ForgettingSteps
    <3>2. CASE CompleteAccepted(w) \/ CompleteUnknown(w) \/ CompleteRejected(w) \/ Reschedule(w)
      BY <3>2 DEF CompleteAccepted, CompleteUnknown, CompleteRejected, Reschedule, Settle, provider
    <3>3. CASE \/ \E x \in Notifications, t \in LeaseTokens : Lease(w, x, t)
               \/ MarkDispatch(w) \/ RejectUndispatched(w) \/ OpenProviderInput(w)
               \/ \E reply \in Replies : Receive(w, reply)
      BY <3>3 DEF Lease, MarkDispatch, RejectUndispatched, OpenProviderInput, Receive, provider
    <3> QED  BY <2>5, <3>1, <3>2, <3>3 DEF WorkerStep
  <2>6. CASE ProviderStep \/ Recover \/ EnvironmentStep \/ UNCHANGED vars
    <3>1. ASSUME NEW p \in Processes, Crash(p) PROVE inflight' \subseteq inflight
      BY <2>3, <3>1, ForgettingSteps
    <3> QED
      BY <2>1, <2>6, <3>1
         DEF ProviderStep, ProviderTakes, ProviderRefuses, Recover, RecoverBatch, EnvironmentStep,
             EnqueueNotification, Retain, ExpireLease, NextDay, SwitchCircuit, vars, provider
  <2> QED  BY <2>1, <2>2, <2>4, <2>5, <2>6 DEF Next
<1>2. r = <<proc[p].msg, proc[p].no>>
  BY <1>1 DEF DispatchOtp, Dispatch
<1>3. /\ p \in Workers => proc[p].msg \in Notifications
      /\ p \in Callers => proc[p].msg \in Otps
  <2>1. proc[p].pc = "opened"
    BY <1>1 DEF DispatchOtp, Dispatch
  <2> QED  BY <2>1, ProcFacts
<1>4. CASE p \in Workers /\ Dispatch(p)
  <2>1. OwnsLease(proc[p].msg, proc[p].token)
    BY <1>4 DEF Dispatch, HoldsLiveLease
  <2>2. acceptance[proc[p].msg] = "pending"
    BY <2>1 DEF OwnsLease, DispatchInv, PendingHasJob
  <2> QED  BY <1>2, <2>2
<1>5. CASE p \in Callers
  BY <1>2, <1>3, <1>5, DispatchConstants
<1> QED  BY <1>1, <1>4, <1>5

\* Once a message has left pending nobody writes another dispatch marker for it,
\* and no worker hands the provider a request for it: "without ever resending".
THEOREM NeverSentAgain == Spec => NeverResent
<1> DEFINE Kept ==
      \A m \in Messages : acceptance[m] \in {"accepted", "rejected", "unknown"} =>
         /\ Len(attempts'[m]) = Len(attempts[m])
         /\ m \in Notifications => \A r \in inflight' \ inflight : r[1] # m
<1>1. ASSUME TypeOK, DispatchInv, [Next]_vars PROVE Kept
  BY <1>1, MarkersOnOpenMessages, RequestsOnOpenMessages
<1>2. TypeOK /\ DispatchInv /\ [Next]_vars => [Kept]_vars
  BY <1>1
<1>3. [][Kept]_vars => NeverResent
  BY DEF NeverResent
<1> QED  BY <1>2, <1>3, InvariantHolds, PTL DEF Spec

-----------------------------------------------------------------------------
(* The books of the daily budget                                            *)

\* Each day's counter is right and within the limit; the reservations of a day are
\* finitely many, whatever Messages is.
BooksBalance ==
    \A d \in Days : /\ IsFiniteSet(HeldOn(d))
                    /\ heldCount[d] = Cardinality(HeldOn(d))
                    /\ heldCount[d] <= SystemDailyBudget

\* A reservation taken under the limit keeps the books balanced.
LEMMA HoldKeepsBooks ==
    ASSUME TypeOK, BooksBalance, NEW m \in Messages, HoldBudget(m),
           reservation[m].state # "released"
    PROVE  /\ BooksBalance'
           /\ reservation'[m].state = "held"
           /\ \A x \in Messages : x # m => reservation'[x] = reservation[x]
<1>0. /\ reservation \in [Messages -> Reservation] /\ heldCount \in [Days -> Nat]
      /\ day \in Days /\ SystemDailyBudget \in Nat
      /\ \A x \in Messages : reservation[x] \in Reservation
  BY DispatchConstants DEF TypeOK
<1>1. CASE reservation[m].state # "none"
  <2>1. UNCHANGED budget
    BY <1>1 DEF HoldBudget
  <2>2. reservation[m].state = "held"
    BY <1>0, <1>1 DEF Reservation
  <2> QED  BY <2>1, <2>2 DEF budget, BooksBalance, HeldOn
<1>2. CASE reservation[m].state = "none"
  <2>1. /\ heldCount[day] < SystemDailyBudget
        /\ reservation' = [reservation EXCEPT ![m] = [state |-> "held", day |-> day]]
        /\ heldCount' = [heldCount EXCEPT ![day] = @ + 1]
    BY <1>2 DEF HoldBudget
  <2>2. ASSUME NEW d \in Days
        PROVE  /\ IsFiniteSet(HeldOn(d)')
               /\ heldCount'[d] = Cardinality(HeldOn(d)')
               /\ heldCount'[d] <= SystemDailyBudget
    <3>0. /\ IsFiniteSet(HeldOn(d)) /\ heldCount[d] = Cardinality(HeldOn(d))
          /\ heldCount[d] <= SystemDailyBudget
      BY DEF BooksBalance
    <3>1. CASE d = day
      <4>1. HeldOn(d)' = HeldOn(d) \cup {m}
        BY <1>0, <2>1, <3>1 DEF HeldOn
      <4>2. m \notin HeldOn(d)
        BY <1>2 DEF HeldOn
      <4>3. heldCount'[d] = heldCount[d] + 1 /\ heldCount[d] \in Nat
        BY <1>0, <2>1, <3>1
      <4>4. /\ IsFiniteSet(HeldOn(d) \cup {m})
            /\ Cardinality(HeldOn(d) \cup {m}) = Cardinality(HeldOn(d)) + 1
        BY <3>0, <4>2, FS_AddElement
      <4>5. heldCount[d] + 1 <= SystemDailyBudget
        BY <1>0, <2>1, <3>1, <4>3
      <4> QED  BY <3>0, <4>1, <4>3, <4>4, <4>5
    <3>2. CASE d # day
      <4>1. HeldOn(d)' = HeldOn(d)
        BY <1>0, <1>2, <2>1, <3>2 DEF HeldOn
      <4>2. heldCount'[d] = heldCount[d]
        BY <1>0, <2>1, <3>2
      <4> QED  BY <3>0, <4>1, <4>2
    <3> QED  BY <3>1, <3>2
  <2>3. BooksBalance'
    BY <2>2 DEF BooksBalance
  <2> QED  BY <1>0, <2>1, <2>3
<1> QED  BY <1>1, <1>2

\* A released reservation leaves the books of its own day, whatever day it is.
LEMMA ReleaseKeepsBooks ==
    ASSUME TypeOK, BooksBalance, NEW m \in Messages, ReleaseBudget(m)
    PROVE  /\ BooksBalance'
           /\ reservation'[m].state # "held"
           /\ \A x \in Messages : x # m => reservation'[x] = reservation[x]
<1>0. /\ reservation \in [Messages -> Reservation] /\ heldCount \in [Days -> Nat]
      /\ SystemDailyBudget \in Nat
      /\ \A x \in Messages : reservation[x] \in Reservation
  BY DispatchConstants DEF TypeOK
<1>1. CASE reservation[m].state # "held"
  BY <1>1 DEF ReleaseBudget, budget, BooksBalance, HeldOn
<1>2. CASE reservation[m].state = "held"
  <2> DEFINE e == reservation[m].day
  <2>0. e \in Days /\ reservation[m] = [state |-> "held", day |-> e]
    BY <1>0, <1>2 DEF Reservation
  <2>1. /\ reservation' = [reservation EXCEPT ![m].state = "released"]
        /\ heldCount' = [heldCount EXCEPT ![e] = IF @ > 0 THEN @ - 1 ELSE @]
    BY <1>2 DEF ReleaseBudget
  <2>2. reservation'[m].state = "released"
    BY <1>0, <2>1 DEF Reservation
  <2>3. ASSUME NEW d \in Days
        PROVE  /\ IsFiniteSet(HeldOn(d)')
               /\ heldCount'[d] = Cardinality(HeldOn(d)')
               /\ heldCount'[d] <= SystemDailyBudget
    <3>0. /\ IsFiniteSet(HeldOn(d)) /\ heldCount[d] = Cardinality(HeldOn(d))
          /\ heldCount[d] <= SystemDailyBudget /\ heldCount[d] \in Nat
      BY <1>0 DEF BooksBalance
    <3>1. CASE d = e
      <4>1. m \in HeldOn(d)
        BY <2>0, <3>1 DEF HeldOn
      <4>2. HeldOn(d)' = HeldOn(d) \ {m}
        BY <1>0, <2>1, <2>2 DEF HeldOn
      <4>3. /\ Cardinality(HeldOn(d) \ {m}) = Cardinality(HeldOn(d)) - 1
            /\ IsFiniteSet(HeldOn(d) \ {m})
        BY <3>0, <4>1, FS_RemoveElement
      <4>4. heldCount[d] # 0
        <5>1. Cardinality(HeldOn(d) \ {m}) \in Nat
          BY <4>3, FS_CardinalityType
        <5> QED  BY <3>0, <4>3, <5>1
      <4>5. heldCount'[d] = heldCount[d] - 1
        BY <1>0, <2>1, <3>0, <3>1, <4>4
      <4> QED  BY <1>0, <3>0, <4>2, <4>3, <4>5
    <3>2. CASE d # e
      <4>1. HeldOn(d)' = HeldOn(d)
        BY <1>0, <2>0, <2>1, <2>2, <3>2 DEF HeldOn
      <4>2. heldCount'[d] = heldCount[d]
        BY <1>0, <2>1, <3>2
      <4> QED  BY <3>0, <4>1, <4>2
    <3> QED  BY <3>1, <3>2
  <2>4. BooksBalance'
    BY <2>3 DEF BooksBalance
  <2> QED  BY <1>0, <2>1, <2>2, <2>4
<1> QED  BY <1>1, <1>2

-----------------------------------------------------------------------------
(* The inductive invariant: what each message has beside it                 *)

Companions(m) ==
    /\ acceptance[m] = "rejected" => reservation[m].state # "held"
    /\ reservation[m].state = "released" => acceptance[m] = "rejected"
    /\ attempts[m] # <<>> /\ acceptance[m] # "rejected" => reservation[m].state = "held"
    /\ params[m] <=> m \in Notifications /\ acceptance[m] = "pending"
    /\ acceptance[m] \in {"absent", "pending"} => delivery[m] = "not_applicable"
    /\ acceptance[m] \in {"accepted", "unknown"} =>
          delivery[m] = "unknown_final" \/ (delivery[m] = "waiting" /\ reconcile[m])

KeptInv == BooksBalance /\ \A m \in Messages : Companions(m)

\* A message without a change of its own keeps what it has; a change of its
\* attempts that adds none is no such change.
LEMMA OthersKeepCompanions ==
    ASSUME TypeOK, TypeOK', KeptInv, NEW S,
           BooksBalance',
           \A x \in Messages : x \in S => Companions(x)',
           \A x \in Messages : x \notin S =>
              /\ Len(attempts'[x]) = Len(attempts[x])
              /\ acceptance'[x] = acceptance[x]
              /\ delivery'[x] = delivery[x]
              /\ params'[x] = params[x]
              /\ reservation'[x] = reservation[x]
              /\ reconcile[x] => reconcile'[x]
    PROVE  KeptInv'
<1>1. ASSUME NEW x \in Messages, x \notin S PROVE Companions(x)'
  <2>1. Companions(x)
    BY DEF KeptInv
  <2>2. attempts[x] \in Seq(Attempt) /\ attempts'[x] \in Seq(Attempt)
    BY DEF TypeOK
  <2>3. attempts'[x] # <<>> => attempts[x] # <<>>
    BY <1>1, <2>2
  <2> QED  BY <1>1, <2>1, <2>3 DEF Companions
<1> QED  BY <1>1 DEF KeptInv

\* Steps that leave messages, budget and reconcile jobs alone and add no attempt.
LEMMA NothingDecidedKeepsCompanions ==
    ASSUME TypeOK, TypeOK', KeptInv, UNCHANGED <<message, budget, reconcile>>,
           \A x \in Messages : Len(attempts'[x]) = Len(attempts[x])
    PROVE  KeptInv'
<1>1. BooksBalance'
  BY DEF KeptInv, BooksBalance, HeldOn, budget
<1>2. \A x \in Messages : /\ Len(attempts'[x]) = Len(attempts[x])
                          /\ acceptance'[x] = acceptance[x]
                          /\ delivery'[x] = delivery[x]
                          /\ params'[x] = params[x]
                          /\ reservation'[x] = reservation[x]
                          /\ reconcile[x] => reconcile'[x]
  BY DEF message, budget
<1>3. PICK S : S = {}
  OBVIOUS
<1>4. \A x \in Messages : x \in S => Companions(x)'
  BY <1>3
<1> QED  BY <1>1, <1>2, <1>4, OthersKeepCompanions

\* A verdict that leaves the message to the reconcilers.
LEMMA WaitingKeepsCompanions ==
    ASSUME TypeOK, TypeOK', KeptInv, NEW S \in SUBSET Messages,
           NEW status \in {"accepted", "unknown"},
           CompleteAcceptance(S, status), EnsureReconcile(S), UNCHANGED budget,
           ClearRenderParams(S) \/ (S \subseteq Otps /\ UNCHANGED params),
           \A x \in Messages : Len(attempts'[x]) = Len(attempts[x])
    PROVE  KeptInv'
<1>1. BooksBalance'
  BY DEF KeptInv, BooksBalance, HeldOn, budget
<1>2. params' = [x \in Messages |-> IF x \in S THEN FALSE ELSE params[x]]
  <2>1. params \in [Messages -> BOOLEAN]
    BY DEF TypeOK
  <2>2. CASE ClearRenderParams(S)
    BY <2>1, <2>2, Zenon DEF ClearRenderParams
  <2>3. CASE S \subseteq Otps /\ UNCHANGED params
    <3>1. \A x \in S : params[x] = FALSE
      BY <2>1, <2>3, DispatchConstants DEF KeptInv, Companions
    <3> QED  BY <2>1, <2>3, <3>1
  <2> QED  BY <2>2, <2>3
<1>3. ASSUME NEW x \in Messages, x \in S PROVE Companions(x)'
  <2>1. /\ Companions(x)
        /\ acceptance[x] \in {"pending", "unknown"}
        /\ acceptance'[x] = status
        /\ delivery'[x] = DeliveryAfter(status, delivery[x])
        /\ reconcile'[x] /\ ~params'[x]
        /\ reservation'[x] = reservation[x]
    BY <1>2, <1>3 DEF KeptInv, CompleteAcceptance, AcceptanceTransition, EnsureReconcile, budget
  <2>2. attempts'[x] # <<>> => attempts[x] # <<>>
    <3>1. attempts[x] \in Seq(Attempt) /\ attempts'[x] \in Seq(Attempt)
      BY DEF TypeOK
    <3> QED  BY <3>1
  <2>3. delivery'[x] \in {"waiting", "unknown_final"}
    BY <2>1 DEF Companions, DeliveryAfter
  <2> QED  BY <2>1, <2>2, <2>3 DEF Companions
<1>4. ASSUME NEW x \in Messages, x \notin S
      PROVE  /\ acceptance'[x] = acceptance[x]
             /\ delivery'[x] = delivery[x]
             /\ params'[x] = params[x]
             /\ reservation'[x] = reservation[x]
             /\ reconcile[x] => reconcile'[x]
  BY <1>2, <1>4 DEF CompleteAcceptance, EnsureReconcile, budget
<1> QED  BY <1>1, <1>3, <1>4, OthersKeepCompanions

\* A rejection gives the message's share of the budget back.
LEMMA RejectingKeepsCompanions ==
    ASSUME TypeOK, TypeOK', KeptInv, NEW m \in Messages,
           acceptance'[m] = "rejected", ReleaseBudget(m), UNCHANGED reconcile,
           ~params'[m],
           \A x \in Messages : Len(attempts'[x]) = Len(attempts[x]),
           \A x \in Messages : x # m => /\ acceptance'[x] = acceptance[x]
                                        /\ delivery'[x] = delivery[x]
                                        /\ params'[x] = params[x]
    PROVE  KeptInv'
<1>1. /\ BooksBalance'
      /\ reservation'[m].state # "held"
      /\ \A x \in Messages : x # m => reservation'[x] = reservation[x]
  BY ReleaseKeepsBooks DEF KeptInv
<1>2. Companions(m)'
  BY <1>1 DEF Companions
<1>3. \A x \in Messages : x \in {m} <=> x = m
  OBVIOUS
<1> QED  BY <1>1, <1>2, <1>3, OthersKeepCompanions

\* A dispatch marker is written together with the hold of the budget.
LEMMA MarkingKeepsCompanions ==
    ASSUME TypeOK, TypeOK', KeptInv, NEW m \in Messages, NEW t,
           HoldBudget(m), CreateStarted(m, t), UNCHANGED <<delivery, params, reconcile>>,
           acceptance'[m] = "pending",
           \/ acceptance[m] = "pending"
           \/ acceptance[m] = "absent" /\ m \in Otps,
           \A x \in Messages : x # m => acceptance'[x] = acceptance[x]
    PROVE  KeptInv'
<1>0. Companions(m) /\ BooksBalance
  BY DEF KeptInv
<1>1. reservation[m].state # "released"
  BY <1>0 DEF Companions
<1>2. /\ BooksBalance'
      /\ reservation'[m].state = "held"
      /\ \A x \in Messages : x # m => reservation'[x] = reservation[x]
  BY <1>0, <1>1, HoldKeepsBooks
<1>3. Companions(m)'
  BY <1>0, <1>2, DispatchConstants DEF Companions
<1>4. \A x \in Messages : x # m => attempts'[x] = attempts[x]
  BY DEF CreateStarted, TypeOK
<1>5. \A x \in Messages : x \in {m} <=> x = m
  OBVIOUS
<1> QED  BY <1>2, <1>3, <1>4, <1>5, OthersKeepCompanions

-----------------------------------------------------------------------------
(* The steps                                                                *)

LEMMA CallerKeepsCompanions ==
    ASSUME TypeOK, TypeOK', DispatchInv, KeptInv, NEW c \in Callers, CallerStep(c)
    PROVE  KeptInv'
<1>0. c \in Processes
  BY DEF Processes
<1>1. CASE \E m \in Otps : SendOtpNow(c, m)
  <2>1. PICK m \in Otps : SendOtpNow(c, m)
    BY <1>1
  <2>2. /\ m \in Messages /\ acceptance[m] = "absent"
        /\ acceptance' = [acceptance EXCEPT ![m] = "pending"]
        /\ acceptance \in [Messages -> AcceptanceStatus \cup {"absent"}]
        /\ HoldBudget(m) /\ CreateStarted(m, NoToken)
        /\ UNCHANGED <<delivery, params, reconcile>>
    BY <2>1 DEF SendOtpNow, Messages, TypeOK
  <2>3. acceptance'[m] = "pending" /\ \A x \in Messages : x # m => acceptance'[x] = acceptance[x]
    BY <2>2
  <2> QED  BY <2>2, <2>3, MarkingKeepsCompanions
<1>2. CASE DispatchOtp(c) \/ \E reply \in Replies : Receive(c, reply)
  BY <1>2, NothingDecidedKeepsCompanions DEF DispatchOtp, Receive, message, budget
<1>3. CASE CompleteOtp(c)
  <2> DEFINE m == proc[c].msg
             status == IF proc[c].reply \in {"rejected", "throttled"} THEN "rejected"
                                                                       ELSE proc[c].reply
  <2>1. /\ m \in Messages /\ m \in Otps /\ proc[c].no \in Nat
        /\ status \in {"accepted", "unknown", "rejected"}
    BY <1>0, <1>3, ProcFacts DEF CompleteOtp, Replies
  <2>2. CASE UNCHANGED <<message, attempts, budget, reconcile>>
    BY <2>2, NothingDecidedKeepsCompanions DEF message, budget
  <2>3. CASE /\ CompleteAcceptance({m}, status)
             /\ CompleteAttempt(m, proc[c].no, status)
             /\ IF status = "rejected"
                  THEN ReleaseBudget(m) /\ UNCHANGED reconcile
                  ELSE EnsureReconcile({m}) /\ UNCHANGED budget
             /\ UNCHANGED params
    <3>1. \A x \in Messages : Len(attempts'[x]) = Len(attempts[x])
      BY <2>1, <2>3, VerdictAddsNoAttempt DEF AttemptStatus
    <3>2. CASE status = "rejected"
      <4>1. acceptance'[m] = "rejected" /\ \A x \in Messages : x # m =>
               acceptance'[x] = acceptance[x] /\ delivery'[x] = delivery[x]
        BY <2>1, <2>3, <3>2 DEF CompleteAcceptance
      <4>2. ~params'[m]
        BY <2>1, <2>3, DispatchConstants DEF KeptInv, Companions
      <4> QED  BY <2>1, <2>3, <3>1, <3>2, <4>1, <4>2, RejectingKeepsCompanions
    <3>3. CASE status # "rejected"
      <4>1. status \in {"accepted", "unknown"}
        BY <2>1, <3>3
      <4>2. {m} \in SUBSET Messages /\ {m} \subseteq Otps
        BY <2>1
      <4>3. EnsureReconcile({m}) /\ UNCHANGED budget
        BY <2>3, <3>3
      <4> HIDE DEF status
      <4> QED  BY <2>3, <3>1, <4>1, <4>2, <4>3, WaitingKeepsCompanions
    <3> QED  BY <3>2, <3>3
  <2> QED  BY <1>3, <2>2, <2>3 DEF CompleteOtp
<1> QED  BY <1>1, <1>2, <1>3 DEF CallerStep

LEMMA WorkerKeepsCompanions ==
    ASSUME TypeOK, TypeOK', DispatchInv, KeptInv, NEW w \in Workers, WorkerStep(w)
    PROVE  KeptInv'
<1> DEFINE m == proc[w].msg
<1>0. /\ w \in Processes
      /\ proc[w].pc # "idle" =>
            m \in Messages /\ m \in Notifications /\ proc[w].no \in Nat
  BY ProcFacts DEF Processes
<1>1. CASE MarkDispatch(w)
  <2>1. /\ acceptance[m] = "pending" /\ acceptance' = acceptance /\ m \in Messages
        /\ HoldBudget(m) /\ CreateStarted(m, proc[w].token)
        /\ UNCHANGED <<delivery, params, reconcile>>
    BY <1>0, <1>1 DEF MarkDispatch, message
  <2> QED  BY <2>1, MarkingKeepsCompanions
<1>2. CASE RejectUndispatched(w)
  <2>1. /\ m \in Messages
        /\ acceptance' = [acceptance EXCEPT ![m] = "rejected"]
        /\ delivery' = [delivery EXCEPT ![m] = "not_applicable"]
        /\ ClearRenderParams({m}) /\ ReleaseBudget(m) /\ UNCHANGED <<attempts, reconcile>>
        /\ acceptance \in [Messages -> AcceptanceStatus \cup {"absent"}]
        /\ delivery \in [Messages -> DeliveryStatus]
        /\ params \in [Messages -> BOOLEAN]
    BY <1>0, <1>2 DEF RejectUndispatched, TypeOK
  <2>2. acceptance'[m] = "rejected" /\ \A x \in Messages : x # m =>
           acceptance'[x] = acceptance[x] /\ delivery'[x] = delivery[x]
    BY <2>1
  <2>3. ~params'[m] /\ \A x \in Messages : x # m => params'[x] = params[x]
    BY <2>1 DEF ClearRenderParams
  <2> QED  BY <2>1, <2>2, <2>3, RejectingKeepsCompanions
<1>3. CASE CompleteAccepted(w) \/ CompleteUnknown(w)
  <2>1. PICK status \in {"accepted", "unknown"} :
           /\ CompleteAcceptance({m}, status)
           /\ EnsureAttempt(m, proc[w].no, status) \/ CompleteAttempt(m, proc[w].no, status)
    BY <1>3 DEF CompleteAccepted, CompleteUnknown
  <2>2. /\ m \in Messages /\ {m} \in SUBSET Messages /\ proc[w].no \in Nat
        /\ ClearRenderParams({m}) /\ EnsureReconcile({m}) /\ UNCHANGED budget
    BY <1>0, <1>3 DEF CompleteAccepted, CompleteUnknown
  <2>3. \A x \in Messages : Len(attempts'[x]) = Len(attempts[x])
    BY <2>1, <2>2, VerdictAddsNoAttempt DEF AttemptStatus
  <2> QED  BY <2>1, <2>2, <2>3, WaitingKeepsCompanions
<1>4. CASE CompleteRejected(w)
  <2>1. /\ m \in Messages /\ proc[w].no \in Nat
        /\ CompleteAcceptance({m}, "rejected") /\ EnsureAttempt(m, proc[w].no, "rejected")
        /\ ClearRenderParams({m}) /\ ReleaseBudget(m) /\ UNCHANGED reconcile
    BY <1>0, <1>4 DEF CompleteRejected
  <2>2. \A x \in Messages : Len(attempts'[x]) = Len(attempts[x])
    BY <2>1, VerdictAddsNoAttempt DEF AttemptStatus
  <2>3. acceptance'[m] = "rejected" /\ \A x \in Messages : x # m =>
           acceptance'[x] = acceptance[x] /\ delivery'[x] = delivery[x]
    BY <2>1 DEF CompleteAcceptance
  <2>4. ~params'[m] /\ \A x \in Messages : x # m => params'[x] = params[x]
    BY <2>1 DEF ClearRenderParams, TypeOK
  <2> QED  BY <2>1, <2>2, <2>3, <2>4, RejectingKeepsCompanions
<1>5. CASE Reschedule(w)
  <2>1. /\ m \in Messages /\ proc[w].no \in Nat
        /\ CompleteAttempt(m, proc[w].no, "rejected") /\ UNCHANGED <<message, budget, reconcile>>
    BY <1>0, <1>5 DEF Reschedule
  <2>2. \A x \in Messages : Len(attempts'[x]) = Len(attempts[x])
    BY <2>1, VerdictAddsNoAttempt DEF AttemptStatus
  <2> QED  BY <2>1, <2>2, NothingDecidedKeepsCompanions
<1>6. CASE AbortMark(w) \/ AbortOpen(w) \/ AbortDispatch(w) \/ DropAnswer(w)
  <2>1. Forget(w)
    BY <1>0, <1>6, ForgettingSteps
  <2> QED  BY <2>1, NothingDecidedKeepsCompanions DEF Forget, message, budget
<1>7. CASE \/ \E x \in Notifications, t \in LeaseTokens : Lease(w, x, t)
           \/ OpenProviderInput(w) \/ Dispatch(w)
           \/ \E reply \in Replies : Receive(w, reply)
  BY <1>7, NothingDecidedKeepsCompanions
     DEF Lease, OpenProviderInput, Dispatch, Receive, message, budget
<1> HIDE DEF m
<1> QED  BY <1>1, <1>2, <1>3, <1>4, <1>5, <1>6, <1>7 DEF WorkerStep

LEMMA RecoveryKeepsCompanions ==
    ASSUME TypeOK, TypeOK', DispatchInv, KeptInv, Recover
    PROVE  KeptInv'
<1>1. PICK R \in SUBSET Notifications, Q \in SUBSET Notifications, D \in SUBSET Otps :
         RecoverBatch(R, Q, D)
  BY DEF Recover
<1>2. /\ Q \cup D \in SUBSET Messages
      /\ CompleteAcceptance(Q \cup D, "unknown") /\ EnsureReconcile(Q \cup D)
      /\ ClearRenderParams(Q \cup D) /\ UNCHANGED budget
  BY <1>1 DEF RecoverBatch, Messages
<1>3. \A x \in Messages : Len(attempts'[x]) = Len(attempts[x])
  BY <1>1, CloseMarkersFacts DEF RecoverBatch
<1> QED  BY <1>2, <1>3, WaitingKeepsCompanions

LEMMA RetentionKeepsCompanions ==
    ASSUME TypeOK, TypeOK', DispatchInv, KeptInv, NEW m \in Messages, Retain(m)
    PROVE  KeptInv'
<1> DEFINE outcome == IF acceptance[m] = "pending" THEN Verdict(m) ELSE acceptance[m]
<1>0. /\ acceptance \in [Messages -> AcceptanceStatus \cup {"absent"}]
      /\ delivery \in [Messages -> DeliveryStatus]
      /\ params \in [Messages -> BOOLEAN]
      /\ Companions(m)
  BY DEF TypeOK, KeptInv
<1>1. /\ acceptance' = [acceptance EXCEPT ![m] = outcome]
      /\ delivery' = IF delivery[m] = "waiting" \/ (acceptance[m] # outcome /\ outcome = "unknown")
                       THEN [delivery EXCEPT ![m] = "unknown_final"]
                       ELSE delivery
      /\ CloseMarkers({m}) /\ ClearRenderParams({m}) /\ UNCHANGED reconcile
      /\ IF outcome = "rejected" THEN ReleaseBudget(m) ELSE UNCHANGED budget
      /\ acceptance[m] # "absent"
  BY DEF Retain
<1>2. /\ \A x \in Messages : Len(attempts'[x]) = Len(attempts[x])
      /\ acceptance'[m] = outcome /\ ~params'[m]
      /\ \A x \in Messages : x # m => /\ acceptance'[x] = acceptance[x]
                                      /\ delivery'[x] = delivery[x]
                                      /\ params'[x] = params[x]
  <2>1. \A x \in Messages : Len(attempts'[x]) = Len(attempts[x])
    BY <1>1, CloseMarkersFacts
  <2>2. ~params'[m] /\ \A x \in Messages : x # m => params'[x] = params[x]
    BY <1>0, <1>1 DEF ClearRenderParams
  <2>3. acceptance'[m] = outcome /\ \A x \in Messages : x # m => acceptance'[x] = acceptance[x]
    <3> HIDE DEF outcome
    <3> QED  BY <1>0, <1>1
  <2>4. \A x \in Messages : x # m => delivery'[x] = delivery[x]
    <3> HIDE DEF outcome
    <3> QED  BY <1>0, <1>1
  <2> QED  BY <2>1, <2>2, <2>3, <2>4
<1>3. CASE outcome = "rejected"
  BY <1>1, <1>2, <1>3, RejectingKeepsCompanions
<1>4. CASE outcome # "rejected"
  <2>1. UNCHANGED budget /\ BooksBalance'
    BY <1>1, <1>4 DEF KeptInv, BooksBalance, HeldOn, budget
  <2>2. /\ acceptance[m] = "pending" => outcome = "unknown" /\ attempts[m] # <<>>
        /\ acceptance[m] # "pending" => outcome = acceptance[m]
        /\ outcome \in {"accepted", "unknown"}
    <3>1. acceptance[m] \in {"pending", "accepted", "unknown", "rejected"}
      BY <1>0, <1>1 DEF AcceptanceStatus
    <3>2. acceptance[m] = "pending" => outcome = "unknown" /\ Dispatched(m)
      BY <1>4 DEF Verdict
    <3>3. Dispatched(m) => attempts[m] # <<>>
      <4>1. attempts[m] \in Seq(Attempt)
        BY DEF TypeOK
      <4> QED  BY <4>1 DEF Dispatched
    <3> QED  BY <1>4, <3>1, <3>2, <3>3
  <2>3. delivery'[m] = "unknown_final" \/ (delivery'[m] = "waiting" /\ reconcile'[m])
    BY <1>0, <1>1, <2>2 DEF Companions
  <2>4. /\ attempts'[m] # <<>> => attempts[m] # <<>>
        /\ reservation'[m] = reservation[m]
    <3>1. attempts[m] \in Seq(Attempt) /\ attempts'[m] \in Seq(Attempt)
      BY DEF TypeOK
    <3> QED  BY <1>2, <2>1, <3>1 DEF budget
  <2>5. Companions(m)'
    <3> HIDE DEF outcome
    <3> QED  BY <1>0, <1>2, <2>2, <2>3, <2>4 DEF Companions
  <2>6. \A x \in Messages : x # m => reservation'[x] = reservation[x] /\ reconcile'[x] = reconcile[x]
    BY <1>1, <2>1 DEF budget
  <2>7. \A x \in Messages : x \in {m} <=> x = m
    OBVIOUS
  <2> HIDE DEF outcome
  <2> QED  BY <1>2, <2>1, <2>5, <2>6, <2>7, OthersKeepCompanions
<1> QED  BY <1>3, <1>4

LEMMA EnqueueKeepsCompanions ==
    ASSUME TypeOK, TypeOK', DispatchInv, KeptInv, NEW m \in Notifications, EnqueueNotification(m)
    PROVE  KeptInv'
<1>0. m \in Messages
  BY DEF Messages
<1>1. BooksBalance'
  BY DEF KeptInv, BooksBalance, HeldOn, budget, EnqueueNotification
<1>2. Companions(m)'
  BY <1>0 DEF TypeOK, EnqueueNotification, KeptInv, Companions, budget
<1>3. \A x \in Messages : x \notin {m} =>
         /\ attempts'[x] = attempts[x]
         /\ acceptance'[x] = acceptance[x]
         /\ delivery'[x] = delivery[x]
         /\ params'[x] = params[x]
         /\ reservation'[x] = reservation[x]
         /\ reconcile'[x] = reconcile[x]
  BY <1>0 DEF TypeOK, EnqueueNotification, budget
<1> QED  BY <1>1, <1>2, <1>3, OthersKeepCompanions

LEMMA KeptStep == TypeOK /\ DispatchInv /\ KeptInv /\ [Next]_vars => KeptInv'
<1> SUFFICES ASSUME TypeOK, DispatchInv, KeptInv, [Next]_vars PROVE KeptInv'
  OBVIOUS
<1>1. TypeOK'
  BY TypeStep
<1>2. ASSUME UNCHANGED <<message, attempts, budget, reconcile>> PROVE KeptInv'
  BY <1>1, <1>2, NothingDecidedKeepsCompanions
<1>3. CASE EnvironmentStep
  <2>1. ASSUME NEW m \in Notifications, EnqueueNotification(m) PROVE KeptInv'
    BY <1>1, <2>1, EnqueueKeepsCompanions
  <2>2. ASSUME NEW m \in OldMessages, Retain(m) PROVE KeptInv'
    BY <1>1, <2>2, DispatchConstants, RetentionKeepsCompanions
  <2>3. CASE \/ \E m \in Notifications : ExpireLease(m)
             \/ \E p \in Processes : Crash(p)
             \/ NextDay \/ SwitchCircuit
    BY <1>2, <2>3 DEF ExpireLease, Crash, NextDay, SwitchCircuit
  <2> QED  BY <1>3, <2>1, <2>2, <2>3 DEF EnvironmentStep
<1>4. CASE ProviderStep \/ UNCHANGED vars
  BY <1>2, <1>4 DEF ProviderStep, ProviderTakes, ProviderRefuses, vars
<1> QED
  BY <1>1, <1>3, <1>4, CallerKeepsCompanions, WorkerKeepsCompanions, RecoveryKeepsCompanions DEF Next

LEMMA InitKept == Init => KeptInv
<1> SUFFICES ASSUME Init PROVE KeptInv
  OBVIOUS
<1>1. BooksBalance
  <2>1. \A d \in Days : HeldOn(d) = {}
    BY DEF Init, HeldOn
  <2>2. IsFiniteSet({}) /\ Cardinality({}) = 0
    BY FS_EmptySet
  <2>3. \A d \in Days : heldCount[d] = 0 /\ 0 <= SystemDailyBudget
    BY DispatchConstants DEF Init
  <2> QED  BY <2>1, <2>2, <2>3 DEF BooksBalance
<1>2. \A m \in Messages : Companions(m)
  BY DEF Init, Companions
<1> QED  BY <1>1, <1>2 DEF KeptInv

\* What the provider sends was attempted, so it still has its share of the budget.
LEMMA KeptImpliesCompanions == TypeOK /\ DispatchInv /\ KeptInv => CompanionInv
<1> SUFFICES ASSUME TypeOK, DispatchInv, KeptInv PROVE CompanionInv
  OBVIOUS
<1>1. BudgetConserved /\ FollowUpInv
  BY DEF KeptInv, BooksBalance, Companions, BudgetConserved, FollowUpInv, ParamsUntilDecided,
         WaitingIsReconciled
<1>2. ASSUME NEW d \in Days
      PROVE  Cardinality({m \in Messages : Sends(m) /\ reservation[m].day = d}) <= SystemDailyBudget
  <2> DEFINE sent == {m \in Messages : Sends(m) /\ reservation[m].day = d}
  <2>1. ASSUME NEW m \in sent PROVE m \in HeldOn(d)
    <3>1. PICK r \in taken : r[1] = m
      BY DEF Sends
    <3>2. r[2] \in Nat \ {0} /\ r[2] <= Len(attempts[m]) /\ attempts[m] \in Seq(Attempt)
      BY <3>1 DEF TypeOK, DispatchInv, RequestsFollowAttempts
    <3>3. acceptance[m] # "rejected"
      BY <3>1, InvImpliesOutcome DEF OutcomeMatchesProvider, Asked
    <3>4. reservation[m].state = "held"
      BY <3>2, <3>3 DEF KeptInv, Companions
    <3>5. reservation[m] = [state |-> "held", day |-> d]
      BY <3>4 DEF TypeOK, Reservation
    <3> QED  BY <3>5 DEF HeldOn
  <2>2. sent \subseteq HeldOn(d)
    BY <2>1
  <2>3. /\ IsFiniteSet(HeldOn(d)) /\ Cardinality(HeldOn(d)) <= SystemDailyBudget
        /\ Cardinality(HeldOn(d)) \in Nat /\ SystemDailyBudget \in Nat
    BY DispatchConstants, FS_CardinalityType DEF KeptInv, BooksBalance
  <2>4. Cardinality(sent) <= Cardinality(HeldOn(d)) /\ IsFiniteSet(sent)
    BY <2>2, <2>3, FS_Subset
  <2>5. Cardinality(sent) \in Nat
    BY <2>4, FS_CardinalityType
  <2> HIDE DEF sent
  <2>6. Cardinality(sent) <= SystemDailyBudget
    BY <2>3, <2>4, <2>5
  <2> QED  BY <2>6 DEF sent
<1> QED  BY <1>1, <1>2 DEF CompanionInv, BudgetInv, DailyBudgetHolds

\* The budget, the parameters, the reconcile job and the waits of every message are
\* kept together with the pipeline itself.
THEOREM KeptHolds == Spec => [](TypeOK /\ DispatchInv /\ KeptInv)
<1> QED  BY InitKept, KeptStep, InvariantHolds, PTL DEF Spec

\* However workers, retries, recovery and retention interleave, each day's counter
\* is the number of reservations held on it, the SMS sent out of a day never exceed
\* the limit, and parameters and reconcile jobs exist exactly while they are needed.
THEOREM CompanionsFollow == Spec => []CompanionInv
<1> QED  BY KeptHolds, KeptImpliesCompanions, PTL

-----------------------------------------------------------------------------
(* The pipeline implements SmsPromise                                       *)

SentSet == {m \in Messages : Sends(m)}

\* The provider takes a request only of a message that is undecided and of which it
\* has taken nothing.
LEMMA TakingIsASend ==
    ASSUME TypeOK, DispatchInv, NEW r \in inflight, ProviderTakes(r)
    PROVE  \E m \in Messages : Promise!Send(m)
<1> DEFINE m == r[1]
           k == r[2]
<1>1. /\ m \in Messages /\ k \in Nat \ {0} /\ r = <<m, k>>
      /\ k <= Len(attempts[m]) /\ r \notin taken \cup refused
      /\ attempts[m] \in Seq(Attempt)
  BY DEF TypeOK, DispatchInv, RequestsFollowAttempts
<1>2. k \in 1 .. Len(attempts[m])
  BY <1>1
<1>3. attempts[m][k].status \in {"started", "unknown"} /\ k = Len(attempts[m])
  <2>1. attempts[m][k].status # "rejected" /\ attempts[m][k].status # "accepted"
    BY <1>1, <1>2 DEF DispatchInv, RequestsFollowAttempts
  <2>2. attempts[m][k].status \in AttemptStatus
    BY <1>1, <1>2, OpenAttempt DEF Attempt
  <2>3. k = Len(attempts[m])
    BY <1>1, <1>2, <2>1, OpenAttempt
  <2> QED  BY <2>1, <2>2, <2>3 DEF AttemptStatus
<1>4. acceptance[m] \in {"pending", "unknown"}
  BY <1>1, <1>2, <1>3, OpenAttempt
<1>5. ~Sends(m)
  <2>1. SUFFICES ASSUME NEW s \in taken, s[1] = m PROVE FALSE
    BY DEF Sends
  <2>2. /\ s = <<m, s[2]>> /\ s[2] \in 1 .. Len(attempts[m]) /\ s \notin refused /\ s # r
    BY <1>1, <2>1 DEF TypeOK, DispatchInv, RequestsFollowAttempts
  <2>3. s[2] # k
    BY <1>1, <2>2
  <2>4. attempts[m][s[2]].status # "rejected"
    BY <1>1, <2>2 DEF DispatchInv, RequestsFollowAttempts
  <2>5. s[2] = Len(attempts[m])
    BY <1>1, <2>2, <2>4, OpenAttempt
  <2> QED  BY <1>3, <2>3, <2>5
<1>6. SentSet' = SentSet \cup {m}
  BY <1>1 DEF SentSet, Sends, ProviderTakes
<1>7. UNCHANGED acceptance
  BY DEF ProviderTakes, message
<1> QED
  BY <1>1, <1>4, <1>5, <1>6, <1>7 DEF SentSet, Promise!Send, Promise!Undecided

PromiseStep == [Promise!Next]_(Promise!promise)

LEMMA SameOutcomeIsPromised ==
    ASSUME UNCHANGED <<acceptance, taken>>
    PROVE  PromiseStep
BY DEF PromiseStep, Promise!promise, Sends

\* A verdict about one message; that it is true follows from the next state.
LEMMA VerdictIsPromised ==
    ASSUME TypeOK, TypeOK', DispatchInv', UNCHANGED taken,
           NEW m \in Messages, NEW status \in {"accepted", "rejected"},
           acceptance[m] \in {"pending", "unknown"},
           \A x \in Messages : acceptance'[x] = IF x = m THEN status ELSE acceptance[x]
    PROVE  PromiseStep
<1>1. acceptance' = [acceptance EXCEPT ![m] = status]
  <2>1. /\ acceptance \in [Messages -> AcceptanceStatus \cup {"absent"}]
        /\ acceptance' \in [Messages -> AcceptanceStatus \cup {"absent"}]
    BY DEF TypeOK
  <2> QED  BY <2>1
<1>2. SentSet' = SentSet /\ \A x \in Messages : Sends(x)' <=> Sends(x)
  BY DEF SentSet, Sends
<1>3. OutcomeMatchesProvider'
  BY InvImpliesOutcome, PTL
<1>4. CASE status = "accepted"
  <2>1. m \in SentSet
    BY <1>2, <1>3, <1>4 DEF OutcomeMatchesProvider, SentSet
  <2>2. Promise!Accept(m)
    BY <1>1, <1>2, <1>4, <2>1 DEF SentSet, Promise!Accept, Promise!Undecided
  <2> QED  BY <2>2 DEF PromiseStep, Promise!Next
<1>5. CASE status = "rejected"
  <2>1. ~Sends(m)
    BY <1>2, <1>3, <1>5 DEF OutcomeMatchesProvider, Asked, Sends
  <2>2. m \notin SentSet
    BY <2>1 DEF SentSet
  <2>3. Promise!Reject(m)
    BY <1>1, <1>2, <1>5, <2>2 DEF SentSet, Promise!Reject, Promise!Undecided
  <2> QED  BY <2>3 DEF PromiseStep, Promise!Next
<1> QED  BY <1>4, <1>5

\* Messages whose verdict is unknown; there may be none.
LEMMA DoubtIsPromised ==
    ASSUME TypeOK, TypeOK', UNCHANGED taken, NEW S \in SUBSET Messages,
           \A m \in S : acceptance[m] = "pending",
           \A m \in Messages : acceptance'[m] = IF m \in S THEN "unknown" ELSE acceptance[m]
    PROVE  PromiseStep
<1>1. /\ acceptance \in [Messages -> AcceptanceStatus \cup {"absent"}]
      /\ acceptance' \in [Messages -> AcceptanceStatus \cup {"absent"}]
  BY DEF TypeOK
<1>2. CASE S = {}
  <2>1. UNCHANGED acceptance
    BY <1>1, <1>2
  <2> QED  BY <2>1, SameOutcomeIsPromised
<1>3. CASE S # {}
  <2>1. acceptance' = [m \in Messages |-> IF m \in S THEN "unknown" ELSE acceptance[m]]
    BY <1>1
  <2>2. UNCHANGED {m \in Messages : Sends(m)}
    BY DEF Sends
  <2>3. Promise!Doubt(S)
    BY <1>3, <2>1, <2>2 DEF Promise!Doubt
  <2> QED  BY <2>3 DEF PromiseStep, Promise!Next
<1> QED  BY <1>2, <1>3

\* completeAcceptance is a verdict about one message, or doubt about several.
LEMMA CompletionIsPromised ==
    ASSUME TypeOK, TypeOK', DispatchInv', UNCHANGED taken,
           NEW m \in Messages, NEW status \in {"accepted", "rejected", "unknown"},
           CompleteAcceptance({m}, status)
    PROVE  PromiseStep
<1>1. /\ AcceptanceTransition(acceptance[m], status)
      /\ \A x \in Messages : acceptance'[x] = IF x = m THEN status ELSE acceptance[x]
  BY DEF CompleteAcceptance
<1>2. CASE status = "unknown"
  <2>1. acceptance[m] = "pending"
    BY <1>1, <1>2 DEF AcceptanceTransition
  <2>2. \A x \in Messages : x \in {m} <=> x = m
    OBVIOUS
  <2>3. {m} \in SUBSET Messages
    OBVIOUS
  <2>4. \A x \in {m} : acceptance[x] = "pending"
    BY <2>1
  <2>5. \A x \in Messages : acceptance'[x] = IF x \in {m} THEN "unknown" ELSE acceptance[x]
    BY <1>1, <1>2
  <2> QED  BY <2>3, <2>4, <2>5, DoubtIsPromised
<1>3. CASE status # "unknown"
  <2>1. acceptance[m] \in {"pending", "unknown"} /\ status \in {"accepted", "rejected"}
    BY <1>1, <1>3 DEF AcceptanceTransition
  <2> QED  BY <1>1, <2>1, VerdictIsPromised
<1> QED  BY <1>2, <1>3

LEMMA SubmissionIsPromised ==
    ASSUME UNCHANGED taken, NEW m \in Messages, acceptance[m] = "absent",
           acceptance' = [acceptance EXCEPT ![m] = "pending"]
    PROVE  PromiseStep
<1>1. Promise!Submit(m)
  BY DEF Promise!Submit, Sends
<1> QED  BY <1>1 DEF PromiseStep, Promise!Next

LEMMA RetentionIsPromised ==
    ASSUME TypeOK, TypeOK', DispatchInv', NEW m \in Messages, Retain(m)
    PROVE  PromiseStep
<1> DEFINE outcome == IF acceptance[m] = "pending" THEN Verdict(m) ELSE acceptance[m]
<1>1. /\ acceptance' = [acceptance EXCEPT ![m] = outcome]
      /\ acceptance \in [Messages -> AcceptanceStatus \cup {"absent"}]
      /\ UNCHANGED taken
  BY DEF Retain, TypeOK, provider
<1>2. \A x \in Messages : acceptance'[x] = IF x = m THEN outcome ELSE acceptance[x]
  <2> HIDE DEF outcome
  <2> QED  BY <1>1
<1>3. CASE acceptance[m] # "pending"
  <2>1. UNCHANGED acceptance
    BY <1>1, <1>3
  <2> QED  BY <1>1, <2>1, SameOutcomeIsPromised
<1>4. CASE acceptance[m] = "pending" /\ Dispatched(m)
  <2>1. {m} \in SUBSET Messages /\ \A x \in {m} : acceptance[x] = "pending"
    BY <1>4
  <2>2. \A x \in Messages : acceptance'[x] = IF x \in {m} THEN "unknown" ELSE acceptance[x]
    BY <1>2, <1>4 DEF Verdict
  <2> QED  BY <1>1, <2>1, <2>2, DoubtIsPromised
<1>5. CASE acceptance[m] = "pending" /\ ~Dispatched(m)
  <2>1. \A x \in Messages : acceptance'[x] = IF x = m THEN "rejected" ELSE acceptance[x]
    BY <1>2, <1>5 DEF Verdict
  <2> QED  BY <1>1, <1>5, <2>1, VerdictIsPromised
<1> QED  BY <1>3, <1>4, <1>5

LEMMA EveryStepIsPromised == TypeOK /\ DispatchInv /\ [Next]_vars => PromiseStep
<1> SUFFICES ASSUME TypeOK, DispatchInv, [Next]_vars PROVE PromiseStep
  OBVIOUS
<1>0. /\ TypeOK' /\ DispatchInv'
      /\ acceptance \in [Messages -> AcceptanceStatus \cup {"absent"}]
  BY TypeStep, InvStep DEF TypeOK
<1>1. /\ \A w \in Workers : w \in Processes
      /\ \A c \in Callers : c \in Processes
  BY DEF Processes
<1>2. ASSUME NEW c \in Callers, CallerStep(c) PROVE PromiseStep
  <2>1. CASE \E m \in Otps : SendOtpNow(c, m)
    BY <2>1, SubmissionIsPromised DEF SendOtpNow, Messages, provider
  <2>2. CASE CompleteOtp(c) /\ UNCHANGED acceptance
    BY <2>2, SameOutcomeIsPromised DEF CompleteOtp, provider
  <2>3. CASE CompleteOtp(c) /\ ~UNCHANGED acceptance
    <3>1. PICK status \in {"accepted", "rejected", "unknown"} :
             CompleteAcceptance({proc[c].msg}, status)
      BY <1>1, <2>3, ProcFacts DEF CompleteOtp, Replies, message
    <3>2. proc[c].msg \in Messages /\ UNCHANGED taken
      BY <1>1, <2>3, ProcFacts DEF CompleteOtp, provider
    <3> QED  BY <1>0, <3>1, <3>2, CompletionIsPromised
  <2>4. CASE DispatchOtp(c) \/ \E reply \in Replies : Receive(c, reply)
    BY <2>4, SameOutcomeIsPromised DEF DispatchOtp, Receive, message, provider
  <2> QED  BY <1>2, <2>1, <2>2, <2>3, <2>4 DEF CallerStep
<1>3. ASSUME NEW w \in Workers, WorkerStep(w) PROVE PromiseStep
  <2>0. proc[w].pc # "idle" => proc[w].msg \in Messages
    BY <1>1, ProcFacts
  <2>1. CASE CompleteAccepted(w) \/ CompleteUnknown(w) \/ CompleteRejected(w)
    <3>1. PICK status \in {"accepted", "rejected", "unknown"} :
             CompleteAcceptance({proc[w].msg}, status)
      BY <2>1 DEF CompleteAccepted, CompleteUnknown, CompleteRejected
    <3>2. proc[w].msg \in Messages /\ UNCHANGED taken
      BY <2>0, <2>1
         DEF CompleteAccepted, CompleteUnknown, CompleteRejected, Settle, provider
    <3> QED  BY <1>0, <3>1, <3>2, CompletionIsPromised
  <2>2. CASE RejectUndispatched(w)
    <3>1. /\ proc[w].msg \in Messages /\ acceptance[proc[w].msg] = "pending" /\ UNCHANGED taken
          /\ acceptance' = [acceptance EXCEPT ![proc[w].msg] = "rejected"]
      BY <2>0, <2>2 DEF RejectUndispatched, provider
    <3>2. \A x \in Messages :
             acceptance'[x] = IF x = proc[w].msg THEN "rejected" ELSE acceptance[x]
      BY <1>0, <3>1
    <3> QED  BY <1>0, <3>1, <3>2, VerdictIsPromised
  <2>3. CASE \/ AbortMark(w) \/ AbortOpen(w) \/ AbortDispatch(w) \/ DropAnswer(w)
             \/ Reschedule(w) \/ MarkDispatch(w) \/ OpenProviderInput(w) \/ Dispatch(w)
             \/ \E m \in Notifications, t \in LeaseTokens : Lease(w, m, t)
             \/ \E reply \in Replies : Receive(w, reply)
    <3>1. UNCHANGED <<acceptance, taken>>
      BY <2>3
         DEF AbortMark, AbortOpen, AbortDispatch, DropAnswer, Reschedule, MarkDispatch,
             OpenProviderInput, Dispatch, Lease, Receive, Settle, message, provider
    <3> QED  BY <3>1, SameOutcomeIsPromised
  <2> QED  BY <1>3, <2>1, <2>2, <2>3 DEF WorkerStep
<1>4. CASE ProviderStep
  <2>1. ASSUME NEW r \in inflight, ProviderTakes(r) PROVE PromiseStep
    BY <2>1, TakingIsASend DEF PromiseStep, Promise!Next
  <2>2. ASSUME NEW r \in inflight, ProviderRefuses(r) PROVE PromiseStep
    BY <2>2, SameOutcomeIsPromised DEF ProviderRefuses, message
  <2> QED  BY <1>4, <2>1, <2>2 DEF ProviderStep
<1>5. CASE Recover
  <2>1. PICK R \in SUBSET Notifications, Q \in SUBSET Notifications, D \in SUBSET Otps :
           RecoverBatch(R, Q, D)
    BY <1>5 DEF Recover
  <2>2. /\ Q \cup D \in SUBSET Messages /\ UNCHANGED taken
        /\ \A m \in Q \cup D : acceptance[m] = "pending"
        /\ \A m \in Messages :
              acceptance'[m] = IF m \in Q \cup D THEN "unknown" ELSE acceptance[m]
    BY <2>1 DEF RecoverBatch, CompleteAcceptance, AcceptanceTransition, Messages, provider
  <2> QED  BY <1>0, <2>2, DoubtIsPromised
<1>6. CASE EnvironmentStep
  <2>1. ASSUME NEW m \in Notifications, EnqueueNotification(m) PROVE PromiseStep
    BY <2>1, SubmissionIsPromised DEF EnqueueNotification, Messages, provider
  <2>2. ASSUME NEW m \in OldMessages, Retain(m) PROVE PromiseStep
    BY <1>0, <2>2, DispatchConstants, RetentionIsPromised
  <2>3. CASE \/ \E m \in Notifications : ExpireLease(m)
             \/ \E p \in Processes : Crash(p)
             \/ NextDay \/ SwitchCircuit
    <3>1. UNCHANGED <<acceptance, taken>>
      BY <2>3 DEF ExpireLease, Crash, NextDay, SwitchCircuit, message, provider
    <3> QED  BY <3>1, SameOutcomeIsPromised
  <2> QED  BY <1>6, <2>1, <2>2, <2>3 DEF EnvironmentStep
<1>7. CASE UNCHANGED vars
  BY <1>7, SameOutcomeIsPromised DEF vars, message, provider
<1> QED  BY <1>2, <1>3, <1>4, <1>5, <1>6, <1>7 DEF Next

\* Whatever the processes do, hosts and recipients see the pipeline of SmsPromise:
\* a message is sent at most once and only while undecided, and a verdict is final
\* and true.
THEOREM PromiseKept == Spec => ImplementsPromise
<1>1. Init => Promise!Init
  BY DEF Init, Promise!Init, Sends
<1>2. TypeOK /\ DispatchInv /\ [Next]_vars => [Promise!Next]_(Promise!promise)
  BY EveryStepIsPromised DEF PromiseStep
<1> QED  BY <1>1, <1>2, InvariantHolds, PTL DEF Spec, ImplementsPromise, Promise!Spec

=============================================================================
