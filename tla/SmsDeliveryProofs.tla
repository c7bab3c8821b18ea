------------------------- MODULE SmsDeliveryProofs -------------------------
(***************************************************************************)
(* Machine-checked proofs about receipts, reconciliation and the one-off    *)
(* requests of administrators: what SmsDelivery and SmsOneOff keep true for *)
(* any set of messages, reconcilers and requests.                           *)
(***************************************************************************)
EXTENDS SmsOneOff, TLAPS

-----------------------------------------------------------------------------
(* Types *)

LEMMA TypeFacts ==
    ASSUME TypeOK
    PROVE  /\ acceptance \in [Messages -> AcceptanceStatus]
           /\ sends \subseteq Messages
           /\ attempt \in [Messages -> {"none", "started", "accepted", "rejected", "unknown"}]
           /\ delivery \in [Messages -> DeliveryStatus]
           /\ bizKnown \in [Messages -> BOOLEAN]
           /\ job \in [Messages -> Job]
           /\ receipts \subseteq Receipt
           /\ reports \subseteq Report
           /\ aged \subseteq Messages
           /\ rec \in [Reconcilers -> Reconciler]
BY DEF TypeOK

LEMMA UnleasedType ==
    ASSUME NEW state \in {"none", "pending", "leased", "succeeded", "dead"}
    PROVE  Unleased(state) \in Job /\ Unleased(state).state = state
BY DEF Unleased, Job

LEMMA ReconcilerTypes ==
    /\ Idle \in Reconciler /\ Absent \in Reconciler
    /\ Idle.pc = "idle" /\ Idle.leases = {} /\ Absent.pc = "absent" /\ Absent.leases = {}
    /\ \A S \in SUBSET Messages : [Idle EXCEPT !.pc = "batch", !.leases = S] \in Reconciler
BY DEF Idle, Absent, Reconciler

\* Writing a verdict, or a job with it, keeps the types.
LEMMA ConcludeType ==
    ASSUME TypeOK, NEW S, NEW status \in {"accepted", "rejected", "unknown"}, Conclude(S, status)
    PROVE  /\ attempt' \in [Messages -> {"none", "started", "accepted", "rejected", "unknown"}]
           /\ delivery' \in [Messages -> DeliveryStatus]
BY DEF TypeOK, Conclude, DeliveryAfter, DeliveryStatus

LEMMA EnsureType ==
    ASSUME TypeOK, NEW S, EnsureReconcile(S)
    PROVE  /\ job' \in [Messages -> Job]
           /\ \A m \in Messages :
                 /\ m \notin S \/ job[m].state # "none" => job'[m] = job[m]
                 /\ m \in S /\ job[m].state = "none" => job'[m].state = "pending"
BY UnleasedType DEF TypeOK, EnsureReconcile

LEMMA CloseJobType ==
    ASSUME TypeOK, NEW r \in Reconcilers, NEW m \in Messages,
           NEW state \in {"pending", "succeeded"}, TryCloseJob(r, m, state)
    PROVE  /\ job' \in [Messages -> Job]
           /\ \A x \in Messages : x # m => job'[x] = job[x]
           /\ job'[m] = job[m] \/ (job[m].state = "leased" /\ job'[m].state = state)
BY UnleasedType DEF TypeOK, TryCloseJob, OwnsLease

\* The batch goes on without the message it is done with.
LEMMA NextJobFacts ==
    ASSUME TypeOK, NEW r \in Reconcilers, NextJob(r)
    PROVE  /\ rec' \in [Reconcilers -> Reconciler]
           /\ \A x \in Reconcilers : x # r => rec'[x] = rec[x]
           /\ rec'[r].pc \in {"idle", "batch"}
           /\ rec'[r].leases \subseteq rec[r].leases
<1> DEFINE rest == rec[r].leases \ {rec[r].msg}
<1>1. /\ rec \in [Reconcilers -> Reconciler] /\ rec[r].leases \subseteq Messages
      /\ rest \in SUBSET Messages
  BY DEF TypeOK, Reconciler
<1>2. rec' = [rec EXCEPT ![r] =
                IF rest = {} THEN Idle ELSE [Idle EXCEPT !.pc = "batch", !.leases = rest]]
  BY DEF NextJob
<1>3. CASE rest = {}
  BY <1>1, <1>2, <1>3, ReconcilerTypes
<1>4. CASE rest # {}
  <2> DEFINE next == [Idle EXCEPT !.pc = "batch", !.leases = rest]
  <2>1. next \in Reconciler /\ next.pc = "batch" /\ next.leases = rest
    BY <1>1 DEF Idle, Reconciler
  <2>2. rec' = [rec EXCEPT ![r] = next]
    BY <1>2, <1>4
  <2> HIDE DEF next
  <2> QED  BY <1>1, <2>1, <2>2
<1> QED  BY <1>3, <1>4

-----------------------------------------------------------------------------
(* One message, one reconciler                                              *)

\* What DeliveryInv says of one message ...
RowInv(m) ==
    /\ acceptance[m] \in {"absent", "pending"} =>
          delivery[m] = "not_applicable" /\ job[m].state = "none"
    /\ acceptance[m] \in {"accepted", "unknown"} => delivery[m] # "not_applicable"
    /\ acceptance[m] = "accepted" => m \in sends
    /\ bizKnown[m] => acceptance[m] = "accepted"
    /\ \A c \in receipts : c.msg = m /\ c.source = "callback" /\ c.matched => bizKnown[m]
    /\ \A c \in receipts : c.msg = m /\ c.source = "query" => c.matched
    /\ delivery[m] \in ReportStatus => \E c \in Matched(m) : c.status = delivery[m]
    /\ Matched(m) # {} => delivery[m] \in FinalStatus
    /\ \A c \in Matched(m) :
          /\ c.source = "query" => c.status = delivery[m]
          /\ [c EXCEPT !.matched = FALSE] \notin receipts
    /\ delivery[m] \in ReportStatus => acceptance[m] = "accepted" /\ m \in sends
    /\ Reconcilable(acceptance[m], delivery[m]) => job[m].state \in {"pending", "leased"}

\* ... and of one reconciler.
ReadInv(r) ==
    /\ \A m \in rec[r].leases : acceptance[m] \notin {"absent", "pending"}
    /\ rec[r].pc \in {"read", "queried"} => rec[r].msg \in rec[r].leases
    /\ rec[r].pc = "read" /\ rec[r].seen = "settled" =>
          acceptance[rec[r].msg] = "rejected" \/ delivery[rec[r].msg] \in FinalStatus
    /\ rec[r].pc = "queried" => rec[r].result \in ReportStatus /\ rec[r].msg \in sends

\* The invariant, message by message and reconciler by reconciler.
LEMMA InvParts ==
    DeliveryInv <=> /\ TypeOK
                    /\ \A m \in Messages : RowInv(m)
                    /\ \A r \in Reconcilers : ReadInv(r)
<1>1. RowsAgree /\ ReceiptsExplainDelivery /\ ReportedWasAccepted /\ WaitingIsWatched
      <=> \A m \in Messages : RowInv(m)
  BY DEF RowsAgree, ReceiptsExplainDelivery, ReportedWasAccepted, WaitingIsWatched, RowInv
<1>2. ReadsStayTrue <=> \A r \in Reconcilers : ReadInv(r)
  BY DEF ReadsStayTrue, ReadInv
<1> QED  BY <1>1, <1>2 DEF DeliveryInv

\* No step takes back what has been written about a message.
Progress(m) ==
    /\ acceptance[m] \in {"accepted", "rejected"} => acceptance'[m] = acceptance[m]
    /\ acceptance[m] \notin {"absent", "pending"} => acceptance'[m] \notin {"absent", "pending"}
    /\ delivery[m] \in FinalStatus => delivery'[m] = delivery[m]
    /\ delivery[m] = "waiting" => delivery'[m] # "not_applicable"
    /\ m \in sends => m \in sends'
    /\ job[m].state # "none" => job'[m].state # "none"

\* A step that changes neither verdict, delivery nor receipts of a message.
LEMMA RowKept ==
    ASSUME TypeOK, TypeOK', NEW m \in Messages, RowInv(m),
           acceptance'[m] = acceptance[m], delivery'[m] = delivery[m],
           bizKnown'[m] = bizKnown[m], sends \subseteq sends',
           \A c : c.msg = m => (c \in receipts' <=> c \in receipts),
           job[m].state = "none" <=> job'[m].state = "none",
           \/ job'[m].state \in {"pending", "leased"} \/ job'[m].state = job[m].state
           \/ ~Reconcilable(acceptance[m], delivery[m])
    PROVE  RowInv(m)' /\ Progress(m)
<1>1. Progress(m)
  BY DEF Progress
<1>2. Matched(m)' = Matched(m)
  BY DEF Matched
<1>3. ASSUME NEW c \in Matched(m) PROVE [c EXCEPT !.matched = FALSE].msg = m
  BY DEF Matched, TypeOK, Receipt
<1> QED  BY <1>1, <1>2, <1>3 DEF RowInv, Reconcilable

\* A verdict about a message that is still undecided.
LEMMA RowDecided ==
    ASSUME TypeOK, TypeOK', NEW m \in Messages, RowInv(m),
           NEW status \in {"accepted", "rejected", "unknown"},
           acceptance[m] \in {"pending", "unknown"},
           status = "unknown" => acceptance[m] = "pending",
           acceptance'[m] = status, delivery'[m] = DeliveryAfter(status, delivery[m]),
           status = "accepted" => m \in sends,
           bizKnown'[m] => bizKnown[m] \/ status = "accepted",
           UNCHANGED <<sends, receipts>>,
           job[m].state # "none" \/ status = "rejected" => job'[m] = job[m],
           job[m].state = "none" /\ status # "rejected" => job'[m].state = "pending"
    PROVE  RowInv(m)' /\ Progress(m)
<1>1. delivery[m] \notin ReportStatus /\ ~bizKnown[m]
  BY DEF RowInv
<1>2. /\ delivery[m] # "not_applicable" => delivery'[m] = delivery[m]
      /\ delivery[m] = "not_applicable" =>
            delivery'[m] = IF status = "rejected" THEN "not_applicable" ELSE "waiting"
  BY DEF DeliveryAfter
<1>3. Matched(m)' = Matched(m)
  BY DEF Matched
<1>4. Progress(m)
  BY <1>2 DEF Progress, FinalStatus, ReportStatus
<1>5. Matched(m) # {} => delivery'[m] = delivery[m]
  BY <1>2 DEF RowInv, FinalStatus
<1>6. Reconcilable(acceptance'[m], delivery'[m]) => job'[m].state \in {"pending", "leased"}
  <2>1. CASE acceptance[m] = "pending"
    BY <2>1 DEF RowInv, Reconcilable
  <2>2. CASE acceptance[m] = "unknown"
    BY <1>2, <2>2 DEF RowInv, Reconcilable
  <2> QED  BY <2>1, <2>2
<1>7. delivery'[m] \notin ReportStatus
  BY <1>1, <1>2 DEF ReportStatus
<1>8. status \in {"accepted", "unknown"} => delivery'[m] # "not_applicable"
  BY <1>2
<1>9. bizKnown'[m] => status = "accepted"
  BY <1>1
<1>10. \A c \in receipts : c.msg = m /\ c.source = "callback" => ~c.matched
  BY <1>1 DEF RowInv
<1> QED
  BY <1>3, <1>4, <1>5, <1>6, <1>7, <1>8, <1>9, <1>10 DEF RowInv

\* A reconciler that does nothing is not misled by what the others do.
LEMMA ReadKept ==
    ASSUME TypeOK, NEW r \in Reconcilers, ReadInv(r), \A m \in Messages : Progress(m),
           rec'[r] = rec[r]
    PROVE  ReadInv(r)'
<1>1. rec[r].leases \subseteq Messages
  BY DEF TypeOK, Reconciler
<1> QED  BY <1>1 DEF ReadInv, Progress


-----------------------------------------------------------------------------
(* The steps                                                                *)

\* What every step that is not a reconciler's own leaves behind.
Kept == TypeOK' /\ \A m \in Messages : RowInv(m)' /\ Progress(m)

\* What the send pipeline does to a message starts the wait for its delivery.
LEMMA PipelineKeeps ==
    ASSUME DeliveryInv, PipelineStep
    PROVE  Kept /\ UNCHANGED rec
<1>0. /\ TypeOK /\ \A m \in Messages : RowInv(m)
  BY InvParts
<1>t. /\ acceptance \in [Messages -> AcceptanceStatus]
      /\ sends \subseteq Messages
      /\ attempt \in [Messages -> {"none", "started", "accepted", "rejected", "unknown"}]
      /\ delivery \in [Messages -> DeliveryStatus]
      /\ bizKnown \in [Messages -> BOOLEAN]
      /\ job \in [Messages -> Job]
  BY <1>0, TypeFacts
<1>1. ASSUME NEW m \in Messages, Submit(m) PROVE Kept /\ UNCHANGED rec
  <2>1. /\ acceptance[m] = "absent"
        /\ acceptance' = [acceptance EXCEPT ![m] = "pending"]
        /\ attempt' = [attempt EXCEPT ![m] = "started"]
        /\ UNCHANGED <<sends, delivery, bizKnown, job, receipts, reports, aged, rec>>
    BY <1>1 DEF Submit, Promise!Submit
  <2>2. TypeOK'
    BY <1>0, <1>t, <2>1 DEF TypeOK, AcceptanceStatus
  <2>3. ASSUME NEW x \in Messages PROVE RowInv(x)' /\ Progress(x)
    <3>1. CASE x # m
      BY <1>0, <1>t, <2>1, <2>2, <3>1, RowKept
    <3>2. CASE x = m
      <4>1. Matched(x)' = Matched(x)
        BY <2>1 DEF Matched
      <4> QED  BY <1>0, <1>t, <2>1, <3>2, <4>1 DEF RowInv, Progress, Reconcilable
    <3> QED  BY <3>1, <3>2
  <2> QED  BY <2>1, <2>2, <2>3 DEF Kept
<1>2. ASSUME NEW m \in Messages, Send(m) PROVE Kept /\ UNCHANGED rec
  <2>1. /\ sends' = sends \cup {m}
        /\ UNCHANGED <<acceptance, attempt, delivery, bizKnown, job, receipts, reports, aged, rec>>
    BY <1>2 DEF Send, Promise!Send
  <2>2. TypeOK'
    BY <1>0, <2>1 DEF TypeOK
  <2> QED  BY <1>0, <2>1, <2>2, RowKept DEF Kept
<1>3. ASSUME NEW S \in SUBSET Messages, NEW status \in {"accepted", "rejected", "unknown"},
             \A m \in S : /\ acceptance[m] \in {"pending", "unknown"}
                          /\ status = "unknown" => acceptance[m] = "pending"
                          /\ status = "accepted" => m \in sends,
             \A m \in Messages : acceptance'[m] = IF m \in S THEN status ELSE acceptance[m],
             acceptance' \in [Messages -> AcceptanceStatus],
             UNCHANGED sends,
             Conclude(S, status),
             bizKnown' \in [Messages -> BOOLEAN],
             \A m \in Messages : bizKnown'[m] => bizKnown[m] \/ (m \in S /\ status = "accepted"),
             \A m \in Messages : m \notin S => bizKnown'[m] = bizKnown[m],
             IF status = "rejected" THEN UNCHANGED job ELSE EnsureReconcile(S)
      PROVE  Kept /\ UNCHANGED rec
  <2>1. /\ attempt' \in [Messages -> {"none", "started", "accepted", "rejected", "unknown"}]
        /\ delivery' \in [Messages -> DeliveryStatus]
        /\ job' \in [Messages -> Job]
        /\ UNCHANGED <<receipts, reports, aged, rec>>
    BY <1>0, <1>t, <1>3, ConcludeType, EnsureType DEF Conclude
  <2>2. TypeOK'
    BY <1>0, <1>3, <2>1 DEF TypeOK
  <2>3. ASSUME NEW x \in Messages, x \in S PROVE RowInv(x)' /\ Progress(x)
    <3>1. /\ delivery'[x] = DeliveryAfter(status, delivery[x])
          /\ job[x].state # "none" \/ status = "rejected" => job'[x] = job[x]
          /\ job[x].state = "none" /\ status # "rejected" => job'[x].state = "pending"
      BY <1>0, <1>3, <2>3, EnsureType DEF Conclude
    <3> QED  BY <1>0, <1>3, <2>1, <2>2, <2>3, <3>1, RowDecided
  <2>4. ASSUME NEW x \in Messages, x \notin S PROVE RowInv(x)' /\ Progress(x)
    <3>1. delivery'[x] = delivery[x] /\ job'[x] = job[x]
      BY <1>0, <1>3, <2>4, EnsureType DEF Conclude
    <3> QED  BY <1>0, <1>3, <2>1, <2>2, <2>4, <3>1, RowKept
  <2> QED  BY <2>1, <2>2, <2>3, <2>4 DEF Kept
<1>4. ASSUME NEW m \in Messages, Accept(m) PROVE Kept /\ UNCHANGED rec
  <2>1. /\ acceptance[m] \in {"pending", "unknown"} /\ m \in sends
        /\ acceptance' = [acceptance EXCEPT ![m] = "accepted"] /\ UNCHANGED sends
        /\ Conclude({m}, "accepted") /\ EnsureReconcile({m})
        /\ bizKnown' = [bizKnown EXCEPT ![m] = TRUE]
    BY <1>4 DEF Accept, Promise!Accept, Promise!Undecided
  <2>2. /\ acceptance' \in [Messages -> AcceptanceStatus]
        /\ bizKnown' \in [Messages -> BOOLEAN]
        /\ \A x \in Messages : /\ acceptance'[x] = IF x \in {m} THEN "accepted" ELSE acceptance[x]
                               /\ bizKnown'[x] => bizKnown[x] \/ x \in {m}
                               /\ x \notin {m} => bizKnown'[x] = bizKnown[x]
    BY <1>t, <2>1 DEF AcceptanceStatus
  <2> DEFINE S == {m}
  <2>3. S \in SUBSET Messages /\ \A x \in S : acceptance[x] \in {"pending", "unknown"} /\ x \in sends
    BY <2>1
  <2>4. /\ Conclude(S, "accepted") /\ EnsureReconcile(S) /\ UNCHANGED sends
        /\ acceptance' \in [Messages -> AcceptanceStatus]
        /\ bizKnown' \in [Messages -> BOOLEAN]
        /\ \A x \in Messages : /\ acceptance'[x] = IF x \in S THEN "accepted" ELSE acceptance[x]
                               /\ bizKnown'[x] => bizKnown[x] \/ x \in S
                               /\ x \notin S => bizKnown'[x] = bizKnown[x]
    BY <2>1, <2>2
  <2> HIDE DEF S
  <2> QED  BY <1>3, <2>3, <2>4
<1>5. ASSUME NEW m \in Messages, Reject(m) PROVE Kept /\ UNCHANGED rec
  <2>1. /\ acceptance[m] \in {"pending", "unknown"}
        /\ acceptance' = [acceptance EXCEPT ![m] = "rejected"] /\ UNCHANGED sends
        /\ Conclude({m}, "rejected") /\ UNCHANGED <<bizKnown, job>>
    BY <1>5 DEF Reject, Promise!Reject, Promise!Undecided
  <2>2. /\ acceptance' \in [Messages -> AcceptanceStatus]
        /\ \A x \in Messages : acceptance'[x] = IF x \in {m} THEN "rejected" ELSE acceptance[x]
    BY <1>t, <2>1 DEF AcceptanceStatus
  <2> QED  BY <1>3, <1>t, <2>1, <2>2
<1>6. ASSUME NEW S \in SUBSET Messages, Doubt(S) PROVE Kept /\ UNCHANGED rec
  <2>1. /\ \A m \in S : acceptance[m] = "pending"
        /\ acceptance' = [m \in Messages |-> IF m \in S THEN "unknown" ELSE acceptance[m]]
        /\ UNCHANGED <<sends, bizKnown>>
        /\ Conclude(S, "unknown") /\ EnsureReconcile(S)
    BY <1>6 DEF Doubt, Promise!Doubt
  <2>2. /\ acceptance' \in [Messages -> AcceptanceStatus]
        /\ \A x \in Messages : acceptance'[x] = IF x \in S THEN "unknown" ELSE acceptance[x]
    BY <1>t, <2>1 DEF AcceptanceStatus
  <2> QED  BY <1>3, <1>t, <2>1, <2>2
<1> QED  BY <1>1, <1>2, <1>4, <1>5, <1>6 DEF PipelineStep


\* Steps of time, the provider and a lost process.
LEMMA QuietKeeps ==
    ASSUME DeliveryInv, TypeOK', UNCHANGED <<sending, delivery, receipts>>,
           \A m \in Messages :
              job'[m] = job[m] \/ (job[m].state = "leased" /\ job'[m].state \in {"pending", "leased"})
    PROVE  Kept
<1>1. TypeOK /\ \A m \in Messages : RowInv(m)
  BY InvParts
<1> QED  BY <1>1, RowKept DEF Kept, sending

\* Callbacks that find no message yet.
LEMMA Unmatched ==
    ASSUME NEW c \in Receipt
    PROVE  [c EXCEPT !.matched = FALSE] =
              [msg |-> c.msg, status |-> c.status, source |-> c.source, matched |-> FALSE]
<1> DEFINE e == [c EXCEPT !.matched = FALSE]
<1>1. e \in Receipt
  BY DEF Receipt
<1>2. e.msg = c.msg /\ e.status = c.status /\ e.source = c.source /\ e.matched = FALSE
  BY DEF Receipt
<1>3. e = [msg |-> e.msg, status |-> e.status, source |-> e.source, matched |-> e.matched]
  <2> HIDE DEF e
  <2> QED  BY <1>1 DEF Receipt
<1> HIDE DEF e
<1>4. e = [msg |-> c.msg, status |-> c.status, source |-> c.source, matched |-> FALSE]
  BY <1>2, <1>3
<1> QED  BY <1>4 DEF e

\* A batch of callbacks, new or repeated, settles what is still open.
LEMMA IngestKeeps ==
    ASSUME DeliveryInv, NEW B \in SUBSET reports, NEW acknowledged \in BOOLEAN,
           Ingest(B, acknowledged)
    PROVE  Kept /\ UNCHANGED rec
<1>0. /\ TypeOK /\ \A m \in Messages : RowInv(m)
      /\ reports \subseteq Report /\ receipts \subseteq Receipt
      /\ bizKnown \in [Messages -> BOOLEAN]
  BY InvParts, TypeFacts
<1>1. /\ RecordCallbacks(B) /\ DeliverFirst(B)
      /\ reports' \subseteq reports
      /\ UNCHANGED <<acceptance, sends, attempt, bizKnown, job, aged, rec>>
  BY DEF Ingest, sending
<1>2. PICK first \in [Messages -> DeliveryStatus] :
        /\ \A m \in Messages :
              LET new == {r.status : r \in {s \in NewlyMatched(B) : s.msg = m}}
              IN  first[m] \in IF new = {} \/ ~Open(delivery[m]) THEN {delivery[m]} ELSE new
        /\ delivery' = first
  BY <1>1 DEF DeliverFirst
<1>3. /\ \A c \in receipts' :
            \/ c \in receipts
            \/ \E r \in B : bizKnown[r.msg] /\ c = Callback(r, TRUE)
            \/ \E r \in B : ~bizKnown[r.msg] /\ c = Callback(r, FALSE)
      /\ \A c \in receipts : c \in receipts' \/ \E r \in B : bizKnown[r.msg] /\ c = Callback(r, FALSE)
      /\ \A r \in B : bizKnown[r.msg] => Callback(r, TRUE) \in receipts'
  BY <1>0, <1>1 DEF RecordCallbacks, Report
<1>4. \A r \in B :
         /\ r.msg \in Messages /\ r.status \in ReportStatus
         /\ Callback(r, TRUE) \in Receipt /\ Callback(r, FALSE) \in Receipt
         /\ Callback(r, TRUE).msg = r.msg /\ Callback(r, FALSE).msg = r.msg
         /\ Callback(r, TRUE).status = r.status
         /\ Callback(r, TRUE).source = "callback" /\ Callback(r, FALSE).source = "callback"
         /\ Callback(r, TRUE).matched /\ ~Callback(r, FALSE).matched
  BY <1>0 DEF Callback, Receipt, Report
<1>5. TypeOK'
  <2>1. ASSUME NEW c \in receipts' PROVE c \in Receipt
    <3>1. CASE c \in receipts
      BY <1>0, <3>1
    <3>2. CASE c \notin receipts
      <4>1. PICK r \in B : c = Callback(r, TRUE) \/ c = Callback(r, FALSE)
        BY <1>3, <3>2
      <4> QED  BY <1>4, <4>1
    <3> QED  BY <3>1, <3>2
  <2>2. reports' \subseteq Report
    BY <1>0, <1>1
  <2> QED  BY <1>0, <1>1, <1>2, <2>1, <2>2 DEF TypeOK
<1>6. \A r \in B : bizKnown[r.msg] => Callback(r, FALSE) \notin receipts'
  <2> SUFFICES ASSUME NEW r \in B, bizKnown[r.msg], Callback(r, FALSE) \in receipts' PROVE FALSE
    OBVIOUS
  <2>1. PICK q \in B : ~bizKnown[q.msg] /\ Callback(q, FALSE) = Callback(r, FALSE)
    BY <1>0, <1>1, <1>4 DEF RecordCallbacks
  <2> QED  BY <1>4, <2>1
<1>7. ASSUME NEW m \in Messages PROVE RowInv(m)' /\ Progress(m)
  <2> DEFINE new == {r.status : r \in {s \in NewlyMatched(B) : s.msg = m}}
  <2>0. RowInv(m)
    BY <1>0
  <2>1. delivery'[m] \in IF new = {} \/ ~Open(delivery[m]) THEN {delivery[m]} ELSE new
    BY <1>2
  <2>2. \A st \in new : \E r \in B : /\ r.msg = m /\ r.status = st /\ bizKnown[m]
                                     /\ st \in ReportStatus /\ Callback(r, TRUE) \in receipts'
    BY <1>3, <1>4 DEF NewlyMatched
  <2>3. \/ delivery'[m] = delivery[m] /\ (new = {} \/ delivery[m] \in FinalStatus)
        \/ /\ delivery[m] \notin FinalStatus /\ delivery'[m] \in new
           /\ delivery'[m] \in ReportStatus /\ bizKnown[m] /\ acceptance[m] = "accepted"
    <3> HIDE DEF new
    <3> QED  BY <2>0, <2>1, <2>2 DEF Open, RowInv
  <2>4. \A c \in Matched(m) : c \in Matched(m)'
    BY <1>3, <1>4 DEF Matched
  <2>5. \A c \in Matched(m)' : \/ c \in Matched(m)
                               \/ \E r \in B : r.msg = m /\ bizKnown[m] /\ c = Callback(r, TRUE)
    <3> SUFFICES ASSUME NEW c \in receipts', c.msg = m, c.matched, c \notin receipts
                 PROVE  \E r \in B : r.msg = m /\ bizKnown[m] /\ c = Callback(r, TRUE)
      BY DEF Matched
    <3>1. PICK r \in B : \/ bizKnown[r.msg] /\ c = Callback(r, TRUE)
                         \/ ~bizKnown[r.msg] /\ c = Callback(r, FALSE)
      BY <1>3, Zenon
    <3>2. c = Callback(r, TRUE) /\ bizKnown[r.msg]
      BY <1>4, <3>1, Zenon
    <3> QED  BY <1>4, <3>2
  <2>6. Matched(m)' # {} => delivery'[m] \in FinalStatus
    <3>1. CASE Matched(m) # {}
      BY <2>0, <2>3, <3>1 DEF RowInv
    <3>2. ASSUME Matched(m) = {}, NEW c \in Matched(m)' PROVE delivery'[m] \in FinalStatus
      <4>1. PICK r \in B : r.msg = m /\ bizKnown[m] /\ c = Callback(r, TRUE)
        BY <2>5, <3>2
      <4>2. Callback(r, TRUE) \notin receipts
        BY <1>4, <3>2, <4>1 DEF Matched
      <4>3. r.status \in new
        BY <4>1, <4>2 DEF NewlyMatched
      <4> QED  BY <2>3, <4>3 DEF FinalStatus, ReportStatus
    <3> QED  BY <3>1, <3>2
  <2>7. delivery'[m] \in ReportStatus => \E c \in Matched(m)' : c.status = delivery'[m]
    <3>1. CASE delivery'[m] = delivery[m]
      BY <2>0, <2>4, <3>1 DEF RowInv
    <3>2. CASE delivery'[m] \in new
      <4>1. PICK r \in B : r.msg = m /\ r.status = delivery'[m] /\ Callback(r, TRUE) \in receipts'
        BY <2>2, <3>2
      <4> QED  BY <1>4, <4>1 DEF Matched
    <3> QED  BY <2>3, <3>1, <3>2
  <2>8. ASSUME NEW c \in Matched(m)', c.source = "query" PROVE c.status = delivery'[m]
    <3>1. c \in Matched(m)
      BY <1>4, <2>5, <2>8
    <3>2. c.status = delivery[m] /\ delivery[m] \in FinalStatus
      BY <2>0, <2>8, <3>1 DEF RowInv
    <3> QED  BY <2>3, <3>2
  <2>9. ASSUME NEW c \in Matched(m)' PROVE [c EXCEPT !.matched = FALSE] \notin receipts'
    <3> DEFINE e == [c EXCEPT !.matched = FALSE]
    <3>1. /\ c \in Receipt /\ c.msg = m
          /\ e.msg = m /\ e.source = c.source /\ e.matched = FALSE
      BY <1>5, <2>9 DEF Matched, TypeOK, Receipt
    <3>2. e \in receipts => e \notin receipts'
      <4>1. CASE c \in Matched(m)
        BY <2>0, <4>1 DEF RowInv
      <4>2. CASE \E r \in B : r.msg = m /\ bizKnown[m] /\ c = Callback(r, TRUE)
        <5>1. PICK r \in B : r.msg = m /\ bizKnown[m] /\ c = Callback(r, TRUE)
          BY <4>2
        <5>2. e = Callback(r, FALSE)
          BY <1>4, <3>1, <5>1, Unmatched DEF Callback
        <5> QED  BY <1>6, <5>1, <5>2
      <4> QED  BY <2>5, <4>1, <4>2
    <3>3. e \notin receipts => e \notin receipts'
      <4> SUFFICES ASSUME e \notin receipts, e \in receipts' PROVE FALSE
        OBVIOUS
      <4> HIDE DEF e
      <4>1. ~e.matched
        BY <3>1
      <4>2. PICK r \in B : ~bizKnown[r.msg] /\ e = Callback(r, FALSE)
        BY <1>3, <1>4, <4>1
      <4>3. e.source = "callback" /\ r.msg = m /\ ~bizKnown[m]
        BY <1>4, <3>1, <4>2
      <4>4. c \in Matched(m)
        BY <2>5, <4>3
      <4> QED  BY <2>0, <3>1, <4>3, <4>4 DEF RowInv, Matched
    <3> QED  BY <3>2, <3>3
  <2>10. \A c \in receipts' : c.msg = m /\ c.source = "callback" /\ c.matched => bizKnown[m]
    BY <2>0, <2>5 DEF RowInv, Matched
  <2>11. \A c \in receipts' : c.msg = m /\ c.source = "query" => c.matched
    <3>1. \A c \in receipts' : c \in receipts \/ c.source = "callback"
      BY <1>3, <1>4
    <3> QED  BY <2>0, <3>1 DEF RowInv
  <2>12. Progress(m)
    BY <1>1, <2>3 DEF Progress, FinalStatus, ReportStatus
  <2>13. RowInv(m)'
    <3>1. /\ acceptance[m] \in {"absent", "pending"} => delivery'[m] = delivery[m]
          /\ acceptance[m] \in {"accepted", "unknown"} => delivery'[m] # "not_applicable"
          /\ delivery'[m] \in ReportStatus => acceptance[m] = "accepted"
          /\ delivery'[m] = "waiting" => delivery[m] = "waiting"
      BY <2>0, <2>3 DEF RowInv, ReportStatus
    <3> QED
      BY <1>1, <2>0, <2>6, <2>7, <2>8, <2>9, <2>10, <2>11, <3>1 DEF RowInv, Reconcilable
  <2> QED  BY <2>12, <2>13
<1> QED  BY <1>1, <1>5, <1>7 DEF Kept


\* Retention settles what still waits; it finds no job that could still be leased.
LEMMA RetainKeeps ==
    ASSUME DeliveryInv, NEW m \in Messages, Retain(m)
    PROVE  Kept /\ UNCHANGED rec
<1>0. /\ TypeOK /\ \A x \in Messages : RowInv(x)
      /\ acceptance \in [Messages -> AcceptanceStatus]
      /\ delivery \in [Messages -> DeliveryStatus]
      /\ attempt \in [Messages -> {"none", "started", "accepted", "rejected", "unknown"}]
      /\ job \in [Messages -> Job]
  BY InvParts, TypeFacts
<1>1. /\ UNCHANGED <<sends, bizKnown, receipts, reports, aged, rec>>
      /\ attempt' = IF attempt[m] = "started" THEN [attempt EXCEPT ![m] = "unknown"] ELSE attempt
      /\ delivery' = IF EndsWait(m) THEN [delivery EXCEPT ![m] = "unknown_final"] ELSE delivery
      /\ KillJob(m)
  BY DEF Retain, Promise!Doubt
<1>2. /\ acceptance' \in [Messages -> AcceptanceStatus]
      /\ \A x \in Messages : x # m => acceptance'[x] = acceptance[x]
      /\ acceptance[m] = "pending" => acceptance'[m] = "unknown"
      /\ acceptance[m] # "pending" => acceptance'[m] = acceptance[m]
  <2>1. CASE acceptance[m] = "pending"
    <3>1. acceptance' = [x \in Messages |-> IF x \in {m} THEN "unknown" ELSE acceptance[x]]
      BY <2>1 DEF Retain, Promise!Doubt
    <3> QED  BY <1>0, <2>1, <3>1 DEF AcceptanceStatus
  <2>2. CASE acceptance[m] # "pending"
    BY <1>0, <2>2 DEF Retain
  <2> QED  BY <2>1, <2>2
<1>3. /\ job' \in [Messages -> Job]
      /\ \A x \in Messages : x # m => job'[x] = job[x]
      /\ job'[m] = job[m] \/ (job[m].state \in {"pending", "leased"} /\ job'[m].state = "dead")
  BY <1>0, <1>1, UnleasedType DEF KillJob
<1>4. TypeOK'
  BY <1>0, <1>1, <1>2, <1>3 DEF TypeOK, DeliveryStatus, FinalStatus
<1>5. ASSUME NEW x \in Messages, x # m PROVE RowInv(x)' /\ Progress(x)
  BY <1>0, <1>1, <1>2, <1>3, <1>4, <1>5, RowKept
<1>6. RowInv(m)' /\ Progress(m)
  <2>1. CASE ~EndsWait(m)
    BY <1>0, <1>1, <1>2, <1>3, <1>4, <2>1, RowKept DEF EndsWait, Reconcilable
  <2>2. CASE EndsWait(m)
    <3>1. delivery'[m] = "unknown_final" /\ Matched(m)' = Matched(m)
      BY <1>0, <1>1, <2>2 DEF Matched
    <3>2. /\ RowInv(m) /\ Matched(m) = {} /\ delivery[m] \notin FinalStatus
          /\ acceptance'[m] \notin {"absent", "pending"}
      BY <1>0, <1>2, <2>2 DEF RowInv, EndsWait, FinalStatus
    <3>3. Progress(m)
      BY <1>1, <1>2, <1>3, <3>1, <3>2 DEF Progress
    <3>4. "unknown_final" \in FinalStatus /\ "unknown_final" \notin ReportStatus
      BY DEF FinalStatus, ReportStatus
    <3> QED
      BY <1>0, <1>1, <1>2, <1>3, <3>1, <3>2, <3>3, <3>4 DEF RowInv, Reconcilable
  <2> QED  BY <2>1, <2>2
<1> QED  BY <1>1, <1>4, <1>5, <1>6 DEF Kept

\* A reconciler leases, reads, closes or gives up; what it has read stays true.
LEMMA ReconcilerKeeps ==
    ASSUME DeliveryInv, NEW r \in Reconcilers, ReconcilerStep(r) \/ Crash(r)
    PROVE  Kept /\ \A x \in Reconcilers : ReadInv(x)'
<1>0. /\ TypeOK /\ (\A m \in Messages : RowInv(m)) /\ (\A x \in Reconcilers : ReadInv(x))
      /\ acceptance \in [Messages -> AcceptanceStatus]
      /\ delivery \in [Messages -> DeliveryStatus]
      /\ job \in [Messages -> Job]
      /\ rec \in [Reconcilers -> Reconciler]
      /\ rec[r] \in Reconciler /\ rec[r].leases \subseteq Messages
  BY InvParts, TypeFacts DEF Reconciler
<1>r. /\ ReadInv(r)
      /\ rec[r].pc \in {"read", "queried"} =>
            /\ rec[r].msg \in Messages /\ rec[r].msg \in rec[r].leases
            /\ acceptance[rec[r].msg] \notin {"absent", "pending"}
  <2>1. ReadInv(r)
    BY InvParts
  <2> QED  BY <1>0, <2>1 DEF ReadInv
<1>1. ASSUME Kept, ReadInv(r)', \A x \in Reconcilers : x # r => rec'[x] = rec[x]
      PROVE  Kept /\ \A x \in Reconcilers : ReadInv(x)'
  <2>1. ASSUME NEW x \in Reconcilers, x # r PROVE ReadInv(x)'
    BY <1>0, <1>1, <2>1, ReadKept DEF Kept
  <2> QED  BY <1>1, <2>1
<1>2. ASSUME rec' \in [Reconcilers -> Reconciler],
             \A x \in Reconcilers : x # r => rec'[x] = rec[x],
             rec'[r].pc \in {"absent", "idle", "batch"},
             rec'[r].leases \subseteq rec[r].leases,
             Kept
      PROVE  Kept /\ \A x \in Reconcilers : ReadInv(x)'
  <2>1. ReadInv(r)'
    BY <1>0, <1>2 DEF ReadInv, Kept, Progress
  <2> QED  BY <1>1, <1>2, <2>1
<1>3. ASSUME NEW S \in SUBSET Messages, LeaseReconciliation(r, S)
      PROVE  Kept /\ \A x \in Reconcilers : ReadInv(x)'
  <2> DEFINE next == [Idle EXCEPT !.pc = "batch", !.leases = S]
  <2>1. next \in Reconciler /\ next.pc = "batch" /\ next.leases = S
    BY DEF Idle, Reconciler
  <2>2. rec' = [rec EXCEPT ![r] = next]
    BY <1>3 DEF LeaseReconciliation
  <2> HIDE DEF next
  <2>3. /\ rec' \in [Reconcilers -> Reconciler] /\ rec'[r].pc = "batch" /\ rec'[r].leases = S
        /\ \A x \in Reconcilers : x # r => rec'[x] = rec[x]
    BY <1>0, <2>1, <2>2
  <2>4. /\ job' \in [Messages -> Job]
        /\ \A m \in S : /\ acceptance[m] \in {"accepted", "unknown"}
                        /\ job[m].state \in {"pending", "leased"} /\ job'[m].state = "leased"
        /\ \A m \in Messages : m \notin S => job'[m] = job[m]
    BY <1>0, <1>3 DEF LeaseReconciliation, Leasable, Job
  <2>5. TypeOK'
    BY <1>0, <1>3, <2>3, <2>4 DEF TypeOK, LeaseReconciliation, sending
  <2>6. Kept
    <3>1. ASSUME NEW m \in Messages PROVE RowInv(m)' /\ Progress(m)
      <4>1. job[m].state = "none" <=> job'[m].state = "none"
        BY <2>4
      <4>2. job'[m].state \in {"pending", "leased"} \/ job'[m].state = job[m].state
        BY <2>4
      <4> QED  BY <1>0, <1>3, <2>5, <4>1, <4>2, RowKept DEF LeaseReconciliation, sending
    <3> QED  BY <2>5, <3>1 DEF Kept
  <2>7. ReadInv(r)'
    BY <1>3, <2>3, <2>4 DEF ReadInv, LeaseReconciliation, sending
  <2> QED  BY <1>1, <2>3, <2>6, <2>7
<1>4. ASSUME NEW m \in Messages, ReadMessage(r, m)
      PROVE  Kept /\ \A x \in Reconcilers : ReadInv(x)'
  <2> DEFINE seen == IF Reconcilable(acceptance[m], delivery[m]) THEN acceptance[m] ELSE "settled"
             next == [rec[r] EXCEPT !.pc = "read", !.msg = m, !.seen = seen]
  <2>1. m \in rec[r].leases /\ UNCHANGED <<sending, delivery, job, receipts, reports, aged>>
    BY <1>4 DEF ReadMessage
  <2>2. seen \in AcceptanceStatus \cup {"settled"}
    BY <1>0
  <2>3. /\ next \in Reconciler /\ next.pc = "read" /\ next.msg = m /\ next.seen = seen
        /\ next.leases = rec[r].leases
    <3> HIDE DEF seen
    <3> QED  BY <1>0, <2>2 DEF Reconciler
  <2>4. rec' = [rec EXCEPT ![r] = next]
    BY <1>0, <1>4 DEF ReadMessage
  <2> HIDE DEF next
  <2>5. rec' \in [Reconcilers -> Reconciler] /\ rec'[r] = next
        /\ \A x \in Reconcilers : x # r => rec'[x] = rec[x]
    BY <1>0, <2>3, <2>4
  <2>6. TypeOK'
    BY <1>0, <2>1, <2>5 DEF TypeOK, sending
  <2>7. Kept
    BY <2>1, <2>6, QuietKeeps
  <2>8. seen = "settled" => acceptance[m] = "rejected" \/ delivery[m] \in FinalStatus
    <3>1. acceptance[m] \notin {"absent", "pending"} /\ RowInv(m)
      BY <1>0, <2>1 DEF ReadInv
    <3>2. acceptance[m] \in AcceptanceStatus /\ delivery[m] \in DeliveryStatus
      BY <1>0
    <3> QED  BY <3>1, <3>2 DEF RowInv, Reconcilable, AcceptanceStatus, DeliveryStatus, FinalStatus
  <2>9. ReadInv(r)'
    <3> HIDE DEF seen
    <3> QED  BY <1>0, <2>1, <2>3, <2>5, <2>8 DEF ReadInv, sending
  <2> QED  BY <1>1, <2>5, <2>7, <2>9
<1>5. ASSUME NEW status \in ReportStatus, QueryDelivery(r, status)
      PROVE  Kept /\ \A x \in Reconcilers : ReadInv(x)'
  <2> DEFINE next == [rec[r] EXCEPT !.pc = "queried", !.result = status]
  <2>1. /\ rec[r].pc = "read" /\ rec[r].msg \in sends
        /\ UNCHANGED <<sending, delivery, job, receipts, reports, aged>>
    BY <1>5 DEF QueryDelivery
  <2>3. /\ next \in Reconciler /\ next.pc = "queried" /\ next.msg = rec[r].msg
        /\ next.result = status /\ next.leases = rec[r].leases
    BY <1>0 DEF Reconciler
  <2>4. rec' = [rec EXCEPT ![r] = next]
    BY <1>0, <1>5 DEF QueryDelivery
  <2> HIDE DEF next
  <2>5. rec' \in [Reconcilers -> Reconciler] /\ rec'[r] = next
        /\ \A x \in Reconcilers : x # r => rec'[x] = rec[x]
    BY <1>0, <2>3, <2>4
  <2>6. TypeOK'
    BY <1>0, <2>1, <2>5 DEF TypeOK, sending
  <2>7. Kept
    BY <2>1, <2>6, QuietKeeps
  <2>9. ReadInv(r)'
    BY <1>5, <1>r, <2>1, <2>3, <2>5 DEF ReadInv, sending
  <2> QED  BY <1>1, <2>5, <2>7, <2>9
<1>6. ASSUME AbortResult(r) \/ Crash(r)
      PROVE  Kept /\ \A x \in Reconcilers : ReadInv(x)'
  <2>1. /\ rec' = [rec EXCEPT ![r] = Idle]
        /\ UNCHANGED <<sending, delivery, job, receipts, reports, aged>>
    BY <1>6 DEF AbortResult, Crash
  <2>2. /\ rec' \in [Reconcilers -> Reconciler] /\ rec'[r].pc = "idle" /\ rec'[r].leases = {}
        /\ \A x \in Reconcilers : x # r => rec'[x] = rec[x]
    BY <1>0, <2>1, ReconcilerTypes
  <2>3. TypeOK'
    BY <1>0, <2>1, <2>2 DEF TypeOK, sending
  <2>4. Kept
    BY <2>1, <2>3, QuietKeeps
  <2> QED  BY <1>2, <2>2, <2>4
<1>7. ASSUME CloseSettled(r) \/ Defer(r)
      PROVE  Kept /\ \A x \in Reconcilers : ReadInv(x)'
  <2>0. rec[r].pc = "read"
    BY <1>7 DEF CloseSettled, Defer
  <2>1. PICK m \in Messages : m = rec[r].msg
    BY <1>r, <2>0
  <2>2. /\ NextJob(r) /\ UNCHANGED <<sending, delivery, receipts, reports, aged>>
        /\ \/ TryCloseJob(r, m, "pending")
           \/ TryCloseJob(r, m, "succeeded") /\ ~Reconcilable(acceptance[m], delivery[m])
    BY <1>r, <1>7, <2>1 DEF CloseSettled, Defer, ReadInv, Reconcilable, FinalStatus
  <2>3. /\ job' \in [Messages -> Job]
        /\ \A x \in Messages : x # m => job'[x] = job[x]
        /\ \/ job'[m] = job[m]
           \/ job[m].state = "leased" /\ job'[m].state = "pending"
           \/ /\ job[m].state = "leased" /\ job'[m].state = "succeeded"
              /\ ~Reconcilable(acceptance[m], delivery[m])
    BY <1>0, <2>1, <2>2, CloseJobType
  <2>4. /\ rec' \in [Reconcilers -> Reconciler]
        /\ \A x \in Reconcilers : x # r => rec'[x] = rec[x]
        /\ rec'[r].pc \in {"absent", "idle", "batch"} /\ rec'[r].leases \subseteq rec[r].leases
    BY <1>0, <2>2, NextJobFacts
  <2>5. TypeOK'
    BY <1>0, <2>2, <2>3, <2>4 DEF TypeOK, sending
  <2>6. ASSUME NEW x \in Messages PROVE RowInv(x)' /\ Progress(x)
    <3>1. job[x].state = "none" <=> job'[x].state = "none"
      BY <2>3
    <3>2. \/ job'[x].state \in {"pending", "leased"} \/ job'[x].state = job[x].state
          \/ ~Reconcilable(acceptance[x], delivery[x])
      BY <2>3
    <3> QED  BY <1>0, <2>2, <2>5, <3>1, <3>2, RowKept DEF sending
  <2> QED  BY <1>2, <2>4, <2>5, <2>6 DEF Kept
<1>8. ASSUME FinalizeUnknown(r)
      PROVE  Kept /\ \A x \in Reconcilers : ReadInv(x)'
  <2>0. PICK m \in Messages : m = rec[r].msg /\ acceptance[m] \notin {"absent", "pending"}
    BY <1>r, <1>8 DEF FinalizeUnknown
  <2>1. /\ rec[r].pc = "read" /\ NextJob(r)
        /\ IF HoldsLiveLease(r, m) /\ Open(delivery[m])
             THEN /\ delivery' = [delivery EXCEPT ![m] = "unknown_final"]
                  /\ job' = [job EXCEPT ![m] = Unleased("succeeded")]
             ELSE UNCHANGED <<delivery, job>>
        /\ UNCHANGED <<sending, receipts, reports, aged>>
    BY <1>8, <2>0 DEF FinalizeUnknown
  <2>2. m \in Messages /\ acceptance[m] \notin {"absent", "pending"}
    BY <2>0
  <2>3. /\ rec' \in [Reconcilers -> Reconciler]
        /\ \A x \in Reconcilers : x # r => rec'[x] = rec[x]
        /\ rec'[r].pc \in {"absent", "idle", "batch"} /\ rec'[r].leases \subseteq rec[r].leases
    BY <1>0, <2>1, NextJobFacts
  <2>4. CASE UNCHANGED <<delivery, job>>
    <3>1. TypeOK'
      BY <1>0, <2>1, <2>3, <2>4 DEF TypeOK, sending
    <3>2. Kept
      BY <2>1, <2>4, <3>1, QuietKeeps
    <3> QED  BY <1>2, <2>3, <3>2
  <2>5. CASE /\ HoldsLiveLease(r, m) /\ delivery[m] \notin FinalStatus
             /\ delivery' = [delivery EXCEPT ![m] = "unknown_final"]
             /\ job' = [job EXCEPT ![m] = Unleased("succeeded")]
    <3>1. /\ job' \in [Messages -> Job] /\ delivery' \in [Messages -> DeliveryStatus]
          /\ \A x \in Messages : x # m => job'[x] = job[x] /\ delivery'[x] = delivery[x]
          /\ delivery'[m] = "unknown_final" /\ job[m].state # "none" /\ job'[m].state = "succeeded"
      BY <1>0, <2>2, <2>5, UnleasedType DEF DeliveryStatus, FinalStatus, HoldsLiveLease, OwnsLease
    <3>2. TypeOK'
      BY <1>0, <2>1, <2>3, <3>1 DEF TypeOK, sending
    <3>3. ASSUME NEW x \in Messages, x # m PROVE RowInv(x)' /\ Progress(x)
      <4> QED  BY <1>0, <2>1, <3>1, <3>2, <3>3, RowKept DEF sending
    <3>4. RowInv(m)' /\ Progress(m)
      <4>1. Matched(m)' = Matched(m) /\ Matched(m) = {} /\ RowInv(m)
        BY <1>0, <2>1, <2>2, <2>5 DEF Matched, RowInv
      <4>2. "unknown_final" \notin ReportStatus /\ "unknown_final" \in FinalStatus
        BY DEF ReportStatus, FinalStatus
      <4>3. Progress(m)
        BY <2>1, <2>5, <3>1 DEF Progress, sending
      <4> QED  BY <2>1, <2>2, <3>1, <4>1, <4>2, <4>3 DEF RowInv, Reconcilable, sending
    <3>5. Kept
      <4> QED  BY <3>2, <3>3, <3>4 DEF Kept
    <3> QED  BY <1>2, <2>3, <3>5
  <2> QED  BY <2>1, <2>4, <2>5 DEF Open
<1>9. ASSUME RecordResult(r)
      PROVE  Kept /\ \A x \in Reconcilers : ReadInv(x)'
  <2>0. PICK m \in Messages, st \in {rec[r].result} : m = rec[r].msg /\ st = rec[r].result
    BY <1>r, <1>9 DEF RecordResult
  <2> DEFINE new == [msg |-> m, status |-> st, source |-> "query", matched |-> TRUE]
  <2>1. /\ rec[r].pc = "queried" /\ NextJob(r) /\ HoldsLiveLease(r, m)
        /\ receipts' = receipts \cup {new}
        /\ Reconcilable(acceptance[m], delivery[m])
        /\ acceptance' = [acceptance EXCEPT ![m] = "accepted"]
        /\ delivery' = [delivery EXCEPT ![m] = st]
        /\ job' = [job EXCEPT ![m] = Unleased("succeeded")]
        /\ UNCHANGED <<sends, attempt, bizKnown, reports, aged>>
    BY <1>9, <2>0 DEF RecordResult, CompleteQueryDelivery
  <2>2. m \in Messages /\ m \in sends /\ st \in ReportStatus
    BY <1>r, <2>0, <2>1 DEF ReadInv
  <2>3. /\ rec' \in [Reconcilers -> Reconciler]
        /\ \A x \in Reconcilers : x # r => rec'[x] = rec[x]
        /\ rec'[r].pc \in {"absent", "idle", "batch"} /\ rec'[r].leases \subseteq rec[r].leases
    BY <1>0, <2>1, NextJobFacts
  <2>4. /\ new \in Receipt /\ new.msg = m /\ new.status = st /\ new.source = "query"
        /\ new.matched = TRUE
    BY <2>2 DEF Receipt
  <2> HIDE DEF new
  <2>5. /\ job' \in [Messages -> Job] /\ delivery' \in [Messages -> DeliveryStatus]
        /\ acceptance' \in [Messages -> AcceptanceStatus]
        /\ \A x \in Messages : x # m => /\ job'[x] = job[x] /\ delivery'[x] = delivery[x]
                                        /\ acceptance'[x] = acceptance[x]
        /\ acceptance'[m] = "accepted" /\ delivery'[m] = st
        /\ job[m].state # "none" /\ job'[m].state = "succeeded"
    BY <1>0, <2>1, <2>2, UnleasedType
       DEF DeliveryStatus, FinalStatus, ReportStatus, AcceptanceStatus, HoldsLiveLease, OwnsLease
  <2>6. TypeOK'
    <3>1. receipts' \subseteq Receipt
      BY <1>0, <2>1, <2>4, TypeFacts
    <3> QED  BY <1>0, <2>1, <2>3, <2>5, <3>1 DEF TypeOK
  <2>7. ASSUME NEW x \in Messages, x # m PROVE RowInv(x)' /\ Progress(x)
    <3>1. \A c : c.msg = x => (c \in receipts' <=> c \in receipts)
      BY <2>1, <2>4, <2>7
    <3> QED  BY <1>0, <2>1, <2>5, <2>6, <2>7, <3>1, RowKept
  <2>8. RowInv(m)' /\ Progress(m)
    <3>0. /\ RowInv(m) /\ acceptance[m] \in {"accepted", "unknown"} /\ delivery[m] = "waiting"
          /\ delivery'[m] \in ReportStatus /\ delivery'[m] \in FinalStatus
          /\ delivery'[m] # "waiting" /\ delivery'[m] # "not_applicable"
      BY <1>0, <2>1, <2>2, <2>5 DEF Reconcilable, ReportStatus, FinalStatus
    <3>1. Matched(m) = {}
      BY <3>0 DEF RowInv, FinalStatus
    <3>2. Matched(m)' = {new}
      BY <2>1, <2>4, <3>1 DEF Matched
    <3>3. [new EXCEPT !.matched = FALSE] \notin receipts'
      <4> DEFINE e == [new EXCEPT !.matched = FALSE]
      <4>1. e.msg = m /\ e.source = "query" /\ e.matched = FALSE
        BY <2>4 DEF Receipt
      <4> HIDE DEF e
      <4>2. e \notin receipts
        BY <3>0, <4>1 DEF RowInv
      <4>3. e # new
        BY <2>4, <4>1
      <4> QED  BY <2>1, <4>2, <4>3 DEF e
    <3>4. Progress(m)
      BY <2>1, <2>5, <3>0 DEF Progress, FinalStatus
    <3>5. /\ \A c \in receipts' : c.msg = m /\ c.source = "callback" /\ c.matched => bizKnown[m]
          /\ \A c \in receipts' : c.msg = m /\ c.source = "query" => c.matched
      BY <2>1, <2>4, <3>0 DEF RowInv
    <3> QED
      BY <2>1, <2>2, <2>4, <2>5, <3>0, <3>2, <3>3, <3>4, <3>5 DEF RowInv, Reconcilable
  <2>9. Kept
    <3> QED  BY <2>6, <2>7, <2>8 DEF Kept
  <2> QED  BY <1>2, <2>3, <2>9
<1> QED  BY <1>3, <1>4, <1>5, <1>6, <1>7, <1>8, <1>9 DEF ReconcilerStep


LEMMA DeliveryStepKeeps ==
    ASSUME DeliveryInv, Next
    PROVE  Kept /\ \A r \in Reconcilers : ReadInv(r)'
<1>0. TypeOK /\ \A r \in Reconcilers : ReadInv(r)
  BY InvParts
<1>1. ASSUME Kept, UNCHANGED rec PROVE Kept /\ \A r \in Reconcilers : ReadInv(r)'
  BY <1>0, <1>1, ReadKept DEF Kept
<1>2. CASE PipelineStep
  BY <1>1, <1>2, PipelineKeeps
<1>3. CASE CallbackStep
  <2>1. ASSUME NEW m \in Messages, NEW status \in ReportStatus, PushReport(m, status)
        PROVE  Kept /\ UNCHANGED rec
    <3>1. TypeOK'
      BY <1>0, <2>1 DEF TypeOK, PushReport, Report, sending
    <3> QED  BY <2>1, <3>1, QuietKeeps DEF PushReport
  <2> QED  BY <1>1, <1>3, <2>1, IngestKeeps DEF CallbackStep
<1>4. ASSUME NEW m \in Messages, Retain(m) \/ Age(m) \/ ExpireLease(m)
      PROVE  Kept /\ UNCHANGED rec
  <2>1. CASE Retain(m)
    BY <2>1, RetainKeeps
  <2>2. CASE Age(m)
    <3>1. TypeOK'
      BY <1>0, <2>2 DEF TypeOK, Age, sending
    <3> QED  BY <2>2, <3>1, QuietKeeps DEF Age
  <2>3. CASE ExpireLease(m)
    <3>1. job' \in [Messages -> Job] /\ \A x \in Messages :
             job'[x] = job[x] \/ (job[x].state = "leased" /\ job'[x].state = "leased")
      BY <1>0, <2>3 DEF TypeOK, ExpireLease, Job
    <3>2. TypeOK'
      BY <1>0, <2>3, <3>1 DEF TypeOK, ExpireLease, sending
    <3> QED  BY <2>3, <3>1, <3>2, QuietKeeps DEF ExpireLease
  <2> QED  BY <1>4, <2>1, <2>2, <2>3
<1> QED  BY <1>1, <1>2, <1>3, <1>4, ReconcilerKeeps DEF Next

\* One case per action of SmsDelivery ...
LEMMA DeliveryInvStep ==
    ASSUME DeliveryInv, [Next]_vars
    PROVE  DeliveryInv' /\ \A m \in Messages : Progress(m)
<1>1. CASE Next
  <2>1. Kept /\ \A r \in Reconcilers : ReadInv(r)'
    BY <1>1, DeliveryStepKeeps
  <2>2. DeliveryInv'
    <3>1. /\ TypeOK'
          /\ (\A m \in Messages : RowInv(m))'
          /\ (\A r \in Reconcilers : ReadInv(r))'
      BY <2>1 DEF Kept
    <3> QED  BY <3>1, InvParts, PTL
  <2> QED  BY <2>1, <2>2 DEF Kept
<1>2. CASE UNCHANGED vars
  <2>1. UNCHANGED <<sending, delivery, job, receipts, rec>> /\ TypeOK'
    BY <1>2, InvParts DEF vars, sending, TypeOK
  <2>2. Kept
    BY <2>1, QuietKeeps
  <2>3. \A r \in Reconcilers : ReadInv(r)'
    BY <2>1, <2>2, InvParts, ReadKept DEF Kept
  <2>4. DeliveryInv'
    <3>1. /\ TypeOK'
          /\ (\A m \in Messages : RowInv(m))'
          /\ (\A r \in Reconcilers : ReadInv(r))'
      BY <2>2, <2>3 DEF Kept
    <3> QED  BY <3>1, InvParts, PTL
  <2> QED  BY <2>2, <2>4 DEF Kept
<1> QED  BY <1>1, <1>2

LEMMA InitDelivery ==
    ASSUME NEW crew, InitWith(crew)
    PROVE  DeliveryInv
<1>1. /\ acceptance = [m \in Messages |-> "absent"] /\ sends = {}
      /\ attempt = [m \in Messages |-> "none"]
      /\ delivery = [m \in Messages |-> "not_applicable"]
      /\ bizKnown = [m \in Messages |-> FALSE]
      /\ job = [m \in Messages |-> Unleased("none")]
      /\ receipts = {} /\ reports = {} /\ aged = {}
      /\ rec = [r \in Reconcilers |-> IF r \in crew THEN Idle ELSE Absent]
  BY DEF InitWith, Promise!Init
<1>2. TypeOK
  BY <1>1, UnleasedType, ReconcilerTypes DEF TypeOK, AcceptanceStatus, DeliveryStatus
<1>3. \A m \in Messages : RowInv(m)
  BY <1>1, UnleasedType DEF RowInv, Matched, Reconcilable, ReportStatus
<1>4. \A r \in Reconcilers : ReadInv(r)
  BY <1>1, ReconcilerTypes DEF ReadInv
<1> QED  BY <1>2, <1>3, <1>4, InvParts

-----------------------------------------------------------------------------
(* One-off requests                                                         *)

\* A message that waits has its job, so a request finds everything in place and
\* changes nothing that the delivery side reads.
LEMMA DeskLeavesDelivery ==
    ASSUME DeliveryInv, NEW q \in Requests, DeskStep(q),
           desk[q].pc = "asked" => desk[q].target \in Target
    PROVE  UNCHANGED vars
<1>1. CASE Schedule(q)
  <2> DEFINE m == desk[q].target.msg
  <2>1. /\ Eligible(desk[q].target) /\ EnsureReconcile({m}) /\ m \in Messages
        /\ UNCHANGED <<sending, delivery, receipts, reports, aged, rec>>
    BY <1>1 DEF Schedule, Target
  <2>2. job[m].state \in {"pending", "leased"}
    BY <2>1, InvParts DEF Eligible, RowInv
  <2>3. job' = job
    <3>1. job \in [Messages -> Job] /\ TypeOK
      BY InvParts, TypeFacts
    <3>2. job' = [x \in Messages |->
                    IF x \in {m} /\ job[x].state = "none" THEN Unleased("pending") ELSE job[x]]
      BY <2>1 DEF EnsureReconcile
    <3> HIDE DEF m
    <3>3. \A x \in Messages : ~(x \in {m} /\ job[x].state = "none")
      BY <2>2
    <3> QED  BY <3>1, <3>2, <3>3
  <2> QED  BY <2>1, <2>3 DEF vars
<1>2. CASE ~Schedule(q)
  BY <1>2 DEF DeskStep, View, Ask, Replay, RollBack, Repeat
<1> QED  BY <1>1, <1>2


\* What OneOffInv adds to DeliveryInv.
DeskInv == OneOffTypeOK /\ OriginIsOfTheMessage /\ ShownIsReadable /\ LedgerNamesAJob

LEMMA InitOneOff == OneOffInit => OneOffInv
<1> SUFFICES ASSUME OneOffInit PROVE OneOffInv
  OBVIOUS
<1>1. PICK crew \in Crews :
         /\ InitWith(crew.reconcilers)
         /\ desk = [q \in Requests |->
                      [pc |-> IF q \in crew.requests THEN "idle" ELSE "absent",
                       target |-> Nothing]]
  BY DEF OneOffInit
<1>2. DeliveryInv /\ \A m \in Messages : job[m].state = "none"
  BY <1>1, InitDelivery, UnleasedType DEF InitWith
<1>3. OneOffTypeOK
  BY <1>1 DEF OneOffInit, OneOffTypeOK, Origin, Desk
<1>4. \A q \in Requests : desk[q].pc \in {"idle", "absent"}
  BY <1>1
<1> QED
  BY <1>2, <1>3, <1>4
     DEF OneOffInit, OneOffInv, OriginIsOfTheMessage, ShownIsReadable, LedgerNamesAJob

\* While deliveries go on, a job gets the origin of its message and keeps it.
LEMMA DeliveryKeepsDesk ==
    ASSUME OneOffInv, DeliveryStep
    PROVE  OneOffInv'
<1>0. DeliveryInv /\ OneOffTypeOK /\ OriginIsOfTheMessage /\ ShownIsReadable /\ LedgerNamesAJob
  BY DEF OneOffInv
<1>1. DeliveryInv' /\ \A m \in Messages : Progress(m)
  BY <1>0, DeliveryInvStep DEF DeliveryStep
<1>2. /\ InheritOrigin /\ UNCHANGED <<tests, authorized, ledger, desk>>
      /\ \A m \in Messages : SendOrigin(m)' = SendOrigin(m)
      /\ \A m \in Messages : SendOrigin(m) \in Origin
  BY DEF DeliveryStep, SendOrigin, Origin
<1>3. /\ origin' \in [Messages -> Origin]
      /\ \A m \in Messages :
            /\ job[m].state # "none" => job'[m].state # "none" /\ origin'[m] = origin[m]
            /\ job'[m].state # "none" => origin'[m] = SendOrigin(m)
  BY <1>0, <1>1, <1>2 DEF InheritOrigin, Progress, OneOffTypeOK, OriginIsOfTheMessage
<1>4. OneOffTypeOK' /\ OriginIsOfTheMessage'
  BY <1>0, <1>2, <1>3 DEF OneOffTypeOK, OriginIsOfTheMessage
<1>5. ShownIsReadable'
  <2>1. ASSUME NEW q \in Requests, desk[q].pc = "shown"
        PROVE  job'[desk[q].target.msg].state # "none" /\ MayRead(q, desk[q].target.msg)'
    <3>1. desk[q].target.msg \in Messages
      BY <1>0, <2>1 DEF LedgerNamesAJob, Target
    <3>2. job[desk[q].target.msg].state # "none" /\ MayRead(q, desk[q].target.msg)
      BY <1>0, <2>1 DEF ShownIsReadable
    <3> QED  BY <1>2, <1>3, <3>1, <3>2 DEF MayRead
  <2> QED  BY <1>0, <1>2, <2>1 DEF ShownIsReadable
<1>6. LedgerNamesAJob'
  <2>1. ledger # Nothing => ledger.request.msg \in Messages
    BY <1>0 DEF OneOffTypeOK, Operation, Target
  <2> QED  BY <1>0, <1>2, <1>3, <2>1 DEF LedgerNamesAJob
<1> QED  BY <1>1, <1>4, <1>5, <1>6 DEF OneOffInv

\* The calls of administrators.
LEMMA DeskKeepsDesk ==
    ASSUME OneOffInv, NEW q \in Requests, DeskStep(q)
    PROVE  OneOffInv' /\ UNCHANGED vars
<1>0. DeliveryInv /\ OneOffTypeOK /\ OriginIsOfTheMessage /\ ShownIsReadable /\ LedgerNamesAJob
  BY DEF OneOffInv
<1>t. /\ desk \in [Requests -> Desk] /\ origin \in [Messages -> Origin]
      /\ desk[q].target \in Target \cup {Nothing}
      /\ ledger # Nothing => ledger \in Operation
      /\ acceptance \in [Messages -> AcceptanceStatus]
  BY <1>0, InvParts, TypeFacts DEF OneOffTypeOK, Desk
<1>v. UNCHANGED vars /\ DeliveryInv'
  <2>1. UNCHANGED vars
    BY <1>0, DeskLeavesDelivery DEF LedgerNamesAJob
  <2> QED  BY <1>0, <2>1, DeliveryInvStep
<1>1. UNCHANGED <<acceptance, delivery, job>>
  BY <1>v DEF vars, sending
<1>2. ASSUME NEW task \in Desk, desk' = [desk EXCEPT ![q] = task],
             task.pc \notin {"absent", "idle"}, task.target \in Target,
             UNCHANGED <<tests, origin, authorized, ledger>>,
             task.pc = "shown" => /\ job[task.target.msg].state # "none"
                                  /\ MayRead(q, task.target.msg)
      PROVE  OneOffInv'
  <2>1. /\ desk' \in [Requests -> Desk] /\ desk'[q] = task
        /\ \A x \in Requests : x # q => desk'[x] = desk[x]
    BY <1>t, <1>2
  <2>2. \A x \in Requests, m \in Messages : MayRead(x, m)' <=> MayRead(x, m)
    BY <1>2 DEF MayRead
  <2>3. OneOffTypeOK' /\ OriginIsOfTheMessage' /\ LedgerNamesAJob'
    BY <1>0, <1>1, <1>2, <2>1
       DEF OneOffTypeOK, OriginIsOfTheMessage, LedgerNamesAJob, SendOrigin
  <2>4. ASSUME NEW x \in Requests, desk'[x].pc = "shown"
        PROVE  /\ job[desk'[x].target.msg].state # "none"
               /\ MayRead(x, desk[x].target.msg)'
    <3>1. PICK m \in Messages : m = desk'[x].target.msg
      BY <1>0, <1>2, <2>1, <2>4 DEF LedgerNamesAJob, Target
    <3>2. job[m].state # "none" /\ MayRead(x, m)
      BY <1>0, <1>2, <2>1, <2>4, <3>1 DEF ShownIsReadable
    <3>3. MayRead(x, m)'
      BY <2>2, <3>2
    <3> QED  BY <3>1, <3>2, <3>3 DEF MayRead
  <2>5. ShownIsReadable'
    BY <1>0, <1>1, <1>2, <2>4 DEF ShownIsReadable
  <2> QED  BY <1>v, <2>3, <2>5 DEF OneOffInv
<1>3. ASSUME NEW pc \in {"viewed", "asked", "shown", "refused"}, Goto(q, pc),
             desk[q].pc \notin {"absent", "idle"}
      PROVE  /\ desk[q].target \in Target
             /\ [desk[q] EXCEPT !.pc = pc] \in Desk
             /\ [desk[q] EXCEPT !.pc = pc].pc = pc
             /\ [desk[q] EXCEPT !.pc = pc].target = desk[q].target
             /\ desk' = [desk EXCEPT ![q] = [desk[q] EXCEPT !.pc = pc]]
  <2>1. desk[q] \in Desk /\ desk[q].target \in Target
    BY <1>0, <1>t, <1>3 DEF LedgerNamesAJob
  <2> QED  BY <1>3, <2>1 DEF Goto, Desk
<1>4. ASSUME NEW m \in Messages, View(q, m) PROVE OneOffInv'
  <2> DEFINE task == [pc |-> "viewed", target |-> [msg |-> m, version |-> acceptance[m]]]
  <2>1. /\ task \in Desk /\ task.pc = "viewed" /\ task.target \in Target
        /\ desk' = [desk EXCEPT ![q] = task]
        /\ UNCHANGED <<tests, origin, authorized, ledger>>
    BY <1>4 DEF View, Reconcilable, Desk, Target
  <2> HIDE DEF task
  <2> QED  BY <1>2, <2>1
<1>5. ASSUME NEW pc \in {"viewed", "asked", "refused"}, Goto(q, pc),
             desk[q].pc \notin {"absent", "idle"},
             UNCHANGED <<tests, origin, authorized, ledger>>
      PROVE  OneOffInv'
  <2> DEFINE task == [desk[q] EXCEPT !.pc = pc]
  <2>1. /\ task \in Desk /\ task.pc = pc /\ task.target \in Target
        /\ desk' = [desk EXCEPT ![q] = task]
    BY <1>3, <1>5
  <2> HIDE DEF task
  <2> QED  BY <1>2, <1>5, <2>1
<1>6. ASSUME Replay(q) PROVE OneOffInv'
  <2>1. /\ desk[q].pc \in {"viewed", "asked"} /\ ledger # Nothing
        /\ UNCHANGED <<tests, origin, authorized, ledger>>
    BY <1>6 DEF Replay
  <2>2. CASE Goto(q, "refused")
    BY <1>5, <2>1, <2>2
  <2>3. CASE /\ Goto(q, "shown") /\ ledger.request = desk[q].target
             /\ MayBeShown(q, ledger.origin)
    <3> DEFINE task == [desk[q] EXCEPT !.pc = "shown"]
    <3>1. /\ task \in Desk /\ task.pc = "shown" /\ task.target = desk[q].target
          /\ desk[q].target \in Target
          /\ desk' = [desk EXCEPT ![q] = task]
      BY <1>3, <2>1, <2>3
    <3>2. PICK m \in Messages : m = desk[q].target.msg
      BY <3>1 DEF Target
    <3>3. /\ job[m].state # "none" /\ ledger.origin = SendOrigin(m)
          /\ ledger.origin = "none" => m \in authorized
          /\ origin[m] = SendOrigin(m)
      BY <1>0, <2>1, <2>3, <3>2 DEF LedgerNamesAJob, OriginIsOfTheMessage
    <3>4. MayRead(q, m)
      BY <2>3, <3>3 DEF MayRead, SendOrigin, MayBeShown
    <3> HIDE DEF task
    <3> QED  BY <1>2, <2>1, <3>1, <3>2, <3>3, <3>4
  <2> QED  BY <1>6, <2>2, <2>3 DEF Replay
<1>7. ASSUME Schedule(q) PROVE OneOffInv'
  <2>1. PICK m \in Messages : m = desk[q].target.msg /\ desk[q].target \in Target
    BY <1>0, <1>7 DEF Schedule, LedgerNamesAJob, Target
  <2>2. job[m].state \in {"pending", "leased"}
    BY <1>0, <1>7, <2>1, InvParts DEF Schedule, Eligible, RowInv
  <2>3. origin' = origin /\ origin[m] = SendOrigin(m)
    BY <1>0, <1>7, <2>1, <2>2 DEF Schedule, FirstOrigin, OriginIsOfTheMessage
  <2>4. /\ MayBeShown(q, origin[m])
        /\ authorized' = IF origin[m] = "none" THEN authorized \cup {m} ELSE authorized
        /\ ledger' = [request |-> desk[q].target, origin |-> origin[m]]
        /\ Goto(q, "shown") /\ UNCHANGED tests /\ desk[q].pc = "asked"
    BY <1>7, <2>1, <2>3 DEF Schedule
  <2> DEFINE task == [desk[q] EXCEPT !.pc = "shown"]
  <2>5. /\ task \in Desk /\ task.pc = "shown" /\ task.target = desk[q].target
        /\ desk' = [desk EXCEPT ![q] = task]
    BY <1>3, <2>4
  <2> HIDE DEF task
  <2>6. /\ desk' \in [Requests -> Desk] /\ desk'[q] = task
        /\ \A x \in Requests : x # q => desk'[x] = desk[x]
    BY <1>t, <2>5
  <2>7. /\ ledger' \in Operation /\ ledger'.request.msg = m /\ ledger'.origin = SendOrigin(m)
    BY <1>t, <2>1, <2>3, <2>4 DEF Operation
  <2>8. OneOffTypeOK' /\ OriginIsOfTheMessage'
    BY <1>0, <1>1, <2>3, <2>4, <2>6, <2>7 DEF OneOffTypeOK, OriginIsOfTheMessage, SendOrigin
  <2>9. /\ \A x \in Requests, y \in Messages : MayRead(x, y) => MayRead(x, y)'
        /\ MayRead(q, m)'
    BY <2>3, <2>4 DEF MayRead, SendOrigin, MayBeShown
  <2>10. ASSUME NEW x \in Requests, desk'[x].pc = "shown"
         PROVE  /\ job[desk'[x].target.msg].state # "none"
                /\ MayRead(x, desk[x].target.msg)'
    <3>1. CASE x = q
      BY <2>1, <2>2, <2>5, <2>6, <2>9, <3>1 DEF MayRead
    <3>2. CASE x # q
      <4>1. PICK y \in Messages : y = desk[x].target.msg
        BY <1>0, <2>6, <2>10, <3>2 DEF LedgerNamesAJob, Target
      <4>2. job[y].state # "none" /\ MayRead(x, y)
        BY <1>0, <2>6, <2>10, <3>2, <4>1 DEF ShownIsReadable
      <4>3. MayRead(x, y)'
        BY <2>9, <4>2
      <4> QED  BY <2>6, <3>2, <4>1, <4>2, <4>3 DEF MayRead
    <3> QED  BY <3>1, <3>2
  <2>11. ShownIsReadable'
    <3>1. authorized' \cap tests' = {}
      BY <1>0, <2>3, <2>4 DEF ShownIsReadable, SendOrigin
    <3> QED  BY <1>1, <2>10, <3>1 DEF ShownIsReadable
  <2>12. LedgerNamesAJob'
    <3>1. SendOrigin(m)' = SendOrigin(m)
      BY <2>4 DEF SendOrigin
    <3> QED
      BY <1>0, <1>1, <2>1, <2>2, <2>3, <2>4, <2>5, <2>6, <2>7, <3>1
         DEF LedgerNamesAJob, SendOrigin
  <2> QED  BY <1>v, <2>8, <2>11, <2>12 DEF OneOffInv
<1>8. CASE Ask(q) \/ RollBack(q) \/ Repeat(q)
  BY <1>5, <1>8 DEF Ask, RollBack, Repeat
<1> QED  BY <1>v, <1>4, <1>6, <1>7, <1>8 DEF DeskStep


-----------------------------------------------------------------------------
(* Theorems                                                                 *)

\* ... and one per action of SmsOneOff.
LEMMA OneOffStep ==
    ASSUME OneOffInv, [OneOffNext]_oneOffVars
    PROVE  OneOffInv' /\ [Next]_vars
<1>1. CASE DeliveryStep
  BY <1>1, DeliveryKeepsDesk DEF DeliveryStep
<1>2. ASSUME NEW q \in Requests, DeskStep(q) PROVE OneOffInv' /\ [Next]_vars
  BY <1>2, DeskKeepsDesk
<1>3. CASE UNCHANGED oneOffVars
  <2>1. UNCHANGED vars /\ UNCHANGED <<tests, origin, authorized, ledger, desk>>
    BY <1>3 DEF oneOffVars, oneOff
  <2>2. DeliveryInv'
    BY <2>1, DeliveryInvStep DEF OneOffInv
  <2>3. OneOffTypeOK' /\ OriginIsOfTheMessage' /\ ShownIsReadable' /\ LedgerNamesAJob'
    BY <2>1 DEF OneOffInv, vars, OneOffTypeOK, OriginIsOfTheMessage, SendOrigin, ShownIsReadable,
                MayRead, LedgerNamesAJob
  <2> QED  BY <2>1, <2>2, <2>3 DEF OneOffInv
<1> QED  BY <1>1, <1>2, <1>3 DEF OneOffNext

\* Whatever order callbacks, queries, retention and administrators' requests come in,
\* receipts explain deliveries, reports are about accepted messages, what waits keeps
\* its job, and an answer names a job that its administrator may read.
THEOREM DeliveryHolds == OneOffSpec => []OneOffInv
<1>1. OneOffInv /\ [OneOffNext]_oneOffVars => OneOffInv'
  BY OneOffStep
<1> QED  BY InitOneOff, <1>1, PTL DEF OneOffSpec

\* What administrators ask for changes nothing that callbacks, reconcilers and the
\* pipeline read: a one-off request is carried out by the reconcilers alone.
THEOREM RequestsOnlyLook == OneOffSpec => [][Next]_vars
<1>1. OneOffInv /\ [OneOffNext]_oneOffVars => [Next]_vars
  BY OneOffStep
<1> QED  BY <1>1, DeliveryHolds, PTL DEF OneOffSpec

LEMMA StepsNeverRegress ==
    ASSUME OneOffInv, [OneOffNext]_oneOffVars
    PROVE  \A m \in Messages :
              /\ acceptance[m] \in {"accepted", "rejected"} => acceptance'[m] = acceptance[m]
              /\ acceptance[m] = "unknown" => acceptance'[m] # "pending"
              /\ delivery[m] \in FinalStatus => delivery'[m] = delivery[m]
              /\ delivery[m] = "waiting" => delivery'[m] # "not_applicable"
<1>1. DeliveryInv /\ [Next]_vars
  BY OneOffStep DEF OneOffInv
<1>2. \A m \in Messages : Progress(m)
  BY <1>1, DeliveryInvStep
<1> QED  BY <1>2 DEF Progress

\* No late, repeated or contradictory answer, callback or query moves a status
\* backward: a decision stands, and the first final delivery status wins.
THEOREM DeliveryNeverRegresses == OneOffSpec => StatusesNeverRegress
<1> DEFINE Forward ==
      \A m \in Messages :
         /\ acceptance[m] \in {"accepted", "rejected"} => acceptance'[m] = acceptance[m]
         /\ acceptance[m] = "unknown" => acceptance'[m] # "pending"
         /\ delivery[m] \in FinalStatus => delivery'[m] = delivery[m]
         /\ delivery[m] = "waiting" => delivery'[m] # "not_applicable"
<1>1. OneOffInv /\ [OneOffNext]_oneOffVars => [Forward]_vars
  BY StepsNeverRegress
<1>2. [][Forward]_vars => StatusesNeverRegress
  BY DEF StatusesNeverRegress
<1> QED  BY <1>1, <1>2, DeliveryHolds, PTL DEF OneOffSpec

\* Step by step: what is decided here, SmsPromise may decide.
LEMMA StepsArePromised ==
    ASSUME OneOffInv, [OneOffNext]_oneOffVars
    PROVE  [Promise!Next]_(Promise!promise)
<1>0. /\ DeliveryInv /\ [Next]_vars
      /\ acceptance \in [Messages -> AcceptanceStatus]
      /\ \A r \in Reconcilers : ReadInv(r)
  BY OneOffStep, InvParts, TypeFacts DEF OneOffInv
<1>1. ASSUME UNCHANGED <<acceptance, sends>> PROVE [Promise!Next]_(Promise!promise)
  BY <1>1 DEF Promise!promise
<1>2. CASE PipelineStep
  <2>1. ASSUME NEW m \in Messages, Submit(m) \/ Send(m) \/ Accept(m) \/ Reject(m)
        PROVE  Promise!Next
    BY <2>1 DEF Submit, Send, Accept, Reject, Promise!Next
  <2>2. ASSUME NEW S \in SUBSET Messages, Doubt(S) PROVE Promise!Next
    BY <2>2 DEF Doubt, Promise!Next
  <2> QED  BY <1>2, <2>1, <2>2 DEF PipelineStep
<1>3. CASE CallbackStep
  BY <1>1, <1>3 DEF CallbackStep, PushReport, Ingest, sending
<1>4. ASSUME NEW r \in Reconcilers, ReconcilerStep(r) \/ Crash(r)
      PROVE  [Promise!Next]_(Promise!promise)
  <2>1. CASE ~RecordResult(r)
    BY <1>1, <1>4, <2>1
       DEF ReconcilerStep, Crash, LeaseReconciliation, ReadMessage, CloseSettled, Defer,
           FinalizeUnknown, QueryDelivery, AbortResult, sending
  <2>2. CASE RecordResult(r)
    <3>1. /\ rec[r].pc = "queried" /\ UNCHANGED sends
          /\ acceptance' = [acceptance EXCEPT ![rec[r].msg] = "accepted"]
          /\ acceptance[rec[r].msg] \in {"accepted", "unknown"}
      BY <2>2 DEF RecordResult, CompleteQueryDelivery, Reconcilable
    <3>2. rec[r].msg \in sends /\ rec[r].msg \in Messages
      BY <1>0, <3>1, InvParts, TypeFacts DEF ReadInv
    <3>3. CASE acceptance[rec[r].msg] = "accepted"
      BY <1>0, <1>1, <3>1, <3>3
    <3>4. CASE acceptance[rec[r].msg] = "unknown"
      <4>1. Promise!Accept(rec[r].msg)
        BY <3>1, <3>2, <3>4 DEF Promise!Accept, Promise!Undecided
      <4> QED  BY <3>2, <4>1 DEF Promise!Next
    <3> QED  BY <3>1, <3>3, <3>4
  <2> QED  BY <2>1, <2>2
<1>5. ASSUME NEW m \in Messages, Retain(m) \/ Age(m) \/ ExpireLease(m)
      PROVE  [Promise!Next]_(Promise!promise)
  <2>1. CASE Retain(m) /\ acceptance[m] = "pending"
    <3>1. Promise!Doubt({m}) /\ {m} \in SUBSET Messages
      BY <2>1 DEF Retain
    <3> QED  BY <3>1 DEF Promise!Next
  <2>2. CASE ~(Retain(m) /\ acceptance[m] = "pending")
    BY <1>1, <1>5, <2>2 DEF Retain, Age, ExpireLease, sending
  <2> QED  BY <2>1, <2>2
<1>6. CASE UNCHANGED vars
  BY <1>1, <1>6 DEF vars, sending
<1> QED  BY <1>0, <1>2, <1>3, <1>4, <1>5, <1>6 DEF Next

\* The delivery side decides an acceptance that was lost only as SmsPromise allows:
\* for an SMS that the provider does send.
THEOREM DeliveryKeepsPromise == OneOffSpec => ImplementsPromise
<1>1. OneOffInit => Promise!Init
  BY DEF OneOffInit, InitWith
<1>2. OneOffInv /\ [OneOffNext]_oneOffVars => [Promise!Next]_(Promise!promise)
  BY StepsArePromised
<1> QED  BY <1>1, <1>2, DeliveryHolds, PTL DEF OneOffSpec, ImplementsPromise, Promise!Spec

=============================================================================
