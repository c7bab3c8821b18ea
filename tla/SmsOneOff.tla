----------------------------- MODULE SmsOneOff -----------------------------
(***************************************************************************)
(* ReconcileAdminService: an administrator asks for the reconciliation of   *)
(* one message while SmsDelivery goes on.  Nothing is executed here: the    *)
(* administrator gets the message's reconcile job, which only a reconciler  *)
(* runs, and may read that job from then on.                                *)
(*                                                                          *)
(* A job has an origin.  The one of a test send is shown only to those who  *)
(* may send tests; a job without origin is shown once an administrator's    *)
(* request has been entered for it.                                         *)
(***************************************************************************)
EXTENDS SmsDelivery

CONSTANTS
    Requests,   \* the calls of administrators, all under one idempotency key
    Testers,    \* those of an administrator with the permission "sms.test"
    Crews,      \* bound: which reconcilers and requests take part
    Nothing

ASSUME OneOffConstants ==
    /\ Testers \subseteq Requests
    /\ \A c \in Crews : c.reconcilers \subseteq Reconcilers /\ c.requests \subseteq Requests

VARIABLES
    tests,      \* the messages that an administrator sent as a test
    origin,     \* send_job.origin_action of the reconcile jobs
    authorized, \* messages whose job has an admin_job_authorization row
    ledger,     \* the admin_operation row of the key
    desk        \* what each request holds in memory

oneOff     == <<tests, origin, authorized, ledger, desk>>
oneOffVars == <<vars, oneOff>>
-----------------------------------------------------------------------------
Origin == {"none", "sms.test", "receipt.reconcile"}

\* The expected version of a message that waits is told by its acceptance:
\* whatever increments the version while it waits changes that status.
Target == [msg : Messages, version : {"accepted", "unknown"}]

\* The snapshot names the job, here by its message, with its origin.
Operation == [request : Target, origin : Origin]

Desk == [pc : {"absent", "idle", "viewed", "asked", "shown", "refused"},
         target : Target \cup {Nothing}]

OneOffTypeOK ==
    /\ tests \subseteq Messages
    /\ origin \in [Messages -> Origin]
    /\ authorized \subseteq Messages
    /\ ledger \in Operation \cup {Nothing}
    /\ desk \in [Requests -> Desk]

OneOffInit ==
    /\ tests \in SUBSET Messages
    /\ origin = [m \in Messages |-> "none"]
    /\ authorized = {}
    /\ ledger = Nothing
    /\ \E crew \in Crews :
          /\ InitWith(crew.reconcilers)
          /\ desk = [q \in Requests |->
                       [pc |-> IF q \in crew.requests THEN "idle" ELSE "absent",
                        target |-> Nothing]]
-----------------------------------------------------------------------------
SendOrigin(m) == IF m \in tests THEN "sms.test" ELSE "none"

\* A job that the send pipeline creates inherits the origin of the send job.
InheritOrigin ==
    origin' = [m \in Messages |->
                 IF job[m].state = "none" /\ job'[m].state # "none" THEN SendOrigin(m)
                                                                    ELSE origin[m]]

\* Mutation: whoever ensures the job becomes its origin.
RelabelOrigin(m) == origin' = [origin EXCEPT ![m] = "receipt.reconcile"]

\* The first creator of a job decides its origin for good.
FirstOrigin(m) ==
    origin' = IF job[m].state = "none" THEN [origin EXCEPT ![m] = "receipt.reconcile"]
                                       ELSE origin

Goto(q, pc) == desk' = [desk EXCEPT ![q].pc = pc]

\* authorizeReturnedJob.
MayBeShown(q, o) == o = "sms.test" => q \in Testers

\* An administrator sees a message that waits.  What is seen of any other has a
\* version under which the request can only be refused.
View(q, m) ==
    /\ desk[q].pc = "idle"
    /\ Reconcilable(acceptance[m], delivery[m])
    /\ desk' = [desk EXCEPT ![q] =
                  [pc |-> "viewed", target |-> [msg |-> m, version |-> acceptance[m]]]]
    /\ UNCHANGED <<vars, tests, origin, authorized, ledger>>

\* findAdminOperationReplay has found nothing, target() the message.
Ask(q) ==
    /\ desk[q].pc = "viewed"
    /\ ledger = Nothing
    /\ Goto(q, "asked")
    /\ UNCHANGED <<vars, tests, origin, authorized, ledger>>

\* Mutation: only what the first look finds is authorized.
ReplayUnchecked(q) ==
    /\ desk[q].pc \in {"viewed", "asked"}
    /\ ledger # Nothing
    /\ Goto(q, IF /\ ledger.request = desk[q].target
                  /\ desk[q].pc = "viewed" => MayBeShown(q, ledger.origin)
               THEN "shown" ELSE "refused")
    /\ UNCHANGED <<vars, tests, origin, authorized, ledger>>

\* The key is found completed, by the first look or by the claim that follows;
\* another request under the same key is a conflict.
Replay(q) ==
    /\ desk[q].pc \in {"viewed", "asked"}
    /\ ledger # Nothing
    /\ Goto(q, IF ledger.request = desk[q].target /\ MayBeShown(q, ledger.origin)
               THEN "shown" ELSE "refused")
    /\ UNCHANGED <<vars, tests, origin, authorized, ledger>>

Eligible(t) ==
    /\ Reconcilable(acceptance[t.msg], delivery[t.msg])
    /\ acceptance[t.msg] = t.version

\* The key is claimed; the transaction locks the message and ensures its job.
Schedule(q) ==
    LET m == desk[q].target.msg
    IN  /\ desk[q].pc = "asked"
        /\ ledger = Nothing
        /\ Eligible(desk[q].target)
        /\ EnsureReconcile({m})
        /\ FirstOrigin(m)
        /\ MayBeShown(q, origin'[m])
        /\ authorized' = IF origin'[m] = "none" THEN authorized \cup {m} ELSE authorized
        /\ ledger' = [request |-> desk[q].target, origin |-> origin'[m]]
        /\ Goto(q, "shown")
        /\ UNCHANGED <<sending, delivery, receipts, reports, aged, rec, tests>>

\* The message has changed or the job is not for this administrator: the
\* transaction rolls back, with its claim of the key.
RollBack(q) ==
    /\ desk[q].pc = "asked"
    /\ ledger = Nothing
    /\ \/ ~Eligible(desk[q].target)
       \/ ~MayBeShown(q, origin[desk[q].target.msg])
    /\ Goto(q, "refused")
    /\ UNCHANGED <<vars, tests, origin, authorized, ledger>>

\* The answer is lost, or refused, and the administrator sends the same again.
Repeat(q) ==
    /\ desk[q].pc \in {"shown", "refused"}
    /\ Goto(q, "viewed")
    /\ UNCHANGED <<vars, tests, origin, authorized, ledger>>

DeskStep(q) ==
    \/ \E m \in Messages : View(q, m)
    \/ Ask(q) \/ Replay(q) \/ Schedule(q) \/ RollBack(q) \/ Repeat(q)

DeliveryStep ==
    /\ Next
    /\ InheritOrigin
    /\ UNCHANGED <<tests, authorized, ledger, desk>>

OneOffNext ==
    \/ DeliveryStep
    \/ \E q \in Requests : DeskStep(q)

\* Nothing obliges an administrator to ask or to repeat.
OneOffSpec == OneOffInit /\ [][OneOffNext]_oneOffVars /\ Fairness
-----------------------------------------------------------------------------
(* Properties *)

\* operationJobAuthorization: who may read a job by its identifier.
MayRead(q, m) ==
    CASE origin[m] = "sms.test"          -> q \in Testers
      [] origin[m] = "receipt.reconcile" -> TRUE
      [] OTHER                           -> m \in authorized

\* A reconcile job keeps the origin of the message it is for, whoever asks for it
\* and however its dispatch ends: no request of an administrator ever finds a
\* message without its job, and so none becomes the origin of one.
OriginIsOfTheMessage ==
    \A m \in Messages : job[m].state # "none" => origin[m] = SendOrigin(m)

\* The answer to a request names a job that its administrator may read at any time
\* thereafter, also when two calls under one key overtake each other between the
\* first look at the key and its claim; the job of a test is never opened to others.
ShownIsReadable ==
    /\ \A q \in Requests :
          desk[q].pc = "shown" =>
              /\ job[desk[q].target.msg].state # "none"
              /\ MayRead(q, desk[q].target.msg)
    /\ authorized \cap tests = {}

\* What has been entered under the key names a job, with its origin, that anyone
\* who may see this origin may read.
LedgerNamesAJob ==
    /\ \A q \in Requests : desk[q].pc \notin {"absent", "idle"} => desk[q].target \in Target
    /\ ledger # Nothing =>
          LET m == ledger.request.msg
          IN  /\ job[m].state # "none"
              /\ ledger.origin = SendOrigin(m)
              /\ ledger.origin = "none" => m \in authorized

\* What holds of one-off requests next to the messages and jobs they are about.
OneOffInv ==
    DeliveryInv /\ OneOffTypeOK /\ OriginIsOfTheMessage /\ ShownIsReadable /\ LedgerNamesAJob
=============================================================================
