------------------------ MODULE SmsSystemAuthProofs ------------------------
(***************************************************************************)
(* Machine-checked proofs about the codes of the SYSTEM scope: what         *)
(* SmsSystemAuth keeps true for any requests, phones, consumers and         *)
(* concurrent reconcile() calls, and any number of attempts and reports.    *)
(***************************************************************************)
EXTENDS SmsSystemAuth, TLAPS

\* The three invariants of the module are inductive together.
SystemInv == ChallengeInv /\ OneActivePerPhone /\ ReportsAreBacked

-----------------------------------------------------------------------------
(* One request                                                              *)

\* What the invariants say of the rows of one request ...
Row(k) ==
    /\ challenge[k].consumedBy # NoKey =>
          /\ challenge[k].verified /\ ~challenge[k].invalidated
          /\ challenge[k].status = "accepted"
          /\ provider[k] = "sent"
    /\ challenge[k].status \in {"pending", "accepted"} =>
          acceptance[k] = challenge[k].status
    /\ challenge[k].status = "unknown" => acceptance[k] # "pending"
    /\ challenge[k].invalidated <=> challenge[k].status \in {"rejected", "unknown"}
    /\ acceptance[k] = "absent" <=> challenge[k].status = "absent"
    /\ acceptance[k] = "absent" => challenge[k] = NoChallenge /\ provider[k] = "none"
    /\ acceptance[k] \in {"absent", "pending"} => delivery[k] = "not_applicable"
    /\ call[k].pc \in {"new", "issuing"} => acceptance[k] = "absent"
    /\ call[k].pc \in {"issued", "asked"} =>
          acceptance[k] # "absent" /\ challenge[k].status # "accepted"
    /\ call[k].pc = "issued" => provider[k] = "none"
    /\ delivery[k] \in ReportStatus =>
          /\ acceptance[k] = "accepted"
          /\ \E c \in receipts : c.msg = k /\ c.status = delivery[k] /\ c.matched
    /\ acceptance[k] = "accepted" => provider[k] = "sent"
    /\ delivery[k] = "waiting" => acceptance[k] \in {"accepted", "unknown"}

\* ... of the requests for one phone ...
PhonesAgree == PhoneIsLocked /\ OneActivePerPhone

\* ... and of the reports under way.
ReportsAreSent ==
    /\ \A report \in reports : provider[report.msg] = "sent"
    /\ \A s \in Sweepers : \A report \in sweep[s].found : provider[report.msg] = "sent"

\* The invariants, request by request and phone by phone.
LEMMA InvParts ==
    SystemInv <=> /\ TypeOK /\ PhonesAgree /\ ReportsAreSent
                  /\ \A k \in Requests : Row(k)
<1>1. /\ ConsumedProofsAreGenuine /\ ChallengeFollowsMessage /\ RequestsAdvance
      /\ \A k \in Requests :
            /\ delivery[k] \in ReportStatus =>
                  /\ acceptance[k] = "accepted"
                  /\ \E c \in receipts : c.msg = k /\ c.status = delivery[k] /\ c.matched
            /\ acceptance[k] = "accepted" => provider[k] = "sent"
            /\ delivery[k] = "waiting" => acceptance[k] \in {"accepted", "unknown"}
      <=> \A k \in Requests : Row(k)
  BY DEF ConsumedProofsAreGenuine, ChallengeFollowsMessage, RequestsAdvance, Row
<1> QED  BY <1>1 DEF SystemInv, ChallengeInv, PhonesAgree, ReportsAreBacked, ReportsAreSent

\* No step but the answer to its own request moves a message back.
Forward(k) ==
    \/ call[k].pc = "asked" /\ call'[k].pc = "ended"
    \/ /\ delivery[k] \in FinalStatus => delivery'[k] = delivery[k]
       /\ delivery[k] = "waiting" => delivery'[k] # "not_applicable"
       /\ acceptance[k] = "accepted" => acceptance'[k] = "accepted"

\* A step that leaves the message and the challenge of a request as they are.
LEMMA RowKept ==
    ASSUME NEW k \in Requests, Row(k),
           acceptance'[k] = acceptance[k], delivery'[k] = delivery[k],
           challenge'[k] = challenge[k],
           provider[k] \in {"sent", "none"} => provider'[k] = provider[k],
           \/ call'[k].pc = call[k].pc
           \/ call'[k].pc = "ended"
           \/ call[k].pc = "new" /\ call'[k].pc = "issuing",
           \A c \in receipts : c.matched => c \in receipts'
    PROVE  Row(k)' /\ Forward(k)
<1>1. Forward(k)
  BY DEF Forward
<1>2. delivery'[k] \in ReportStatus =>
         /\ acceptance'[k] = "accepted"
         /\ \E c \in receipts' : c.msg = k /\ c.status = delivery'[k] /\ c.matched
  BY DEF Row
<1>3. challenge'[k].status # "absent" => acceptance'[k] # "absent"
  BY DEF Row
<1> QED  BY <1>1, <1>2, <1>3 DEF Row

\* A step that leaves all but the challenge of a request as it is, and its status too.
LEMMA RowUsed ==
    ASSUME NEW k \in Requests, Row(k),
           UNCHANGED <<acceptance, delivery, provider, call, receipts>>,
           challenge[k].status # "absent",
           challenge'[k].status = challenge[k].status,
           challenge'[k].invalidated = challenge[k].invalidated,
           challenge'[k].consumedBy # NoKey =>
              /\ challenge'[k].verified /\ ~challenge[k].invalidated
              /\ challenge[k].status = "accepted"
    PROVE  Row(k)' /\ Forward(k)
BY DEF Row, Forward

\* The phone stays locked while no code comes to life and no call begins to issue.
LEMMA PhonesKept ==
    ASSUME PhonesAgree,
           \A k \in Requests :
              /\ call'[k].phone = call[k].phone
              /\ call'[k].pc = "issuing" => /\ call[k].pc = "issuing"
                                            /\ call'[k].superseding = call[k].superseding
              /\ Active(k)' => Active(k)
    PROVE  PhonesAgree'
<1>1. PhoneIsLocked'
  BY DEF PhonesAgree, PhoneIsLocked
<1>2. OneActivePerPhone'
  BY DEF PhonesAgree, OneActivePerPhone
<1> QED  BY <1>1, <1>2 DEF PhonesAgree

-----------------------------------------------------------------------------
(* Types *)

LEMMA TypeFacts ==
    ASSUME TypeOK
    PROVE  /\ call \in [Requests -> Call]
           /\ provider \in [Requests -> {"none", "asked", "sent", "refused"}]
           /\ acceptance \in [Requests -> AcceptanceStatus]
           /\ delivery \in [Requests -> DeliveryStatus]
           /\ bizKnown \subseteq Requests
           /\ age \in [Requests -> {"new", "abandoned", "overdue"}]
           /\ challenge \in [Requests -> Challenge]
           /\ receipts \subseteq Receipt
           /\ reports \subseteq Report
           /\ sweep \in [Sweepers -> Sweep]
BY DEF TypeOK

\* A caller moves on; the lists it holds are its own.
LEMMA CallMoves ==
    ASSUME TypeOK, NEW k \in Requests, NEW S \in SUBSET Requests,
           NEW pc \in {"new", "issuing", "issued", "asked", "ended"},
           \/ call' = [call EXCEPT ![k].pc = pc, ![k].superseding = S]
           \/ call' = [call EXCEPT ![k].pc = pc] /\ S = call[k].superseding
    PROVE  /\ call' \in [Requests -> Call]
           /\ call'[k].pc = pc /\ call'[k].superseding = S
           /\ \A x \in Requests : /\ call'[x].phone = call[x].phone
                                  /\ x # k => call'[x] = call[x]
<1>1. call \in [Requests -> Call]
  BY DEF TypeOK
<1> QED  BY <1>1 DEF Call

LEMMA NoChallengeType ==
    /\ NoChallenge \in Challenge
    /\ [NoChallenge EXCEPT !.status = "pending"] \in Challenge
    /\ [NoChallenge EXCEPT !.status = "pending"].status = "pending"
    /\ [NoChallenge EXCEPT !.status = "pending"].invalidated = FALSE
    /\ [NoChallenge EXCEPT !.status = "pending"].consumedBy = NoKey
<1>1. 0 \in 0..MaxAttempts
  BY SystemAuthConstants
<1>2. NoChallenge \in Challenge
  BY <1>1 DEF NoChallenge, Challenge, AcceptanceStatus
<1>3. NoChallenge.invalidated = FALSE /\ NoChallenge.consumedBy = NoKey
  BY DEF NoChallenge
<1> QED  BY <1>2, <1>3 DEF Challenge, AcceptanceStatus

\* A challenge that is superseded, fenced or told the outcome.
LEMMA Refused ==
    ASSUME NEW c \in Challenge, NEW status \in AcceptanceStatus
    PROVE  /\ [c EXCEPT !.invalidated = TRUE, !.status = status] \in Challenge
           /\ [c EXCEPT !.status = status, !.invalidated = TRUE]
                 = [c EXCEPT !.invalidated = TRUE, !.status = status]
           /\ [c EXCEPT !.invalidated = TRUE, !.status = status].status = status
           /\ [c EXCEPT !.invalidated = TRUE, !.status = status].invalidated = TRUE
           /\ [c EXCEPT !.invalidated = TRUE, !.status = status].consumedBy = c.consumedBy
BY DEF Challenge

LEMMA RecordType ==
    ASSUME TypeOK, NEW report \in Report, NEW source \in {"callback", "query"},
           NEW matches \in BOOLEAN, Record(report, source, matches)
    PROVE  /\ acceptance' \in [Requests -> AcceptanceStatus]
           /\ delivery' \in [Requests -> DeliveryStatus]
           /\ receipts' \subseteq Receipt
<1>1. /\ acceptance \in [Requests -> AcceptanceStatus]
      /\ delivery \in [Requests -> DeliveryStatus]
      /\ receipts \subseteq Receipt
      /\ report.msg \in Requests /\ report.status \in ReportStatus
  BY DEF TypeOK, Report
<1>2. \A m \in BOOLEAN : [msg |-> report.msg, status |-> report.status,
                          source |-> source, matched |-> m] \in Receipt
  BY <1>1 DEF Receipt
<1>3. receipts' \subseteq Receipt
  BY <1>1, <1>2 DEF Record
<1>4. acceptance' \in [Requests -> AcceptanceStatus]
  BY <1>1 DEF Record, AcceptanceStatus
<1>5. delivery' \in [Requests -> DeliveryStatus]
  BY <1>1 DEF Record, DeliveryStatus, FinalStatus
<1> QED  BY <1>3, <1>4, <1>5

-----------------------------------------------------------------------------
(* The steps                                                                *)

\* What every step leaves behind.
Kept == /\ TypeOK' /\ PhonesAgree' /\ ReportsAreSent'
        /\ \A k \in Requests : Row(k)' /\ Forward(k)

LEMMA InitHolds == Init => SystemInv
<1> SUFFICES ASSUME Init PROVE SystemInv
  OBVIOUS
<1>1. TypeOK
  <2>1. call \in [Requests -> Call]
    BY DEF Init, Call
  <2>2. sweep \in [Sweepers -> Sweep]
    BY DEF Init, Sweep, Idle
  <2>3. challenge \in [Requests -> Challenge]
    BY NoChallengeType DEF Init
  <2> QED
    BY <2>1, <2>2, <2>3
       DEF Init, TypeOK, AcceptanceStatus, DeliveryStatus
<1>2. \A k \in Requests : Row(k)
  BY SystemAuthConstants DEF Init, Row, NoChallenge, ReportStatus
<1>3. \A k \in Requests : ~Active(k) /\ call[k].pc = "new"
  BY DEF Init, Active, NoChallenge
<1>4. PhonesAgree
  BY <1>3 DEF PhonesAgree, PhoneIsLocked, OneActivePerPhone
<1>5. ReportsAreSent
  BY DEF Init, ReportsAreSent, Idle
<1> QED  BY <1>1, <1>2, <1>4, <1>5, InvParts

\* The caller of issue() up to the answer, and the end of any call.
LEMMA BeginIssueKeeps ==
    ASSUME SystemInv, NEW k \in Requests, BeginIssue(k)
    PROVE  Kept
<1>0. TypeOK /\ PhonesAgree /\ ReportsAreSent /\ \A x \in Requests : Row(x)
  BY InvParts
<1> DEFINE S == {c \in Requests : Active(c)}
<1>1. /\ call[k].pc = "new" /\ S \in SUBSET Requests
      /\ call' = [call EXCEPT ![k].pc = "issuing", ![k].superseding = S]
      /\ UNCHANGED <<provider, acceptance, delivery, bizKnown, age, challenge, receipts,
                     reports, sweep>>
  BY DEF BeginIssue, message
<1>2. /\ call' \in [Requests -> Call]
      /\ call'[k].pc = "issuing" /\ call'[k].superseding = S
      /\ \A x \in Requests : /\ call'[x].phone = call[x].phone
                             /\ x # k => call'[x] = call[x]
  <2> HIDE DEF S
  <2> QED  BY <1>0, <1>1, CallMoves
<1>3. TypeOK' /\ ReportsAreSent'
  <2>1. TypeOK'
    BY <1>0, <1>1, <1>2 DEF TypeOK
  <2>2. ReportsAreSent'
    BY <1>0, <1>1 DEF ReportsAreSent
  <2> QED  BY <2>1, <2>2
<1>4. ASSUME NEW x \in Requests PROVE Row(x)' /\ Forward(x)
  BY <1>0, <1>1, <1>2, RowKept
<1>5. \A x \in Requests : Active(x)' <=> Active(x)
  BY <1>1 DEF Active
<1>6. PhoneIsLocked'
  <2>1. ASSUME NEW x \in Requests, call'[x].pc = "issuing",
               NEW other \in Requests, call'[other].phone = call'[x].phone
        PROVE  /\ call'[other].pc = "issuing" => other = x
               /\ Active(other)' => other \in call'[x].superseding
    <3>1. CASE x = k
      <4>1. call'[other].pc = "issuing" => other = x
        BY <1>1, <1>2, <2>1, <3>1 DEF BeginIssue
      <4>2. Active(other)' => other \in S
        BY <1>5
      <4> QED  BY <1>2, <3>1, <4>1, <4>2
    <3>2. CASE x # k
      <4>1. /\ call[x].pc = "issuing" /\ call[other].phone = call[x].phone
            /\ call'[x].superseding = call[x].superseding
        BY <1>2, <2>1, <3>2
      <4>2. other # k
        BY <4>1 DEF BeginIssue
      <4> QED
        BY <1>0, <1>2, <1>5, <2>1, <3>2, <4>1, <4>2 DEF PhonesAgree, PhoneIsLocked
    <3> QED  BY <3>1, <3>2
  <2> QED  BY <2>1 DEF PhoneIsLocked
<1>7. OneActivePerPhone'
  BY <1>0, <1>2, <1>5 DEF PhonesAgree, OneActivePerPhone
<1> QED  BY <1>3, <1>4, <1>6, <1>7 DEF Kept, PhonesAgree

\* The transaction that supersedes knows every code it has to supersede.
LEMMA CommitIssueKeeps ==
    ASSUME SystemInv, NEW k \in Requests, CommitIssue(k)
    PROVE  Kept
<1>0. TypeOK /\ PhonesAgree /\ ReportsAreSent /\ \A x \in Requests : Row(x)
  BY InvParts
<1>1. /\ call[k].pc = "issuing" /\ InvalidateAndCreate(k)
      /\ acceptance' = [acceptance EXCEPT ![k] = "pending"]
      /\ call' = [call EXCEPT ![k].pc = "issued", ![k].superseding = {}]
      /\ UNCHANGED <<provider, delivery, bizKnown, age, receipts, reports, sweep>>
  BY DEF CommitIssue
<1>2. /\ call' \in [Requests -> Call]
      /\ call'[k].pc = "issued"
      /\ \A x \in Requests : /\ call'[x].phone = call[x].phone
                             /\ x # k => call'[x] = call[x]
  <2> DEFINE S == {}
  <2>1. S \in SUBSET Requests /\ call' = [call EXCEPT ![k].pc = "issued", ![k].superseding = S]
    BY <1>1
  <2> HIDE DEF S
  <2> QED  BY <1>0, <2>1, CallMoves
<1>t. challenge \in [Requests -> Challenge] /\ acceptance \in [Requests -> AcceptanceStatus]
  BY <1>0, TypeFacts
<1> DEFINE fresh == [NoChallenge EXCEPT !.status = "pending"]
           old(c) == [challenge[c] EXCEPT !.invalidated = TRUE, !.status = "rejected"]
<1>3. /\ challenge'[k] = fresh
      /\ \A c \in Requests : c # k =>
            challenge'[c] = IF c \in call[k].superseding /\ Active(c) THEN old(c) ELSE challenge[c]
      /\ challenge' = [c \in Requests |-> challenge'[c]]
  BY <1>1 DEF InvalidateAndCreate
<1>4. /\ fresh \in Challenge /\ fresh.status = "pending" /\ fresh.invalidated = FALSE
      /\ fresh.consumedBy = NoKey
  BY NoChallengeType
<1>5. \A c \in Requests : /\ old(c) \in Challenge /\ old(c).status = "rejected"
                          /\ old(c).invalidated = TRUE /\ old(c).consumedBy = challenge[c].consumedBy
  BY <1>t, Refused DEF AcceptanceStatus
<1> HIDE DEF fresh, old
<1>6. TypeOK'
  <2>1. challenge' \in [Requests -> Challenge]
    BY <1>t, <1>3, <1>4, <1>5
  <2>2. acceptance' \in [Requests -> AcceptanceStatus]
    BY <1>t, <1>1 DEF AcceptanceStatus
  <2> QED  BY <1>0, <1>1, <1>2, <2>1, <2>2 DEF TypeOK
<1>7. ASSUME NEW x \in Requests PROVE Row(x)' /\ Forward(x)
  <2>1. CASE x = k
    BY <1>0, <1>t, <1>1, <1>2, <1>3, <1>4, <2>1 DEF Row, Forward, ReportStatus, FinalStatus
  <2>2. CASE x # k /\ challenge'[x] = challenge[x]
    <3>1. acceptance'[x] = acceptance[x] /\ call'[x] = call[x]
      BY <1>t, <1>1, <1>2, <2>2
    <3> QED  BY <1>0, <1>1, <2>2, <3>1, RowKept
  <2>3. CASE x # k /\ challenge'[x] # challenge[x]
    <3>1. acceptance'[x] = acceptance[x] /\ call'[x] = call[x]
      BY <1>t, <1>1, <1>2, <2>3
    <3>2. Active(x) /\ challenge'[x] = old(x)
      BY <1>3, <2>3
    <3>3. /\ challenge'[x].status = "rejected" /\ challenge'[x].invalidated = TRUE
          /\ challenge'[x].consumedBy = NoKey
          /\ challenge[x].status # "absent"
      BY <1>5, <3>2 DEF Active
    <3> QED  BY <1>0, <1>1, <3>1, <3>3 DEF Row, Forward
  <2> QED  BY <2>1, <2>2, <2>3
<1>8. \A x \in Requests : Active(x)' /\ x # k =>
         Active(x) /\ x \notin call[k].superseding
  BY <1>3, <1>5 DEF Active
<1>9. PhoneIsLocked'
  BY <1>0, <1>1, <1>2, <1>8 DEF PhonesAgree, PhoneIsLocked
<1>10. OneActivePerPhone'
  <2>1. \A x \in Requests : x # k /\ Active(x)' => call[x].phone # call[k].phone
    BY <1>0, <1>1, <1>8 DEF PhonesAgree, PhoneIsLocked
  <2> QED  BY <1>0, <1>2, <1>8, <2>1 DEF PhonesAgree, OneActivePerPhone
<1>11. ReportsAreSent'
  BY <1>0, <1>1 DEF ReportsAreSent
<1> QED  BY <1>6, <1>7, <1>9, <1>10, <1>11 DEF Kept, PhonesAgree

\* A step that touches no row of a request.
LEMMA QuietKeeps ==
    ASSUME SystemInv, TypeOK', ReportsAreSent',
           UNCHANGED <<acceptance, delivery, challenge, receipts>>,
           \A k \in Requests :
              /\ call'[k].phone = call[k].phone
              /\ call'[k] = call[k] \/ call'[k].pc = "ended"
              /\ provider[k] \in {"sent", "none"} => provider'[k] = provider[k]
    PROVE  Kept
<1>0. PhonesAgree /\ \A x \in Requests : Row(x)
  BY InvParts
<1>1. ASSUME NEW x \in Requests PROVE Row(x)' /\ Forward(x)
  BY <1>0, RowKept
<1>2. \A x \in Requests : Active(x)' <=> Active(x)
  BY DEF Active
<1>3. PhonesAgree'
  BY <1>0, <1>2, PhonesKept
<1> QED  BY <1>1, <1>3 DEF Kept

LEMMA CallKeeps ==
    ASSUME SystemInv, NEW k \in Requests, CallProvider(k) \/ EndCall(k)
    PROVE  Kept
<1>0. TypeOK /\ PhonesAgree /\ ReportsAreSent /\ \A x \in Requests : Row(x)
  BY InvParts
<1>1. CASE CallProvider(k)
  <2>1. /\ call[k].pc = "issued" /\ call' = [call EXCEPT ![k].pc = "asked"]
        /\ provider' = [provider EXCEPT ![k] = "asked"]
        /\ UNCHANGED <<acceptance, delivery, bizKnown, age, challenge, receipts, reports, sweep>>
    BY <1>1 DEF CallProvider, message
  <2>2. PICK S \in SUBSET Requests : S = call[k].superseding
    BY <1>0, TypeFacts DEF Call
  <2>3. /\ call' \in [Requests -> Call] /\ call'[k].pc = "asked"
        /\ \A x \in Requests : /\ call'[x].phone = call[x].phone
                               /\ x # k => call'[x] = call[x]
    BY <1>0, <2>1, <2>2, CallMoves
  <2>4. /\ provider' \in [Requests -> {"none", "asked", "sent", "refused"}]
        /\ provider'[k] = "asked" /\ provider[k] = "none"
        /\ \A x \in Requests : x # k => provider'[x] = provider[x]
    BY <1>0, <2>1, TypeFacts DEF Row
  <2>5. TypeOK'
    BY <1>0, <2>1, <2>3, <2>4 DEF TypeOK
  <2>6. ReportsAreSent'
    <3>1. \A x \in Requests : provider[x] = "sent" => provider'[x] = "sent"
      BY <2>4
    <3>2. /\ \A report \in reports : report.msg \in Requests
          /\ \A s \in Sweepers : \A report \in sweep[s].found : report.msg \in Requests
      BY <1>0, TypeFacts DEF Report, Sweep
    <3> QED  BY <1>0, <2>1, <3>1, <3>2 DEF ReportsAreSent
  <2>7. ASSUME NEW x \in Requests PROVE Row(x)' /\ Forward(x)
    <3>1. CASE x # k
      BY <1>0, <2>1, <2>3, <2>4, <3>1, RowKept
    <3>2. CASE x = k
      BY <1>0, <2>1, <2>3, <2>4, <3>2 DEF Row, Forward
    <3> QED  BY <3>1, <3>2
  <2>8. \A x \in Requests : Active(x)' <=> Active(x)
    BY <2>1 DEF Active
  <2>9. PhonesAgree'
    BY <1>0, <2>3, <2>8, PhonesKept
  <2> QED  BY <2>5, <2>6, <2>7, <2>9 DEF Kept
<1>2. CASE EndCall(k)
  <2>1. /\ call' = [call EXCEPT ![k].pc = "ended", ![k].superseding = {}]
        /\ UNCHANGED <<provider, acceptance, delivery, bizKnown, age, challenge, receipts,
                       reports, sweep>>
    BY <1>2 DEF EndCall, message
  <2>2. PICK S \in SUBSET Requests : S = {}
    OBVIOUS
  <2>3. /\ call' \in [Requests -> Call] /\ call'[k].pc = "ended"
        /\ \A x \in Requests : /\ call'[x].phone = call[x].phone
                               /\ x # k => call'[x] = call[x]
    BY <1>0, <2>1, <2>2, CallMoves
  <2>4. TypeOK'
    BY <1>0, <2>1, <2>3 DEF TypeOK
  <2>5. ReportsAreSent'
    BY <1>0, <2>1 DEF ReportsAreSent
  <2> QED  BY <2>1, <2>3, <2>4, <2>5, QuietKeeps
<1> QED  BY <1>1, <1>2

\* What the provider sent stays sent, for the reports that wait and those just found.
LEMMA SentStays ==
    ASSUME TypeOK, ReportsAreSent,
           \A k \in Requests : provider[k] = "sent" => provider'[k] = "sent"
    PROVE  /\ \A report \in reports : report.msg \in Requests /\ provider'[report.msg] = "sent"
           /\ \A s \in Sweepers : \A report \in sweep[s].found :
                 report.msg \in Requests /\ provider'[report.msg] = "sent"
<1>1. /\ \A report \in reports : report.msg \in Requests
      /\ \A s \in Sweepers : \A report \in sweep[s].found : report.msg \in Requests
  BY TypeFacts DEF Report, Sweep
<1> QED  BY <1>1 DEF ReportsAreSent

LEMMA ProviderKeeps ==
    ASSUME SystemInv, NEW k \in Requests, ProviderStep(k)
    PROVE  Kept
<1>0. TypeOK /\ PhonesAgree /\ ReportsAreSent /\ \A x \in Requests : Row(x)
  BY InvParts
<1>1. ASSUME NEW decision \in {"sent", "refused"}, ProviderDecides(k, decision)
      PROVE  Kept
  <2>1. /\ provider[k] = "asked" /\ provider' = [provider EXCEPT ![k] = decision]
        /\ UNCHANGED <<call, acceptance, delivery, bizKnown, age, challenge, receipts,
                       reports, sweep>>
    BY <1>1 DEF ProviderDecides, message
  <2>2. /\ provider' \in [Requests -> {"none", "asked", "sent", "refused"}]
        /\ \A x \in Requests : provider[x] \in {"sent", "none"} => provider'[x] = provider[x]
    BY <1>0, <2>1, TypeFacts
  <2>3. TypeOK'
    BY <1>0, <2>1, <2>2 DEF TypeOK
  <2>4. ReportsAreSent'
    BY <1>0, <2>1, <2>2, SentStays DEF ReportsAreSent
  <2> QED  BY <2>1, <2>2, <2>3, <2>4, QuietKeeps
<1>2. ASSUME NEW status \in ReportStatus, PushReport(k, status)
      PROVE  Kept
  <2>1. /\ provider[k] = "sent"
        /\ reports' = reports \cup {[msg |-> k, status |-> status]}
        /\ UNCHANGED <<call, provider, acceptance, delivery, bizKnown, age, challenge,
                       receipts, sweep>>
    BY <1>2 DEF PushReport, message
  <2>2. TypeOK'
    <3>1. [msg |-> k, status |-> status] \in Report
      BY DEF Report
    <3> QED  BY <1>0, <2>1, <3>1 DEF TypeOK
  <2>3. ReportsAreSent'
    BY <1>0, <2>1 DEF ReportsAreSent
  <2> QED  BY <2>1, <2>2, <2>3, QuietKeeps
<1> QED  BY <1>1, <1>2 DEF ProviderStep

\* The answer is the one step that may take back what others wrote meanwhile.
LEMMA RecordOutcomeKeeps ==
    ASSUME SystemInv, NEW k \in Requests, RecordOutcome(k)
    PROVE  Kept
<1>0. TypeOK /\ PhonesAgree /\ ReportsAreSent /\ \A x \in Requests : Row(x)
  BY InvParts
<1>1. PICK outcome \in Outcomes(k) :
         /\ call[k].pc = "asked"
         /\ MarkMessageAcceptance(k, outcome)
         /\ MarkChallengeDelivery(k, outcome)
         /\ call' = [call EXCEPT ![k].pc = "ended"]
         /\ UNCHANGED <<provider, age, receipts, reports, sweep>>
  BY DEF RecordOutcome
<1>2. /\ outcome \in {"accepted", "rejected", "unknown"}
      /\ outcome = "accepted" => provider[k] = "sent"
  BY DEF Outcomes
<1>t. /\ challenge \in [Requests -> Challenge] /\ acceptance \in [Requests -> AcceptanceStatus]
      /\ delivery \in [Requests -> DeliveryStatus]
  BY <1>0, TypeFacts
<1>3. PICK S \in SUBSET Requests : S = call[k].superseding
  BY <1>0, TypeFacts DEF Call
<1>4. /\ call' \in [Requests -> Call] /\ call'[k].pc = "ended"
      /\ \A x \in Requests : /\ call'[x].phone = call[x].phone
                             /\ x # k => call'[x] = call[x]
  BY <1>0, <1>1, <1>3, CallMoves
<1>5. /\ acceptance' \in [Requests -> AcceptanceStatus] /\ acceptance'[k] = outcome
      /\ delivery' \in [Requests -> DeliveryStatus]
      /\ delivery'[k] = IF outcome = "rejected" THEN "not_applicable" ELSE "waiting"
      /\ bizKnown' \subseteq Requests
      /\ \A x \in Requests : x # k => /\ acceptance'[x] = acceptance[x]
                                      /\ delivery'[x] = delivery[x]
  <2>1. bizKnown' \subseteq Requests
    BY <1>0, <1>1 DEF MarkMessageAcceptance, TypeOK
  <2> QED  BY <1>1, <1>2, <1>t, <2>1 DEF MarkMessageAcceptance, AcceptanceStatus, DeliveryStatus
<1>6. /\ challenge' \in [Requests -> Challenge]
      /\ \A x \in Requests : x # k => challenge'[x] = challenge[x]
      /\ challenge[k].status # "pending" => challenge'[k] = challenge[k]
      /\ challenge[k].status = "pending" =>
            /\ challenge'[k].status = outcome
            /\ challenge'[k].invalidated <=> challenge[k].invalidated \/ outcome # "accepted"
            /\ challenge'[k].consumedBy = challenge[k].consumedBy
  <2>1. CASE challenge[k].status # "pending"
    BY <1>1, <1>t, <2>1 DEF MarkChallengeDelivery
  <2>2. CASE challenge[k].status = "pending"
    <3>1. challenge' = [challenge EXCEPT ![k].status = outcome,
                                         ![k].invalidated = @ \/ outcome # "accepted"]
      BY <1>1, <2>2 DEF MarkChallengeDelivery
    <3> DEFINE told == [challenge[k] EXCEPT !.status = outcome,
                                            !.invalidated = @ \/ outcome # "accepted"]
    <3>2. challenge' = [challenge EXCEPT ![k] = told]
      BY <1>t, <3>1
    <3>3. challenge[k] \in Challenge /\ outcome \in AcceptanceStatus
      BY <1>2, <1>t DEF AcceptanceStatus
    <3>4. /\ told \in Challenge /\ told.status = outcome
          /\ told.invalidated <=> challenge[k].invalidated \/ outcome # "accepted"
          /\ told.consumedBy = challenge[k].consumedBy
      BY <3>3 DEF Challenge
    <3> HIDE DEF told
    <3> QED  BY <1>t, <2>2, <3>2, <3>4
  <2> QED  BY <2>1, <2>2
<1>7. TypeOK'
  BY <1>0, <1>1, <1>4, <1>5, <1>6 DEF TypeOK
<1>8. ReportsAreSent'
  BY <1>0, <1>1 DEF ReportsAreSent
<1>9. ASSUME NEW x \in Requests PROVE Row(x)' /\ Forward(x)
  <2>1. CASE x # k
    BY <1>0, <1>1, <1>4, <1>5, <1>6, <2>1, RowKept
  <2>2. CASE x = k
    <3>1. Forward(x)
      BY <1>1, <1>4, <2>2 DEF Forward
    <3>2. Row(k)
      BY <1>0
    <3>3. delivery'[k] \notin ReportStatus
      BY <1>5 DEF ReportStatus
    <3>4. CASE challenge[k].status = "pending"
      BY <1>1, <1>2, <1>4, <1>5, <1>6, <2>2, <3>1, <3>2, <3>3, <3>4 DEF Row
    <3>5. CASE challenge[k].status # "pending"
      BY <1>1, <1>2, <1>4, <1>5, <1>6, <2>2, <3>1, <3>2, <3>3, <3>5 DEF Row
    <3> QED  BY <3>4, <3>5
  <2> QED  BY <2>1, <2>2
<1>10. \A x \in Requests : Active(x)' => Active(x)
  BY <1>6 DEF Active
<1>11. PhonesAgree'
  BY <1>0, <1>1, <1>4, <1>10, PhonesKept
<1> QED  BY <1>7, <1>8, <1>9, <1>11 DEF Kept

\* A step of the user, or of the clock, on one challenge.
LEMMA ChallengeKeeps ==
    ASSUME SystemInv, NEW k \in Requests, NEW c \in Challenge,
           challenge' = [challenge EXCEPT ![k] = c],
           UNCHANGED <<call, provider, message, age, receipts, reports, sweep>>,
           challenge[k].status # "absent",
           c.status = challenge[k].status, c.invalidated = challenge[k].invalidated,
           c.consumedBy = NoKey => challenge[k].consumedBy = NoKey,
           c.consumedBy # NoKey => /\ c.verified /\ ~challenge[k].invalidated
                                   /\ challenge[k].status = "accepted"
    PROVE  Kept
<1>0. TypeOK /\ PhonesAgree /\ ReportsAreSent /\ \A x \in Requests : Row(x)
  BY InvParts
<1>1. /\ challenge' \in [Requests -> Challenge] /\ challenge'[k] = c
      /\ \A x \in Requests : x # k => challenge'[x] = challenge[x]
      /\ UNCHANGED <<acceptance, delivery, bizKnown>>
  BY <1>0, TypeFacts DEF message
<1>2. TypeOK'
  BY <1>0, <1>1 DEF TypeOK
<1>3. ReportsAreSent'
  BY <1>0 DEF ReportsAreSent
<1>4. ASSUME NEW x \in Requests PROVE Row(x)' /\ Forward(x)
  <2>1. CASE x # k
    BY <1>0, <1>1, <2>1, RowKept
  <2>2. CASE x = k
    BY <1>0, <1>1, <2>2, RowUsed
  <2> QED  BY <2>1, <2>2
<1>5. \A x \in Requests : Active(x)' => Active(x)
  BY <1>1 DEF Active
<1>6. PhonesAgree'
  BY <1>0, <1>5, PhonesKept
<1> QED  BY <1>2, <1>3, <1>4, <1>6 DEF Kept

LEMMA UserKeeps ==
    ASSUME SystemInv, NEW k \in Requests, UserStep(k) \/ Expire(k)
    PROVE  Kept
<1>0. TypeOK /\ challenge \in [Requests -> Challenge] /\ Row(k)
  BY InvParts, TypeFacts
<1>1. PICK old \in Challenge : old = challenge[k]
  BY <1>0
<1>2. CASE VerifyWrongCode(k)
  <2> DEFINE c == [old EXCEPT !.attempts = @ + 1]
  <2>1. /\ c \in Challenge /\ c.status = old.status /\ c.invalidated = old.invalidated
        /\ c.consumedBy = old.consumedBy /\ c.verified = old.verified
    <3>1. old.attempts + 1 \in 0..MaxAttempts
      BY <1>1, <1>2, SystemAuthConstants DEF VerifyWrongCode, Verifiable, Challenge
    <3> QED  BY <3>1 DEF Challenge
  <2>2. challenge' = [challenge EXCEPT ![k] = c] /\ Verifiable(k)
    BY <1>0, <1>1, <1>2 DEF VerifyWrongCode
  <2> HIDE DEF c
  <2>3. /\ challenge[k].status # "absent"
        /\ c.consumedBy # NoKey => /\ c.verified /\ ~challenge[k].invalidated
                                   /\ challenge[k].status = "accepted"
    BY <1>0, <1>1, <2>1, <2>2 DEF Verifiable, Row
  <2>4. UNCHANGED <<call, provider, message, age, receipts, reports, sweep>>
    BY <1>2 DEF VerifyWrongCode
  <2> QED  BY <1>1, <2>1, <2>2, <2>3, <2>4, ChallengeKeeps
<1>3. CASE Verify(k)
  <2> DEFINE c == [old EXCEPT !.verified = TRUE, !.expired = FALSE]
  <2>1. /\ c \in Challenge /\ c.status = old.status /\ c.invalidated = old.invalidated
        /\ c.consumedBy = old.consumedBy /\ c.verified = TRUE
    BY DEF Challenge
  <2>2. challenge' = [challenge EXCEPT ![k] = c] /\ Verifiable(k)
    BY <1>0, <1>1, <1>3 DEF Verify
  <2> HIDE DEF c
  <2> QED  BY <1>0, <1>1, <1>3, <2>1, <2>2, ChallengeKeeps DEF Verify, Verifiable, Row
<1>4. ASSUME NEW key \in ConsumptionKeys, ConsumeProof(k, key) PROVE Kept
  <2> DEFINE c == [old EXCEPT !.consumedBy = key]
  <2>1. /\ c \in Challenge /\ c.status = old.status /\ c.invalidated = old.invalidated
        /\ c.consumedBy # NoKey /\ c.verified = old.verified
    BY SystemAuthConstants DEF Challenge
  <2>2. challenge' = [challenge EXCEPT ![k] = c]
    BY <1>0, <1>1, <1>4 DEF ConsumeProof
  <2> HIDE DEF c
  <2> QED  BY <1>1, <1>4, <2>1, <2>2, ChallengeKeeps DEF ConsumeProof
<1>5. ASSUME NEW key \in ConsumptionKeys, VerifyAndConsume(k, key) PROVE Kept
  <2> DEFINE c == [old EXCEPT !.verified = TRUE, !.expired = FALSE, !.consumedBy = key]
  <2>1. /\ c \in Challenge /\ c.status = old.status /\ c.invalidated = old.invalidated
        /\ c.consumedBy # NoKey /\ c.verified = TRUE
    BY SystemAuthConstants DEF Challenge
  <2>2. challenge' = [challenge EXCEPT ![k] = c] /\ Verifiable(k)
    BY <1>0, <1>1, <1>5 DEF VerifyAndConsume
  <2> HIDE DEF c
  <2> QED  BY <1>1, <1>5, <2>1, <2>2, ChallengeKeeps DEF VerifyAndConsume, Verifiable
<1>6. CASE Expire(k)
  <2> DEFINE c == [old EXCEPT !.expired = TRUE]
  <2>1. /\ c \in Challenge /\ c.status = old.status /\ c.invalidated = old.invalidated
        /\ c.consumedBy = old.consumedBy /\ c.verified = old.verified
    BY DEF Challenge
  <2>2. challenge' = [challenge EXCEPT ![k] = c]
    BY <1>0, <1>1, <1>6 DEF Expire
  <2> HIDE DEF c
  <2>3. c.consumedBy # NoKey => /\ c.verified /\ ~challenge[k].invalidated
                                /\ challenge[k].status = "accepted"
    BY <1>0, <1>1, <2>1 DEF Row
  <2>4. /\ challenge[k].status # "absent"
        /\ UNCHANGED <<call, provider, message, age, receipts, reports, sweep>>
    BY <1>6 DEF Expire
  <2> QED  BY <1>1, <2>1, <2>2, <2>3, <2>4, ChallengeKeeps
<1> QED  BY <1>2, <1>3, <1>4, <1>5, <1>6 DEF UserStep

\* Recovery fences messages whose callers may still bring an answer.
LEMMA RecoverKeeps ==
    ASSUME SystemInv, NEW S \in SUBSET Requests, Recover(S)
    PROVE  Kept
<1>0. TypeOK /\ PhonesAgree /\ ReportsAreSent /\ \A x \in Requests : Row(x)
  BY InvParts
<1>t. /\ challenge \in [Requests -> Challenge] /\ acceptance \in [Requests -> AcceptanceStatus]
      /\ delivery \in [Requests -> DeliveryStatus]
  BY <1>0, TypeFacts
<1> DEFINE fenced(k) == [challenge[k] EXCEPT !.status = "unknown", !.invalidated = TRUE]
<1>1. /\ \A k \in S : acceptance[k] = "pending"
      /\ \A k \in Requests : acceptance'[k] = IF k \in S THEN "unknown" ELSE acceptance[k]
      /\ \A k \in Requests : delivery'[k] = IF k \in S THEN "waiting" ELSE delivery[k]
      /\ \A k \in Requests : challenge'[k] = IF k \in S /\ challenge[k].status = "pending"
                                               THEN fenced(k) ELSE challenge[k]
      /\ UNCHANGED <<call, provider, bizKnown, age, receipts, reports, sweep>>
  BY DEF Recover, Abandoned
<1>2. \A k \in Requests : /\ fenced(k) \in Challenge /\ fenced(k).status = "unknown"
                          /\ fenced(k).invalidated = TRUE
                          /\ fenced(k).consumedBy = challenge[k].consumedBy
  <2>1. ASSUME NEW old \in Challenge
        PROVE  LET new == [old EXCEPT !.status = "unknown", !.invalidated = TRUE]
               IN  /\ new \in Challenge /\ new.status = "unknown" /\ new.invalidated = TRUE
                   /\ new.consumedBy = old.consumedBy
    BY DEF Challenge, AcceptanceStatus
  <2> QED  BY <1>t, <2>1
<1> HIDE DEF fenced
<1>3. TypeOK'
  <2>1. challenge' \in [Requests -> Challenge]
    <3>1. challenge' = [k \in Requests |-> challenge'[k]]
      BY DEF Recover
    <3> QED  BY <1>t, <1>1, <1>2, <3>1
  <2>2. acceptance' \in [Requests -> AcceptanceStatus]
    BY <1>t DEF Recover, AcceptanceStatus
  <2>3. delivery' \in [Requests -> DeliveryStatus]
    BY <1>t DEF Recover, DeliveryStatus
  <2> QED  BY <1>0, <1>1, <2>1, <2>2, <2>3 DEF TypeOK
<1>4. ASSUME NEW x \in Requests PROVE Row(x)' /\ Forward(x)
  <2>0. Row(x)
    BY <1>0
  <2>1. CASE x \notin S
    <3>1. acceptance'[x] = acceptance[x] /\ delivery'[x] = delivery[x] /\ challenge'[x] = challenge[x]
      BY <1>1, <2>1
    <3> QED  BY <1>1, <2>0, <3>1, RowKept
  <2>2. CASE x \in S
    <3>1. /\ acceptance[x] = "pending" /\ delivery[x] = "not_applicable"
          /\ acceptance'[x] = "unknown" /\ delivery'[x] = "waiting"
          /\ challenge[x].consumedBy = NoKey
      BY <1>1, <2>0, <2>2 DEF Row
    <3>2. CASE challenge[x].status = "pending"
      <4>1. /\ challenge'[x].status = "unknown" /\ challenge'[x].invalidated = TRUE
            /\ challenge'[x].consumedBy = NoKey
        BY <1>1, <1>2, <2>2, <3>1, <3>2
      <4> QED  BY <1>1, <2>0, <3>1, <4>1 DEF Row, Forward, ReportStatus, FinalStatus
    <3>3. CASE challenge[x].status # "pending"
      <4>1. challenge'[x] = challenge[x]
        BY <1>1, <3>3
      <4> QED  BY <1>1, <2>0, <3>1, <3>3, <4>1 DEF Row, Forward, ReportStatus, FinalStatus
    <3> QED  BY <3>2, <3>3
  <2> QED  BY <2>1, <2>2
<1>5. \A x \in Requests : Active(x)' => Active(x)
  BY <1>1, <1>2 DEF Active
<1>6. PhonesAgree'
  BY <1>0, <1>1, <1>5, PhonesKept
<1>7. ReportsAreSent'
  BY <1>0, <1>1 DEF ReportsAreSent
<1> QED  BY <1>3, <1>4, <1>6, <1>7 DEF Kept

\* A report, pushed or asked for, settles what waits and never the opposite.
LEMMA RecordKeeps ==
    ASSUME SystemInv, NEW report \in Report, NEW source \in {"callback", "query"},
           NEW matches \in BOOLEAN, Record(report, source, matches),
           provider[report.msg] = "sent",
           UNCHANGED <<call, provider, bizKnown, age, challenge>>,
           reports' \subseteq reports,
           sweep' \in [Sweepers -> Sweep],
           \A s \in Sweepers : sweep'[s].found \subseteq sweep[s].found
    PROVE  Kept
<1>0. TypeOK /\ PhonesAgree /\ ReportsAreSent /\ \A x \in Requests : Row(x)
  BY InvParts
<1>1. TypeOK'
  BY <1>0, RecordType DEF TypeOK
<1>2. PICK k \in Requests : k = report.msg
  BY DEF Report
<1> DEFINE row(m) == [msg |-> k, status |-> report.status, source |-> source, matched |-> m]
           waits  == matches /\ delivery[k] = "waiting"
<1>3. /\ receipts' = IF row(TRUE) \in receipts THEN receipts
                     ELSE IF matches
                       THEN (receipts \ (IF source = "callback" THEN {row(FALSE)} ELSE {}))
                              \cup {row(TRUE)}
                       ELSE receipts \cup {row(FALSE)}
      /\ delivery' = IF waits THEN [delivery EXCEPT ![k] = report.status] ELSE delivery
      /\ acceptance' = IF waits /\ acceptance[k] = "unknown"
                         THEN [acceptance EXCEPT ![k] = "accepted"] ELSE acceptance
  BY <1>2 DEF Record
<1>4. \A c \in receipts : c.matched => c \in receipts'
  BY <1>3
<1>5. waits => row(TRUE) \in receipts'
  BY <1>3
<1>t. /\ delivery \in [Requests -> DeliveryStatus] /\ acceptance \in [Requests -> AcceptanceStatus]
      /\ report.status \in ReportStatus
  BY <1>0, TypeFacts DEF Report
<1>6. ASSUME NEW x \in Requests PROVE Row(x)' /\ Forward(x)
  <2>0. Row(x)
    BY <1>0
  <2>1. CASE x = k /\ waits
    <3>1. delivery'[x] = report.status /\ acceptance'[x] = "accepted"
          /\ acceptance[x] \in {"accepted", "unknown"}
      BY <1>t, <1>3, <2>0, <2>1 DEF Row
    <3>2. row(TRUE).msg = x /\ row(TRUE).status = report.status /\ row(TRUE).matched
      BY <2>1
    <3>3. \E c \in receipts' : c.msg = x /\ c.status = delivery'[x] /\ c.matched
      BY <1>5, <2>1, <3>1, <3>2
    <3>4. provider'[x] = "sent" /\ call'[x] = call[x] /\ challenge'[x] = challenge[x]
      BY <1>2, <2>1
    <3>5. report.status \notin {"waiting", "not_applicable"}
      BY <1>t DEF ReportStatus
    <3>6. Forward(x)
      BY <2>1, <3>1, <3>5 DEF Forward, FinalStatus, ReportStatus
    <3>7. /\ challenge[x].status # "pending"
          /\ challenge[x].status # "absent"
      BY <2>0, <3>1 DEF Row
    <3> HIDE DEF row, waits
    <3>8. Row(x)'
      BY <2>0, <3>1, <3>3, <3>4, <3>5, <3>7 DEF Row
    <3> QED  BY <3>6, <3>8
  <2>2. CASE ~(x = k /\ waits)
    <3>1. delivery'[x] = delivery[x] /\ acceptance'[x] = acceptance[x]
      BY <1>t, <1>3, <2>2
    <3> QED  BY <1>4, <2>0, <3>1, RowKept
  <2> QED  BY <2>1, <2>2
<1>7. \A x \in Requests : Active(x)' => Active(x)
  BY DEF Active
<1>8. PhonesAgree'
  BY <1>0, <1>7, PhonesKept
<1>9. ReportsAreSent'
  BY <1>0 DEF ReportsAreSent
<1> QED  BY <1>1, <1>6, <1>8, <1>9 DEF Kept

LEMMA IngestKeeps ==
    ASSUME SystemInv, NEW report \in reports, NEW acknowledged \in BOOLEAN,
           Ingest(report, acknowledged)
    PROVE  Kept
<1>0. TypeOK /\ ReportsAreSent
  BY InvParts
<1>1. report \in Report /\ provider[report.msg] = "sent" /\ sweep \in [Sweepers -> Sweep]
  BY <1>0, TypeFacts DEF ReportsAreSent
<1> DEFINE matches == report.msg \in bizKnown
<1>2. /\ matches \in BOOLEAN /\ Record(report, "callback", matches)
      /\ UNCHANGED <<call, provider, bizKnown, age, challenge>>
      /\ reports' \subseteq reports /\ UNCHANGED sweep
  BY DEF Ingest
<1> HIDE DEF matches
<1> QED  BY <1>1, <1>2, RecordKeeps

\* A reconcile() call moves on without touching a row.
LEMMA SweepMoves ==
    ASSUME SystemInv, NEW s \in Sweepers, NEW task \in Sweep,
           sweep' = [sweep EXCEPT ![s] = task],
           \A report \in task.found : provider[report.msg] = "sent",
           UNCHANGED <<call, provider, message, age, challenge, receipts, reports>>
    PROVE  Kept
<1>0. TypeOK /\ ReportsAreSent
  BY InvParts
<1>1. /\ sweep' \in [Sweepers -> Sweep] /\ sweep'[s] = task
      /\ \A x \in Sweepers : x # s => sweep'[x] = sweep[x]
      /\ UNCHANGED <<acceptance, delivery, bizKnown>>
  BY <1>0, TypeFacts DEF message
<1>2. TypeOK'
  BY <1>0, <1>1 DEF TypeOK
<1>3. ReportsAreSent'
  BY <1>0, <1>1 DEF ReportsAreSent
<1> QED  BY <1>1, <1>2, <1>3, QuietKeeps

LEMMA SweepKeeps ==
    ASSUME SystemInv, NEW s \in Sweepers, SweepStep(s)
    PROVE  Kept
<1>0. TypeOK /\ PhonesAgree /\ ReportsAreSent /\ \A x \in Requests : Row(x)
  BY InvParts
<1>t. sweep \in [Sweepers -> Sweep] /\ delivery \in [Requests -> DeliveryStatus]
      /\ bizKnown \subseteq Requests
  BY <1>0, TypeFacts
<1>i. Idle \in Sweep /\ Idle.found = {}
  BY DEF Idle, Sweep
<1>1. CASE ListWaiting(s)
  <2>1. PICK todo \in SUBSET Requests :
           sweep' = [sweep EXCEPT ![s] = [Idle EXCEPT !.pc = "listed", !.todo = todo,
                                                      !.bizKnown = bizKnown \cap todo]]
    BY <1>1 DEF ListWaiting
  <2> DEFINE task == [Idle EXCEPT !.pc = "listed", !.todo = todo, !.bizKnown = bizKnown \cap todo]
  <2>2. task \in Sweep /\ task.found = {}
    BY <1>t DEF Idle, Sweep
  <2>3. sweep' = [sweep EXCEPT ![s] = task]
    BY <2>1
  <2> HIDE DEF task
  <2> QED  BY <1>1, <2>2, <2>3, SweepMoves DEF ListWaiting
<1>2. CASE Query(s)
  <2>1. PICK k \in sweep[s].todo :
          \/ /\ provider[k] = "sent"
             /\ \E status \in ReportStatus :
                   sweep' = [sweep EXCEPT ![s].pc = "found",
                                          ![s].found = {[msg |-> k, status |-> status]}]
          \/ sweep' = [sweep EXCEPT ![s].todo = @ \ {k}]
    BY <1>2 DEF Query
  <2>2. PICK old \in Sweep : old = sweep[s]
    BY <1>t
  <2>3. k \in Requests /\ \A report \in old.found : provider[report.msg] = "sent"
    BY <1>0, <2>1, <2>2 DEF Sweep, ReportsAreSent
  <2>u. UNCHANGED <<call, provider, message, age, challenge, receipts, reports>>
    BY <1>2 DEF Query
  <2>4. ASSUME NEW status \in ReportStatus, provider[k] = "sent",
               sweep' = [sweep EXCEPT ![s].pc = "found",
                                      ![s].found = {[msg |-> k, status |-> status]}]
        PROVE  Kept
    <3> DEFINE task == [old EXCEPT !.pc = "found", !.found = {[msg |-> k, status |-> status]}]
    <3>1. {[msg |-> k, status |-> status]} \in SUBSET Report
      BY <2>3 DEF Report
    <3>2. task \in Sweep /\ task.found = {[msg |-> k, status |-> status]}
      BY <3>1 DEF Sweep
    <3>3. sweep' = [sweep EXCEPT ![s] = task]
      BY <1>t, <2>2, <2>4
    <3> HIDE DEF task
    <3>4. \A report \in task.found : provider[report.msg] = "sent"
      BY <2>4, <3>2
    <3> QED  BY <2>u, <3>2, <3>3, <3>4, SweepMoves
  <2>5. CASE sweep' = [sweep EXCEPT ![s].todo = @ \ {k}]
    <3> DEFINE task == [old EXCEPT !.todo = @ \ {k}]
    <3>1. task \in Sweep /\ task.found = old.found
      BY DEF Sweep
    <3>2. sweep' = [sweep EXCEPT ![s] = task]
      BY <1>t, <2>2, <2>5
    <3> HIDE DEF task
    <3> QED  BY <2>u, <2>3, <3>1, <3>2, SweepMoves
  <2> QED  BY <2>1, <2>4, <2>5
<1>3. CASE RecordQuery(s)
  <2>1. PICK report \in sweep[s].found :
          /\ Record(report, "query",
                    report.msg \in bizKnown => report.msg \in sweep[s].bizKnown)
          /\ sweep' = [sweep EXCEPT ![s].pc = "listed", ![s].found = {},
                                    ![s].todo = @ \ {report.msg}]
    BY <1>3 DEF RecordQuery
  <2>2. report \in Report /\ provider[report.msg] = "sent"
    BY <1>0, <1>t DEF Sweep, ReportsAreSent
  <2>3. /\ sweep' \in [Sweepers -> Sweep]
        /\ \A x \in Sweepers : sweep'[x].found \subseteq sweep[x].found
    <3>1. PICK old \in Sweep : old = sweep[s]
      BY <1>t
    <3> DEFINE task == [old EXCEPT !.pc = "listed", !.found = {}, !.todo = @ \ {report.msg}]
    <3>2. task \in Sweep /\ task.found = {}
      BY DEF Sweep
    <3>3. sweep' = [sweep EXCEPT ![s] = task]
      BY <1>t, <2>1, <3>1
    <3> HIDE DEF task
    <3> QED  BY <1>t, <3>2, <3>3
  <2> DEFINE matches == report.msg \in bizKnown => report.msg \in sweep[s].bizKnown
  <2>4. /\ matches \in BOOLEAN /\ Record(report, "query", matches)
        /\ UNCHANGED <<call, provider, bizKnown, age, challenge>> /\ reports' \subseteq reports
    BY <1>3, <2>1 DEF RecordQuery
  <2> HIDE DEF matches
  <2> QED  BY <2>2, <2>3, <2>4, RecordKeeps
<1>4. CASE FinalizeOverdue(s)
  <2>1. /\ \A k \in Requests :
              delivery'[k] = IF delivery[k] = "waiting" /\ age[k] = "overdue"
                               THEN "unknown_final" ELSE delivery[k]
        /\ delivery' \in [Requests -> DeliveryStatus]
        /\ sweep' = [sweep EXCEPT ![s] = Idle]
        /\ UNCHANGED <<call, provider, acceptance, bizKnown, age, challenge, receipts, reports>>
    BY <1>4, <1>t DEF FinalizeOverdue, DeliveryStatus, FinalStatus
  <2>2. /\ sweep' \in [Sweepers -> Sweep]
        /\ \A x \in Sweepers : sweep'[x].found \subseteq sweep[x].found
    BY <1>t, <1>i, <2>1
  <2>3. TypeOK' /\ ReportsAreSent'
    <3>1. TypeOK'
      BY <1>0, <2>1, <2>2 DEF TypeOK
    <3>2. ReportsAreSent'
      BY <1>0, <2>1, <2>2 DEF ReportsAreSent
    <3> QED  BY <3>1, <3>2
  <2>4. ASSUME NEW x \in Requests PROVE Row(x)' /\ Forward(x)
    <3>0. Row(x)
      BY <1>0
    <3>1. CASE delivery'[x] = delivery[x]
      BY <2>1, <3>0, <3>1, RowKept
    <3>2. CASE delivery'[x] # delivery[x]
      <4>1. delivery[x] = "waiting" /\ delivery'[x] = "unknown_final"
        BY <2>1, <3>2
      <4> QED  BY <2>1, <3>0, <4>1 DEF Row, Forward, ReportStatus, FinalStatus
    <3> QED  BY <3>1, <3>2
  <2>5. \A x \in Requests : Active(x)' => Active(x)
    BY <2>1 DEF Active
  <2>6. PhonesAgree'
    BY <1>0, <2>1, <2>5, PhonesKept
  <2> QED  BY <2>3, <2>4, <2>6 DEF Kept
<1>5. CASE Abort(s)
  <2>1. sweep' = [sweep EXCEPT ![s] = Idle]
    BY <1>5 DEF Abort
  <2> QED  BY <1>5, <1>i, <2>1, SweepMoves DEF Abort
<1> QED  BY <1>1, <1>2, <1>3, <1>4, <1>5 DEF SweepStep

LEMMA AgeKeeps ==
    ASSUME SystemInv, NEW k \in Requests, Age(k)
    PROVE  Kept
<1>0. TypeOK /\ ReportsAreSent
  BY InvParts
<1>1. UNCHANGED <<call, provider, acceptance, delivery, bizKnown, challenge, receipts, reports,
                  sweep>>
  BY DEF Age, message
<1>2. TypeOK'
  <2>1. age' \in [Requests -> {"new", "abandoned", "overdue"}]
    BY <1>0, TypeFacts DEF Age
  <2> QED  BY <1>0, <1>1, <2>1 DEF TypeOK
<1>3. ReportsAreSent'
  BY <1>0, <1>1 DEF ReportsAreSent
<1> QED  BY <1>1, <1>2, <1>3, QuietKeeps

\* One case per action.
LEMMA SystemStep ==
    ASSUME SystemInv, [Next]_vars
    PROVE  SystemInv' /\ \A k \in Requests : Forward(k)
<1>1. ASSUME UNCHANGED vars PROVE Kept
  <2>1. UNCHANGED <<call, provider, acceptance, delivery, bizKnown, age, challenge, receipts,
                    reports, sweep>>
    BY <1>1 DEF vars, message
  <2>2. TypeOK'
    BY <2>1, InvParts DEF TypeOK
  <2>3. ReportsAreSent'
    BY <2>1, InvParts DEF ReportsAreSent
  <2>4. Kept
    BY <2>1, <2>2, <2>3, QuietKeeps
  <2> QED  BY <2>4
<1>2. ASSUME NEW k \in Requests, IssueStep(k) PROVE Kept
  BY <1>2, BeginIssueKeeps, CommitIssueKeeps, CallKeeps, RecordOutcomeKeeps DEF IssueStep
<1>3. Next => Kept
  <2>1. ASSUME NEW k \in Requests, ProviderStep(k) \/ UserStep(k) \/ Age(k) \/ Expire(k)
        PROVE  Kept
    BY <2>1, ProviderKeeps, UserKeeps, AgeKeeps
  <2>2. ASSUME NEW S \in SUBSET Requests, Recover(S) PROVE Kept
    BY <2>2, RecoverKeeps
  <2>3. ASSUME NEW report \in reports, NEW acknowledged \in BOOLEAN,
               Ingest(report, acknowledged)
        PROVE  Kept
    BY <2>3, IngestKeeps
  <2>4. ASSUME NEW s \in Sweepers, SweepStep(s) PROVE Kept
    BY <2>4, SweepKeeps
  <2> QED  BY <1>2, <2>1, <2>2, <2>3, <2>4 DEF Next
<1>4. Kept => SystemInv' /\ \A k \in Requests : Forward(k)
  <2>1. (TypeOK /\ PhonesAgree /\ ReportsAreSent /\ \A k \in Requests : Row(k))' => SystemInv'
    BY InvParts, PTL
  <2> QED  BY <2>1 DEF Kept
<1> QED  BY <1>1, <1>3, <1>4

-----------------------------------------------------------------------------
(* Theorems                                                                 *)

\* The inductive invariant of SYSTEM codes.
LEMMA SystemHolds == Spec => []SystemInv
<1>1. SystemInv /\ [Next]_vars => SystemInv'
  BY SystemStep
<1> QED  BY InitHolds, <1>1, PTL DEF Spec

\* Whoever supersedes, recovers, reports or answers late: a challenge tells the story
\* of its message, and only a code that the provider sent and nobody invalidated is spent.
THEOREM ChallengeHolds == Spec => []ChallengeInv
<1>1. SystemInv => ChallengeInv
  BY DEF SystemInv
<1> QED  BY <1>1, SystemHolds, PTL

\* However many requests race for a phone, one code of the subject works at most.
THEOREM OneCodeWorks == Spec => []OneActivePerPhone
<1>1. SystemInv => OneActivePerPhone
  BY DEF SystemInv
<1> QED  BY <1>1, SystemHolds, PTL

\* A delivery report in a message has its receipt, and a message the provider sent.
THEOREM ReportsHold == Spec => []ReportsAreBacked
<1>1. SystemInv => ReportsAreBacked
  BY DEF SystemInv
<1> QED  BY <1>1, SystemHolds, PTL

\* Recovery, callbacks, queries and time move no message backward.
THEOREM MessagesMoveForward == Spec => OnlyTheAnswerMovesBack
<1> DEFINE AllForward == \A k \in Requests : Forward(k)
<1>1. SystemInv /\ [Next]_vars => [AllForward]_vars
  BY SystemStep
<1>2. [][AllForward]_vars => OnlyTheAnswerMovesBack
  BY DEF OnlyTheAnswerMovesBack, Forward
<1> QED  BY <1>1, <1>2, SystemHolds, PTL DEF Spec
=============================================================================
