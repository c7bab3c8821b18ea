------------------------- MODULE SmsChallengeProofs -------------------------
(***************************************************************************)
(* Machine-checked proofs about the tenant one-time codes: what             *)
(* SmsChallenge keeps true for any callers, keys, phones, host operations   *)
(* and limits.                                                              *)
(***************************************************************************)
EXTENDS SmsChallenge, FiniteSetTheorems, TLAPS

\* The three invariants of the module are inductive together.
CodesInv == ProofInv /\ LimitsInv /\ AnswersAgree

-----------------------------------------------------------------------------
(* One challenge, one call, two calls                                       *)

\* What the invariants say of the row of one key ...
Row(k) ==
    /\ challenge[k].verified => k \in sent /\ challenge[k].attempts < MaxAttempts
    /\ executed[k] = IF challenge[k].consumedBy = NoKey THEN 0 ELSE 1
    /\ challenge[k].error = "none" <=> challenge[k].status \in {"absent", "pending", "accepted"}
    /\ challenge[k].status = "absent" => challenge[k] = NoChallenge
    /\ challenge[k].status = "accepted" => k \in sent
    /\ challenge[k].consumedBy # NoKey =>
          challenge[k].verified /\ challenge[k].error # "superseded"
    /\ asked[k] <= 1
    /\ asked[k] > 0 => challenge[k].status # "absent" /\ challenge[k].error # "limited"

\* ... of one call ...
CallInv(c) ==
    /\ call[c].counted # {} => InIssue(c)
    /\ InIssue(c) => challenge[KeyOf[c]].status = "absent"
    /\ call[c].pc = "waiting" => challenge[KeyOf[c]].status # "absent"
    /\ Owns(c) => KeyOf[c] \in Issued(Keys)
    /\ call[c].pc = "owner" => asked[KeyOf[c]] = 0
    /\ call[c].pc \in {"phoned", "counted"} =>
          Holds(c, "phone") /\ phoneCount[Phone(c)] < PhoneLimit
    /\ call[c].pc = "counted" =>
          /\ Holds(c, "tenant") /\ tenantCount < TenantLimit
          /\ \A k \in Keys : Active(k) => k \in call[c].superseding
    /\ call[c].outcome = "ok" =>
          /\ KeyOf[c] \in sent
          /\ \/ challenge[KeyOf[c]].status = "accepted"
             \/ challenge[KeyOf[c]].error \in {"superseded", "unanswered"}
    /\ call[c].pc = "accepted" => KeyOf[c] \in sent
    /\ call[c].pc = "failed" => call[c].error # "none"
    /\ Owns(c) /\ challenge[KeyOf[c]].status = "accepted" =>
          call[c].pc = "failed" /\ call[c].error = "unanswered"

\* ... and of two, which meet at a key, a phone or the tenant only if they are one.
Meet(c, other) ==
    \/ /\ KeyOf[c] = KeyOf[other]
       /\ (InIssue(c) /\ InIssue(other)) \/ (Owns(c) /\ Owns(other))
    \/ Holds(c, "phone") /\ Holds(other, "phone") /\ Phone(c) = Phone(other)
    \/ Holds(c, "tenant") /\ Holds(other, "tenant")

CallsInv ==
    /\ \A c \in Callers : CallInv(c)
    /\ \A c, other \in Callers : Meet(c, other) => c = other

\* The limits, as far as committed transactions have used them up.
CountsInv ==
    /\ \A p \in Phones :
          LET issued == Issued({k \in Keys : PhoneOf[k] = p}) IN
          IsFiniteSet(issued) /\ Cardinality(issued) <= PhoneLimit
                              /\ Cardinality(issued) <= phoneCount[p]
    /\ IsFiniteSet(Issued(Keys)) /\ Cardinality(Issued(Keys)) <= TenantLimit
                                 /\ Cardinality(Issued(Keys)) <= tenantCount

LEMMA TypeFacts ==
    ASSUME TypeOK
    PROVE  /\ call \in [Callers -> Call] /\ challenge \in [Keys -> Challenge]
           /\ phoneCount \in [Phones -> Nat] /\ tenantCount \in Nat
           /\ asked \in [Keys -> Nat] /\ sent \subseteq Keys
           /\ host \in [Hosts -> Host] /\ executed \in [Keys -> Nat]
           /\ \A c \in Callers : KeyOf[c] \in Keys /\ Phone(c) \in Phones
BY SmsChallengeConstants DEF TypeOK, Phone

\* The provider was asked for keys that were let through only, so the limits count all sends.
LEMMA AskedAreIssued ==
    ASSUME TypeOK, CountsInv, \A k \in Keys : Row(k)
    PROVE  SendsAreLimited
<1> DEFINE Asked(K) == {k \in K : asked[k] > 0}
<1>1. ASSUME NEW K \in SUBSET Keys PROVE Asked(K) \subseteq Issued(K)
  BY DEF Row, Issued
<1>2. \A k \in Keys : asked[k] <= 1
  BY DEF Row
<1>3. ASSUME NEW K \in SUBSET Keys, IsFiniteSet(Issued(K)), NEW n \in Nat,
             Cardinality(Issued(K)) <= n
      PROVE  Cardinality(Asked(K)) <= n
  <2>1. /\ IsFiniteSet(Asked(K)) /\ Cardinality(Asked(K)) <= Cardinality(Issued(K))
    BY <1>1, <1>3, FS_Subset
  <2>2. Cardinality(Asked(K)) \in Nat /\ Cardinality(Issued(K)) \in Nat
    BY <1>3, <2>1, FS_CardinalityType
  <2> QED  BY <1>3, <2>1, <2>2
<1>4. ASSUME NEW p \in Phones
      PROVE  Cardinality(Asked({k \in Keys : PhoneOf[k] = p})) <= PhoneLimit
  <2> DEFINE K == {k \in Keys : PhoneOf[k] = p}
  <2>1. K \in SUBSET Keys /\ IsFiniteSet(Issued(K)) /\ Cardinality(Issued(K)) <= PhoneLimit
    BY DEF CountsInv
  <2> HIDE DEF K, Asked
  <2>2. Cardinality(Asked(K)) <= PhoneLimit
    BY <1>3, <2>1, SmsChallengeConstants
  <2> QED  BY <2>2 DEF K
<1>5. Cardinality(Asked(Keys)) <= TenantLimit
  <2> HIDE DEF Asked
  <2> QED  BY <1>3, SmsChallengeConstants DEF CountsInv
<1> QED  BY <1>2, <1>4, <1>5 DEF SendsAreLimited

\* The invariants, key by key, call by call and host by host.
LEMMA InvParts ==
    CodesInv <=> /\ TypeOK /\ HostsHoldProofs /\ OneActivePerSubject /\ CountsInv
                 /\ CallsInv /\ \A k \in Keys : Row(k)
<1>1. CallsTakeTurns /\ AnswersAgree <=> CallsInv
  BY DEF CallsTakeTurns, AnswersAgree, CallsInv, CallInv, Meet
<1>2. /\ ProofsAreGenuine /\ ExecutedOnce /\ RowsAgree
      /\ \A k \in Keys : asked[k] <= 1
      /\ \A k \in Keys : asked[k] > 0 => k \in Issued(Keys)
      <=> \A k \in Keys : Row(k)
  BY DEF ProofsAreGenuine, ExecutedOnce, RowsAgree, Row, Issued
<1>3. IssuesAreCounted <=>
         CountsInv /\ \A k \in Keys : asked[k] > 0 => k \in Issued(Keys)
  BY DEF IssuesAreCounted, CountsInv
<1>4. SendsAreLimited => \A k \in Keys : asked[k] <= 1
  BY DEF SendsAreLimited
<1>5. TypeOK /\ CountsInv /\ (\A k \in Keys : Row(k)) => SendsAreLimited
  BY AskedAreIssued
<1> QED  BY <1>1, <1>2, <1>3, <1>4, <1>5 DEF CodesInv, ProofInv, LimitsInv

-----------------------------------------------------------------------------
(* What a step leaves alone                                                 *)

\* What was given up or consumed stays so.
Decided(k) ==
    /\ challenge[k].error # "none" =>
          /\ challenge'[k].error = challenge[k].error
          /\ challenge'[k].status = challenge[k].status
          /\ challenge'[k].verified = challenge[k].verified
          /\ challenge'[k].consumedBy = challenge[k].consumedBy
    /\ challenge[k].consumedBy # NoKey => challenge'[k].error # "superseded"

LEMMA RowKept ==
    ASSUME NEW k \in Keys, Row(k), challenge'[k] = challenge[k],
           executed'[k] = executed[k], asked'[k] = asked[k], sent \subseteq sent'
    PROVE  Row(k)' /\ Decided(k)
BY DEF Row, Decided

\* A row never becomes absent, open or free of its verdict for the calls that read it.
Steady(k) ==
    /\ challenge[k].status # "absent" =>
          /\ challenge'[k].status # "absent"
          /\ challenge[k].error # "limited" => challenge'[k].error # "limited"
    /\ challenge[k].status = "accepted" \/ challenge[k].error \in {"superseded", "unanswered"}
          => \/ challenge'[k].status = "accepted"
             \/ challenge'[k].error \in {"superseded", "unanswered"}

\* A call that takes no part in a step.
LEMMA CallKept ==
    ASSUME NEW c \in Callers, CallInv(c), call'[c] = call[c],
           KeyOf[c] \in Keys, Steady(KeyOf[c]), sent \subseteq sent',
           InIssue(c) => challenge'[KeyOf[c]].status = "absent",
           call[c].pc = "owner" => asked'[KeyOf[c]] = asked[KeyOf[c]],
           Holds(c, "phone") => phoneCount'[Phone(c)] = phoneCount[Phone(c)],
           Holds(c, "tenant") =>
              tenantCount' = tenantCount /\ \A k \in Keys : Active(k)' => Active(k),
           Owns(c) /\ challenge'[KeyOf[c]].status = "accepted" =>
              challenge[KeyOf[c]].status = "accepted"
    PROVE  CallInv(c)'
<1>1. /\ InIssue(c)' <=> InIssue(c)
      /\ Owns(c)' <=> Owns(c)
      /\ Holds(c, "phone")' <=> Holds(c, "phone")
      /\ Holds(c, "tenant")' <=> Holds(c, "tenant")
      /\ Phone(c)' = Phone(c)
  BY DEF InIssue, Owns, Holds, Phone
<1>2. call'[c].pc = "counted" =>
         /\ Holds(c, "tenant")' /\ tenantCount' < TenantLimit
         /\ \A k \in Keys : Active(k)' => k \in call'[c].superseding
  BY <1>1 DEF CallInv
<1>3. call'[c].pc \in {"phoned", "counted"} =>
         Holds(c, "phone")' /\ phoneCount'[Phone(c)] < PhoneLimit
  BY <1>1 DEF CallInv
<1>4. call'[c].pc = "owner" => asked'[KeyOf[c]] = 0
  BY DEF CallInv
<1>5. /\ call'[c].counted # {} => InIssue(c)'
      /\ InIssue(c)' => challenge'[KeyOf[c]].status = "absent"
      /\ call'[c].pc = "waiting" => challenge'[KeyOf[c]].status # "absent"
      /\ Owns(c)' => KeyOf[c] \in Issued(Keys)'
  BY <1>1 DEF CallInv, Steady, Issued
<1>6. call'[c].outcome = "ok" =>
         /\ KeyOf[c] \in sent'
         /\ \/ challenge'[KeyOf[c]].status = "accepted"
            \/ challenge'[KeyOf[c]].error \in {"superseded", "unanswered"}
  BY DEF CallInv, Steady
<1>7. /\ call'[c].pc = "accepted" => KeyOf[c] \in sent'
      /\ call'[c].pc = "failed" => call'[c].error # "none"
      /\ Owns(c)' /\ challenge'[KeyOf[c]].status = "accepted" =>
            call'[c].pc = "failed" /\ call'[c].error = "unanswered"
  BY <1>1 DEF CallInv
<1> QED  BY <1>1, <1>2, <1>3, <1>4, <1>5, <1>6, <1>7 DEF CallInv, Phone

\* Calls that enter no transaction and take no lock meet no one they did not meet.
LEMMA PairsKept ==
    ASSUME \A c, other \in Callers : Meet(c, other) => c = other,
           \A c \in Callers : /\ InIssue(c)' => InIssue(c)
                              /\ Owns(c)' => Owns(c)
                              /\ Holds(c, "phone")' => Holds(c, "phone")
                              /\ Holds(c, "tenant")' => Holds(c, "tenant")
    PROVE  \A c, other \in Callers : Meet(c, other)' => c = other
<1>1. \A c \in Callers : Phone(c)' = Phone(c)
  BY DEF Phone
<1> QED  BY <1>1 DEF Meet

LEMMA HostsKept ==
    ASSUME TypeOK, HostsHoldProofs, UNCHANGED host,
           \A k \in Keys : ~Free(k) =>
              /\ challenge'[k].verified = challenge[k].verified
              /\ challenge'[k].status = challenge[k].status
              /\ challenge'[k].consumedBy = challenge[k].consumedBy
    PROVE  HostsHoldProofs'
BY DEF HostsHoldProofs, Free

\* Counts and keys that stay, stay within the limits.
LEMMA CountsKept ==
    ASSUME TypeOK, TypeOK', CountsInv,
           \A k \in Keys :
              challenge'[k].status # "absent" /\ challenge'[k].error # "limited"
              <=> challenge[k].status # "absent" /\ challenge[k].error # "limited",
           \A p \in Phones : phoneCount'[p] >= phoneCount[p],
           tenantCount' >= tenantCount
    PROVE  CountsInv'
<1>1. \A K \in SUBSET Keys : Issued(K)' = Issued(K)
  BY DEF Issued
<1>2. Issued(Keys)' = Issued(Keys)
  BY <1>1
<1>3. /\ IsFiniteSet(Issued(Keys)') /\ Cardinality(Issued(Keys)') <= TenantLimit
      /\ Cardinality(Issued(Keys)') <= tenantCount'
  <2>1. Cardinality(Issued(Keys)) \in Nat
    BY FS_CardinalityType DEF CountsInv
  <2> QED  BY <1>2, <2>1, TypeFacts DEF CountsInv, TypeOK
<1>4. ASSUME NEW p \in Phones, NEW K, K = {k \in Keys : PhoneOf[k] = p}
      PROVE  /\ IsFiniteSet(Issued(K)') /\ Cardinality(Issued(K)') <= PhoneLimit
             /\ Cardinality(Issued(K)') <= phoneCount'[p]
  <2>1. /\ IsFiniteSet(Issued(K)) /\ Cardinality(Issued(K)) <= PhoneLimit
        /\ Cardinality(Issued(K)) <= phoneCount[p]
    BY <1>4 DEF CountsInv
  <2>2. Cardinality(Issued(K)) \in Nat /\ phoneCount[p] \in Nat /\ phoneCount'[p] \in Nat
    BY <2>1, FS_CardinalityType, TypeFacts DEF TypeOK
  <2>3. Issued(K)' = Issued(K)
    BY <1>1, <1>4
  <2> QED  BY <2>1, <2>2, <2>3
<1> QED  BY <1>3, <1>4 DEF CountsInv

-----------------------------------------------------------------------------
(* Types of what the steps write                                            *)

LEMMA CallTypes ==
    /\ NewCall \in Call /\ NewCall.pc = "new" /\ NewCall.counted = {} /\ NewCall.outcome = "none"
    /\ \A outcome \in {"none", "ok", "error"} :
          /\ Ended(outcome) \in Call /\ Ended(outcome).pc = "ended"
          /\ Ended(outcome).counted = {} /\ Ended(outcome).outcome = outcome
    /\ [NewCall EXCEPT !.pc = "owner"] \in Call
    /\ [NewCall EXCEPT !.pc = "owner"].pc = "owner"
    /\ [NewCall EXCEPT !.pc = "owner"].counted = {}
    /\ [NewCall EXCEPT !.pc = "owner"].outcome = "none"
BY DEF NewCall, Call, Ended

LEMMA CallMoves ==
    ASSUME TypeOK, NEW c \in Callers, NEW task \in Call, call' = [call EXCEPT ![c] = task]
    PROVE  /\ call' \in [Callers -> Call] /\ call'[c] = task
           /\ \A other \in Callers : other # c => call'[other] = call[other]
BY DEF TypeOK

LEMMA NoChallengeType ==
    /\ NoChallenge \in Challenge
    /\ NoChallenge.status = "absent" /\ NoChallenge.error = "none" /\ NoChallenge.attempts = 0
    /\ NoChallenge.verified = FALSE /\ NoChallenge.consumedBy = NoKey
<1>1. 0 \in 0..MaxAttempts
  BY SmsChallengeConstants
<1> QED  BY <1>1 DEF NoChallenge, Challenge

LEMMA ChallengeMoves ==
    ASSUME TypeOK, NEW k \in Keys, NEW row \in Challenge,
           challenge' = [challenge EXCEPT ![k] = row]
    PROVE  /\ challenge' \in [Keys -> Challenge] /\ challenge'[k] = row
           /\ \A other \in Keys : other # k => challenge'[other] = challenge[other]
BY DEF TypeOK

LEMMA InvalidatedType ==
    ASSUME NEW row \in Challenge, NEW status \in {"rejected", "unknown"},
           NEW error \in {"superseded", "failed", "unanswered", "unknown"}
    PROVE  LET new == Invalidated(row, status, error) IN
           /\ new \in Challenge
           /\ row.error # "none" => new = row
           /\ row.error = "none" => new.status = status /\ new.error = error
           /\ new.verified = row.verified /\ new.consumedBy = row.consumedBy
           /\ new.attempts = row.attempts
BY DEF Invalidated, Challenge

-----------------------------------------------------------------------------
(* The steps of issue() up to its first commit                              *)

\* What every step leaves behind.
Kept == /\ TypeOK' /\ HostsHoldProofs' /\ OneActivePerSubject' /\ CountsInv' /\ CallsInv'
        /\ \A k \in Keys : Row(k)' /\ Decided(k)

LEMMA InitHolds == Init => CodesInv
<1> SUFFICES ASSUME Init PROVE CodesInv
  OBVIOUS
<1>1. TypeOK
  <2>1. \A h \in Hosts : IdleHost \in Host
    BY DEF IdleHost, Host
  <2> QED  BY <2>1, CallTypes, NoChallengeType DEF Init, TypeOK
<1>2. \A k \in Keys : Row(k)
  BY NoChallengeType DEF Init, Row
<1>3. HostsHoldProofs
  BY DEF Init, HostsHoldProofs, IdleHost
<1>4. OneActivePerSubject
  BY NoChallengeType DEF Init, OneActivePerSubject, Active
<1>5. CallsInv
  <2>1. \A c \in Callers : /\ call[c].pc = "new" /\ call[c].counted = {}
                           /\ call[c].outcome = "none"
    BY CallTypes DEF Init
  <2> QED  BY <2>1 DEF CallsInv, CallInv, Meet, InIssue, Owns, Holds
<1>6. CountsInv
  <2>1. \A K \in SUBSET Keys : Issued(K) = {}
    BY NoChallengeType DEF Init, Issued
  <2>2. \A K \in SUBSET Keys : IsFiniteSet(Issued(K)) /\ Cardinality(Issued(K)) = 0
    BY <2>1, FS_EmptySet
  <2>3. \A p \in Phones : {k \in Keys : PhoneOf[k] = p} \in SUBSET Keys
    OBVIOUS
  <2>4. /\ \A p \in Phones : phoneCount[p] = 0
        /\ tenantCount = 0 /\ 0 <= PhoneLimit /\ 0 <= TenantLimit
    BY SmsChallengeConstants DEF Init
  <2> QED  BY <2>2, <2>3, <2>4 DEF CountsInv
<1> QED  BY <1>1, <1>2, <1>3, <1>4, <1>5, <1>6, InvParts

\* A call that moves on without a commit.
LEMMA CallOnlyKeeps ==
    ASSUME CodesInv, NEW c \in Callers, NEW task \in Call,
           call' = [call EXCEPT ![c] = task],
           UNCHANGED <<challenge, counts, asked, sent, host, executed>>,
           CallInv(c)',
           \A one, other \in Callers : Meet(one, other)' => one = other
    PROVE  Kept
<1>0. /\ TypeOK /\ HostsHoldProofs /\ OneActivePerSubject /\ CountsInv
      /\ CallsInv /\ \A k \in Keys : Row(k)
  BY InvParts
<1>1. /\ call' \in [Callers -> Call]
      /\ \A other \in Callers : other # c => call'[other] = call[other]
      /\ UNCHANGED <<phoneCount, tenantCount>>
  BY <1>0, CallMoves DEF counts
<1>2. TypeOK'
  BY <1>0, <1>1 DEF TypeOK
<1>3. \A k \in Keys : Row(k)' /\ Decided(k)
  BY <1>0, RowKept
<1>4. HostsHoldProofs'
  BY <1>0, HostsKept
<1>5. \A k \in Keys : Active(k)' <=> Active(k)
  BY DEF Active
<1>6. OneActivePerSubject'
  BY <1>0, <1>5 DEF OneActivePerSubject
<1>7. CountsInv'
  <2>1. /\ \A p \in Phones : phoneCount'[p] >= phoneCount[p]
        /\ tenantCount' >= tenantCount
    BY <1>0, <1>1, TypeFacts
  <2> QED  BY <1>0, <1>2, <2>1, CountsKept
<1>8. \A k \in Keys : Steady(k)
  BY DEF Steady
<1>9. ASSUME NEW other \in Callers, other # c PROVE CallInv(other)'
  <2>1. CallInv(other) /\ KeyOf[other] \in Keys
    BY <1>0, TypeFacts DEF CallsInv
  <2>2. InIssue(other) => challenge'[KeyOf[other]].status = "absent"
    BY <2>1 DEF CallInv
  <2> QED  BY <1>1, <1>5, <1>8, <1>9, <2>1, <2>2, CallKept
<1>10. CallsInv'
  BY <1>9 DEF CallsInv
<1> QED  BY <1>2, <1>3, <1>4, <1>6, <1>7, <1>10 DEF Kept

\* The first transaction: the lock of the key, then of its phone, then the tenant's.
LEMMA EnterKeeps ==
    ASSUME CodesInv, NEW c \in Callers, Enter(c)
    PROVE  Kept
<1>0. TypeOK /\ CallsInv /\ CallInv(c)
  BY InvParts DEF CallsInv
<1>1. PICK old \in Call : old = call[c]
  BY <1>0, TypeFacts
<1> DEFINE pc == IF challenge[KeyOf[c]].status = "absent" THEN "keyed" ELSE "waiting"
           task == [old EXCEPT !.pc = pc]
<1>2. /\ task \in Call /\ task.pc = pc /\ task.counted = old.counted
      /\ task.outcome = old.outcome
  BY DEF Call
<1>3. call' = [call EXCEPT ![c] = task]
  BY <1>0, <1>1, TypeFacts DEF Enter
<1>4. UNCHANGED <<challenge, counts, asked, sent, host, executed>> /\ old.pc = "new"
  BY <1>1 DEF Enter
<1>5. old.counted = {}
  BY <1>0, <1>1, <1>4 DEF CallInv, InIssue
<1>6. \/ pc = "keyed" /\ challenge[KeyOf[c]].status = "absent"
      \/ pc = "waiting" /\ challenge[KeyOf[c]].status # "absent"
  OBVIOUS
<1> HIDE DEF task, pc
<1>7. call'[c] = task /\ \A other \in Callers : other # c => call'[other] = call[other]
  BY <1>0, <1>2, <1>3, CallMoves
<1>8. CallInv(c)'
  BY <1>0, <1>1, <1>2, <1>4, <1>5, <1>6, <1>7 DEF CallInv, InIssue, Owns, Holds, Issued
<1>9. \A one, other \in Callers : Meet(one, other)' => one = other
  <2>1. /\ ~Owns(c)' /\ ~Holds(c, "phone")' /\ ~Holds(c, "tenant")'
    BY <1>2, <1>5, <1>6, <1>7 DEF Owns, Holds
  <2>2. \A one \in Callers : one # c => /\ InIssue(one)' <=> InIssue(one)
                                        /\ Owns(one)' <=> Owns(one)
                                        /\ Holds(one, "phone")' <=> Holds(one, "phone")
                                        /\ Holds(one, "tenant")' <=> Holds(one, "tenant")
                                        /\ Phone(one)' = Phone(one)
    BY <1>7 DEF InIssue, Owns, Holds, Phone
  <2>3. \A one \in Callers : one # c /\ InIssue(one) => KeyOf[one] # KeyOf[c]
    BY <1>1, <1>4 DEF Enter, InIssue
  <2>4. \A one, other \in Callers : Meet(one, other) => one = other
    BY <1>0 DEF CallsInv
  <2> QED  BY <2>1, <2>2, <2>3, <2>4 DEF Meet
<1> QED  BY <1>2, <1>3, <1>4, <1>8, <1>9, CallOnlyKeeps

\* A call that takes no lock it does not hold meets no one.
LEMMA NoNewMeet ==
    ASSUME CodesInv, NEW c \in Callers, NEW task \in Call, call' = [call EXCEPT ![c] = task],
           task.pc \in {"keyed", "phoned", "counted", "refused"} => InIssue(c),
           task.pc \in {"owner", "asking", "accepted", "failed"} => Owns(c),
           task.counted \subseteq call[c].counted
    PROVE  /\ call'[c] = task
           /\ \A other \in Callers : other # c => call'[other] = call[other]
           /\ \A one, other \in Callers : Meet(one, other)' => one = other
<1>0. TypeOK /\ \A one, other \in Callers : Meet(one, other) => one = other
  BY InvParts DEF CallsInv
<1>1. call'[c] = task /\ \A other \in Callers : other # c => call'[other] = call[other]
  BY <1>0, CallMoves
<1>2. \A x \in Callers : /\ InIssue(x)' => InIssue(x)
                         /\ Owns(x)' => Owns(x)
                         /\ Holds(x, "phone")' => Holds(x, "phone")
                         /\ Holds(x, "tenant")' => Holds(x, "tenant")
  BY <1>1 DEF InIssue, Owns, Holds
<1> QED  BY <1>0, <1>1, <1>2, PairsKept

LEMMA RefuseKeeps ==
    ASSUME CodesInv, NEW c \in Callers, Refuse(c)
    PROVE  Kept
<1>0. TypeOK /\ CallInv(c)
  BY InvParts DEF CallsInv
<1>1. PICK old \in Call : old = call[c]
  BY <1>0, TypeFacts
<1> DEFINE task == [old EXCEPT !.pc = "refused", !.superseding = {}]
<1>2. /\ task \in Call /\ task.pc = "refused" /\ task.counted = old.counted
      /\ task.outcome = old.outcome
  BY DEF Call
<1>3. call' = [call EXCEPT ![c] = task]
  BY <1>0, <1>1, TypeFacts DEF Refuse
<1>4. UNCHANGED <<challenge, counts, asked, sent, host, executed>> /\ InIssue(c)
  BY DEF Refuse, InIssue
<1> HIDE DEF task
<1>5. call'[c] = task /\ \A one, other \in Callers : Meet(one, other)' => one = other
  BY <1>1, <1>2, <1>3, <1>4, NoNewMeet
<1>6. CallInv(c)'
  BY <1>0, <1>1, <1>2, <1>4, <1>5 DEF CallInv, InIssue, Owns, Holds
<1> QED  BY <1>2, <1>3, <1>4, <1>5, <1>6, CallOnlyKeeps

\* Taking the limit of a phone or of the tenant, which no other call holds.
LEMMA CountKeeps ==
    ASSUME CodesInv, NEW c \in Callers, CountPhone(c) \/ CountTenant(c)
    PROVE  Kept
<1>0. TypeOK /\ CallInv(c) /\ \A one, other \in Callers : Meet(one, other) => one = other
  BY InvParts DEF CallsInv
<1>t. /\ \A p \in Phones : phoneCount[p] \in Nat
      /\ tenantCount \in Nat /\ PhoneLimit \in Nat /\ TenantLimit \in Nat
      /\ Phone(c) \in Phones
  BY <1>0, TypeFacts, SmsChallengeConstants
<1>1. PICK old \in Call : old = call[c]
  BY <1>0, TypeFacts
<1>2. ASSUME NEW task \in Call, call' = [call EXCEPT ![c] = task], task.outcome = old.outcome,
             UNCHANGED <<challenge, counts, asked, sent, host, executed>>,
             old.pc \in {"keyed", "phoned"},
             task.pc \in {"phoned", "counted", "refused"},
             "phone" \in task.counted,
             "phone" \in old.counted \/
                \A other \in Callers : Holds(other, "phone") => Phone(other) # Phone(c),
             "tenant" \in task.counted => \A other \in Callers : ~Holds(other, "tenant"),
             task.pc \in {"phoned", "counted"} => phoneCount[Phone(c)] < PhoneLimit,
             task.pc = "counted" => /\ "tenant" \in task.counted /\ tenantCount < TenantLimit
                                    /\ task.superseding = {k \in Keys : Active(k)}
      PROVE  Kept
  <2>1. call'[c] = task /\ \A other \in Callers : other # c => call'[other] = call[other]
    BY <1>0, <1>2, CallMoves
  <2>2. /\ InIssue(c) /\ InIssue(c)' /\ ~Owns(c)' /\ Holds(c, "phone")'
        /\ Holds(c, "tenant")' <=> "tenant" \in task.counted
        /\ \A x \in Callers : Phone(x)' = Phone(x)
    BY <1>1, <1>2, <2>1 DEF InIssue, Owns, Holds, Phone
  <2>3. \A x \in Callers : x # c => /\ InIssue(x)' <=> InIssue(x)
                                    /\ Owns(x)' <=> Owns(x)
                                    /\ Holds(x, "phone")' <=> Holds(x, "phone")
                                    /\ Holds(x, "tenant")' <=> Holds(x, "tenant")
    BY <2>1 DEF InIssue, Owns, Holds
  <2>4. \A k \in Keys : Active(k)' <=> Active(k)
    BY <1>2 DEF Active
  <2>5. CallInv(c)'
    <3>1. call'[c].pc \in {"phoned", "counted"} =>
             Holds(c, "phone")' /\ phoneCount'[Phone(c)] < PhoneLimit
      BY <1>2, <2>1, <2>2 DEF counts
    <3>2. call'[c].pc = "counted" =>
             /\ Holds(c, "tenant")' /\ tenantCount' < TenantLimit
             /\ \A k \in Keys : Active(k)' => k \in call'[c].superseding
      BY <1>2, <2>1, <2>2, <2>4 DEF counts
    <3>3. InIssue(c)' => challenge'[KeyOf[c]].status = "absent"
      BY <1>0, <1>2, <2>2 DEF CallInv
    <3>4. call'[c].outcome = "ok" =>
             /\ KeyOf[c] \in sent'
             /\ \/ challenge'[KeyOf[c]].status = "accepted"
                \/ challenge'[KeyOf[c]].error \in {"superseded", "unanswered"}
      BY <1>0, <1>1, <1>2, <2>1 DEF CallInv
    <3> QED  BY <1>2, <2>1, <2>2, <3>1, <3>2, <3>3, <3>4 DEF CallInv, Phone
  <2>6. ASSUME NEW one \in Callers, NEW other \in Callers, Meet(one, other)'
        PROVE  one = other
    <3>1. CASE one # c /\ other # c
      BY <1>0, <2>2, <2>3, <2>6, <3>1 DEF Meet
    <3>2. ASSUME NEW x \in Callers, x # c PROVE ~Meet(c, x)' /\ ~Meet(x, c)'
      <4>1. ~(InIssue(x) /\ KeyOf[x] = KeyOf[c])
        BY <1>0, <2>2, <3>2 DEF Meet
      <4>2. ~(Holds(x, "phone") /\ Phone(x) = Phone(c))
        <5>1. CASE "phone" \in old.counted
          BY <1>0, <1>1, <3>2, <5>1 DEF Meet, Holds
        <5>2. CASE "phone" \notin old.counted
          BY <1>2, <5>2
        <5> QED  BY <5>1, <5>2
      <4>3. ~(Holds(x, "tenant")' /\ Holds(c, "tenant")')
        BY <1>2, <2>2, <2>3, <3>2
      <4> QED  BY <2>2, <2>3, <3>2, <4>1, <4>2, <4>3 DEF Meet
    <3> QED  BY <2>6, <3>1, <3>2
  <2> QED  BY <1>2, <2>5, <2>6, CallOnlyKeeps
<1>3. CASE CountPhone(c)
  <2> DEFINE pc == IF phoneCount[Phone(c)] + 1 > PhoneLimit THEN "refused" ELSE "phoned"
             task == [old EXCEPT !.counted = {"phone"}, !.pc = pc]
  <2>1. /\ task \in Call /\ task.pc = pc /\ task.counted = {"phone"}
        /\ task.outcome = old.outcome
    BY DEF Call
  <2>2. call' = [call EXCEPT ![c] = task] /\ old.pc = "keyed"
    BY <1>0, <1>1, <1>3, TypeFacts DEF CountPhone
  <2>3. \/ pc = "refused"
        \/ pc = "phoned" /\ phoneCount[Phone(c)] < PhoneLimit
    BY <1>t
  <2>4. /\ UNCHANGED <<challenge, counts, asked, sent, host, executed>>
        /\ \A other \in Callers : Holds(other, "phone") => Phone(other) # Phone(c)
    BY <1>3 DEF CountPhone, Holds
  <2> HIDE DEF task, pc
  <2> QED  BY <1>2, <2>1, <2>2, <2>3, <2>4
<1>4. CASE CountTenant(c)
  <2> DEFINE pc == IF tenantCount + 1 > TenantLimit THEN "refused" ELSE "counted"
             S == {k \in Keys : Active(k)}
             task == [old EXCEPT !.counted = @ \cup {"tenant"}, !.superseding = S, !.pc = pc]
  <2>1. /\ task \in Call /\ task.pc = pc /\ task.counted = old.counted \cup {"tenant"}
        /\ task.outcome = old.outcome /\ task.superseding = S
    BY DEF Call
  <2>2. call' = [call EXCEPT ![c] = task] /\ old.pc = "phoned"
    BY <1>0, <1>1, <1>4, TypeFacts DEF CountTenant
  <2>3. \/ pc = "refused"
        \/ pc = "counted" /\ tenantCount < TenantLimit
    BY <1>t
  <2>4. /\ UNCHANGED <<challenge, counts, asked, sent, host, executed>>
        /\ \A other \in Callers : ~Holds(other, "tenant")
    BY <1>4 DEF CountTenant, Holds
  <2>5. "phone" \in old.counted /\ phoneCount[Phone(c)] < PhoneLimit
    BY <1>0, <1>1, <2>2 DEF CallInv, Holds
  <2>6. S = {k \in Keys : Active(k)}
    OBVIOUS
  <2> HIDE DEF task, pc, S
  <2> QED  BY <1>2, <2>1, <2>2, <2>3, <2>4, <2>5, <2>6
<1> QED  BY <1>3, <1>4

-----------------------------------------------------------------------------
(* Steps of issue() that commit nothing                                     *)

\* A call that ends, for its caller or with its process, gives up what it holds.
LEMMA EndKeeps ==
    ASSUME CodesInv, NEW c \in Callers, NEW outcome \in {"none", "ok", "error"},
           call' = [call EXCEPT ![c] = Ended(outcome)],
           UNCHANGED <<challenge, counts, asked, sent, host, executed>>,
           outcome = "ok" =>
              /\ KeyOf[c] \in sent
              /\ \/ challenge[KeyOf[c]].status = "accepted"
                 \/ challenge[KeyOf[c]].error \in {"superseded", "unanswered"}
    PROVE  Kept
<1> DEFINE task == Ended(outcome)
<1>1. /\ task \in Call /\ task.pc = "ended" /\ task.counted = {} /\ task.outcome = outcome
      /\ call' = [call EXCEPT ![c] = task]
  BY CallTypes
<1> HIDE DEF task
<1>2. call'[c] = task /\ \A one, other \in Callers : Meet(one, other)' => one = other
  BY <1>1, NoNewMeet
<1>3. CallInv(c)'
  BY <1>1, <1>2 DEF CallInv, InIssue, Owns, Holds
<1> QED  BY <1>1, <1>2, <1>3, CallOnlyKeeps

LEMMA ReadOutcomeKeeps ==
    ASSUME CodesInv, NEW c \in Callers, ReadOutcome(c)
    PROVE  Kept
<1>0. TypeOK /\ CallInv(c) /\ Row(KeyOf[c])
  BY InvParts, TypeFacts DEF CallsInv
<1>1. PICK outcome \in {"ok", "error"} :
         /\ call' = [call EXCEPT ![c] = Ended(outcome)]
         /\ outcome = "ok" => challenge[KeyOf[c]].error = "none"
  BY DEF ReadOutcome
<1>2. outcome = "ok" => challenge[KeyOf[c]].status = "accepted" /\ KeyOf[c] \in sent
  BY <1>0, <1>1 DEF ReadOutcome, CallInv, Row
<1> QED  BY <1>1, <1>2, EndKeeps DEF ReadOutcome

\* The call that owns its challenge learns something; the row is as it was.
LEMMA OwnerMoves ==
    ASSUME CodesInv, NEW c \in Callers, NEW old \in Call, old = call[c],
           NEW pc \in {"asking", "accepted", "failed"},
           NEW error \in {"none", "failed", "unanswered", "unknown"},
           Owns(c), old.pc # "failed",
           call' = [call EXCEPT ![c] = [old EXCEPT !.pc = pc, !.error = error]],
           UNCHANGED <<challenge, counts, asked, sent, host, executed>>,
           pc = "accepted" => KeyOf[c] \in sent,
           pc = "failed" => error # "none"
    PROVE  Kept
<1> DEFINE task == [old EXCEPT !.pc = pc, !.error = error]
<1>1. /\ task \in Call /\ task.pc = pc /\ task.counted = old.counted
      /\ task.outcome = old.outcome /\ task.error = error
      /\ call' = [call EXCEPT ![c] = task]
  <2>1. call' = [call EXCEPT ![c] = task]
    OBVIOUS
  <2>2. old \in Call
    OBVIOUS
  <2> QED  BY ONLY <2>1, <2>2 DEF Call
<1> HIDE DEF task
<1>2. call'[c] = task /\ \A one, other \in Callers : Meet(one, other)' => one = other
  BY <1>1, NoNewMeet
<1>3. CallInv(c)'
  <2>1. CallInv(c)
    BY InvParts DEF CallsInv
  <2>2. ~InIssue(c) /\ ~InIssue(c)' /\ Owns(c)' /\ old.counted = {}
    BY <1>1, <1>2, <2>1 DEF InIssue, Owns, CallInv
  <2>3. challenge[KeyOf[c]].status # "accepted" /\ Issued(Keys)' = Issued(Keys)
    BY <2>1 DEF CallInv, Issued
  <2> QED  BY <1>1, <1>2, <2>1, <2>2, <2>3 DEF CallInv, Holds
<1> QED  BY <1>1, <1>2, <1>3, CallOnlyKeeps

LEMMA OwnerKeeps ==
    ASSUME CodesInv, NEW c \in Callers, RefuseSend(c) \/ Answer(c)
    PROVE  Kept
<1>0. TypeOK
  BY InvParts
<1>1. PICK old \in Call : old = call[c]
  BY <1>0, TypeFacts
<1>2. Owns(c) /\ old.pc # "failed"
      /\ UNCHANGED <<challenge, counts, asked, sent, host, executed>>
  BY <1>1 DEF RefuseSend, Answer, Owns
<1>3. ASSUME NEW error \in {"failed", "unknown"},
             call' = [call EXCEPT ![c].pc = "failed", ![c].error = error]
      PROVE  Kept
  <2>1. call' = [call EXCEPT ![c] = [old EXCEPT !.pc = "failed", !.error = error]]
    BY <1>0, <1>1, <1>3, TypeFacts
  <2> QED  BY <1>1, <1>2, <2>1, OwnerMoves
<1>4. ASSUME KeyOf[c] \in sent, call' = [call EXCEPT ![c].pc = "accepted"] PROVE Kept
  <2>1. PICK error \in {"none", "failed", "unanswered", "unknown"} : error = old.error
    BY DEF Call
  <2>2. call' = [call EXCEPT ![c] = [old EXCEPT !.pc = "accepted", !.error = error]]
    BY <1>0, <1>1, <1>4, <2>1, TypeFacts DEF Call
  <2> QED  BY <1>1, <1>2, <1>4, <2>2, OwnerMoves
<1>5. CASE RefuseSend(c)
  BY <1>3, <1>5 DEF RefuseSend
<1>6. CASE Answer(c)
  BY <1>3, <1>4, <1>6 DEF Answer
<1> QED  BY <1>5, <1>6

\* The one step that asks, and the one call that takes it.
LEMMA AskKeeps ==
    ASSUME CodesInv, NEW c \in Callers, AskProvider(c)
    PROVE  Kept
<1>0. /\ TypeOK /\ HostsHoldProofs /\ OneActivePerSubject /\ CountsInv
      /\ CallsInv /\ \A k \in Keys : Row(k)
  BY InvParts
<1>1. PICK old \in Call : old = call[c]
  BY <1>0, TypeFacts
<1>2. PICK k \in Keys : k = KeyOf[c]
  BY <1>0, TypeFacts
<1> DEFINE task == [old EXCEPT !.pc = "asking"]
<1>3. /\ task \in Call /\ task.pc = "asking" /\ task.counted = old.counted
      /\ task.outcome = old.outcome /\ task.error = old.error
  BY DEF Call
<1>4. /\ call' = [call EXCEPT ![c] = task] /\ old.pc = "owner"
      /\ asked' = [asked EXCEPT ![k] = @ + 1]
      /\ sent' \in {sent, sent \cup {k}}
      /\ UNCHANGED <<challenge, counts, host, executed>>
  BY <1>0, <1>1, <1>2, TypeFacts DEF AskProvider
<1> HIDE DEF task
<1>5. CallInv(c) /\ Owns(c) /\ old.counted = {}
  BY <1>0, <1>1, <1>4 DEF CallsInv, CallInv, Owns, InIssue
<1>6. /\ call'[c] = task
      /\ \A other \in Callers : other # c => call'[other] = call[other]
      /\ \A one, other \in Callers : Meet(one, other)' => one = other
  BY <1>1, <1>3, <1>4, <1>5, NoNewMeet
<1>7. /\ asked[k] = 0 /\ asked' \in [Keys -> Nat] /\ asked'[k] = 1
      /\ \A x \in Keys : x # k => asked'[x] = asked[x]
  BY <1>0, <1>1, <1>2, <1>4, <1>5, TypeFacts DEF CallInv
<1>8. TypeOK'
  <2>1. call' \in [Callers -> Call] /\ sent' \subseteq Keys
    BY <1>0, <1>3, <1>4, CallMoves, TypeFacts
  <2> QED  BY <1>0, <1>4, <1>7, <2>1 DEF TypeOK, counts
<1>9. ASSUME NEW x \in Keys PROVE Row(x)' /\ Decided(x)
  <2>1. CASE x # k
    BY <1>0, <1>4, <1>7, <2>1, RowKept
  <2>2. CASE x = k
    BY <1>0, <1>2, <1>4, <1>5, <1>7, <2>2 DEF Row, Decided, CallInv, Issued
  <2> QED  BY <2>1, <2>2
<1>10. HostsHoldProofs'
  BY <1>0, <1>4, HostsKept
<1>11. \A x \in Keys : (Active(x)' <=> Active(x)) /\ Steady(x)
  BY <1>4 DEF Active, Steady
<1>12. OneActivePerSubject'
  BY <1>0, <1>11 DEF OneActivePerSubject
<1>13. CountsInv'
  <2>1. /\ \A p \in Phones : phoneCount'[p] >= phoneCount[p]
        /\ tenantCount' >= tenantCount
    BY <1>0, <1>4, TypeFacts DEF counts
  <2> QED  BY <1>0, <1>4, <1>8, <2>1, CountsKept
<1>14. CallInv(c)'
  <2>1. ~InIssue(c)' /\ Owns(c)' /\ Issued(Keys)' = Issued(Keys)
    BY <1>3, <1>4, <1>6 DEF InIssue, Owns, Issued
  <2>2. challenge'[KeyOf[c]] = challenge[KeyOf[c]]
    BY <1>4
  <2>3. sent \subseteq sent'
    BY <1>4
  <2>4. challenge[KeyOf[c]].status # "accepted"
    BY <1>1, <1>4, <1>5 DEF CallInv
  <2> QED  BY <1>1, <1>3, <1>5, <1>6, <2>1, <2>2, <2>3, <2>4 DEF CallInv, Holds
<1>15. ASSUME NEW other \in Callers, other # c PROVE CallInv(other)'
  <2>1. CallInv(other) /\ KeyOf[other] \in Keys /\ call'[other] = call[other]
    BY <1>0, <1>6, <1>15, TypeFacts DEF CallsInv
  <2>2. call[other].pc = "owner" => asked'[KeyOf[other]] = asked[KeyOf[other]]
    <3>1. call[other].pc = "owner" => KeyOf[other] # k
      BY <1>0, <1>2, <1>5, <1>15 DEF CallsInv, Meet, Owns
    <3> QED  BY <1>7, <2>1, <3>1
  <2>3. /\ InIssue(other) => challenge'[KeyOf[other]].status = "absent"
        /\ UNCHANGED <<phoneCount, tenantCount>> /\ sent \subseteq sent'
    BY <1>4, <2>1 DEF CallInv, counts
  <2> QED  BY <1>4, <1>11, <2>1, <2>2, <2>3, CallKept
<1>16. CallsInv'
  BY <1>6, <1>14, <1>15 DEF CallsInv
<1> QED  BY <1>8, <1>9, <1>10, <1>12, <1>13, <1>16 DEF Kept

-----------------------------------------------------------------------------
(* Commits that write one row                                               *)

LEMMA OneRowKeeps ==
    ASSUME CodesInv, NEW k \in Keys, NEW row \in Challenge,
           challenge' = [challenge EXCEPT ![k] = row],
           UNCHANGED <<counts, asked, sent>>, TypeOK', HostsHoldProofs',
           challenge[k].status # "absent", row.status # "absent",
           row.error = "limited" <=> challenge[k].error = "limited",
           row.error = "none" => challenge[k].error = "none",
           row.consumedBy = NoKey => challenge[k].consumedBy = NoKey,
           Row(k)', Decided(k), Steady(k),
           \A x \in Keys : x # k => executed'[x] = executed[x],
           \A c \in Callers :
              \/ /\ call'[c] = call[c]
                 /\ Owns(c) /\ KeyOf[c] = k /\ row.status = "accepted" =>
                       challenge[k].status = "accepted"
              \/ CallInv(c)',
           \A one, other \in Callers : Meet(one, other)' => one = other
    PROVE  Kept
<1>0. /\ TypeOK /\ OneActivePerSubject /\ CountsInv
      /\ CallsInv /\ \A x \in Keys : Row(x)
  BY InvParts
<1>1. /\ challenge'[k] = row
      /\ \A x \in Keys : x # k => challenge'[x] = challenge[x]
      /\ UNCHANGED <<phoneCount, tenantCount>>
  BY <1>0, ChallengeMoves DEF counts
<1>2. ASSUME NEW x \in Keys PROVE Row(x)' /\ Decided(x)
  BY <1>0, <1>1, RowKept
<1>3. \A x \in Keys : (Active(x)' => Active(x)) /\ Steady(x)
  BY <1>1 DEF Active, Steady
<1>4. OneActivePerSubject'
  BY <1>0, <1>3 DEF OneActivePerSubject
<1>5. CountsInv'
  <2>1. /\ \A p \in Phones : phoneCount'[p] >= phoneCount[p]
        /\ tenantCount' >= tenantCount
    BY <1>0, <1>1, TypeFacts
  <2>2. \A x \in Keys :
           challenge'[x].status # "absent" /\ challenge'[x].error # "limited"
           <=> challenge[x].status # "absent" /\ challenge[x].error # "limited"
    BY <1>1
  <2> QED  BY <1>0, <2>1, <2>2, CountsKept
<1>6. ASSUME NEW c \in Callers, call'[c] = call[c],
             Owns(c) /\ KeyOf[c] = k /\ row.status = "accepted" =>
                challenge[k].status = "accepted"
      PROVE  CallInv(c)'
  <2>1. CallInv(c) /\ KeyOf[c] \in Keys
    BY <1>0, TypeFacts DEF CallsInv
  <2>2. InIssue(c) => challenge'[KeyOf[c]].status = "absent"
    BY <1>1, <2>1 DEF CallInv
  <2>3. Owns(c) /\ challenge'[KeyOf[c]].status = "accepted" =>
           challenge[KeyOf[c]].status = "accepted"
    BY <1>1, <1>6, <2>1
  <2> QED  BY <1>1, <1>3, <1>6, <2>1, <2>2, <2>3, CallKept
<1>7. CallsInv'
  BY <1>6 DEF CallsInv
<1> QED  BY <1>2, <1>4, <1>5, <1>7 DEF Kept

\* A row that nobody but its caller, its user or its own key may write.
LEMMA TypesOfCommit ==
    ASSUME TypeOK, NEW k \in Keys, NEW row \in Challenge,
           challenge' = [challenge EXCEPT ![k] = row],
           UNCHANGED <<counts, asked, sent>>,
           call' \in [Callers -> Call], host' \in [Hosts -> Host],
           executed' \in [Keys -> Nat]
    PROVE  TypeOK'
BY ChallengeMoves DEF TypeOK, counts

\* A write to a challenge spares the hosts that hold other rows.
LEMMA HostsSpared ==
    ASSUME TypeOK, HostsHoldProofs, NEW k \in Keys, NEW row \in Challenge,
           challenge' = [challenge EXCEPT ![k] = row], UNCHANGED host,
           Free(k) \/ /\ row.verified = challenge[k].verified
                      /\ row.status = challenge[k].status
                      /\ row.consumedBy = challenge[k].consumedBy
    PROVE  HostsHoldProofs'
<1>1. \A x \in Keys : ~Free(x) => /\ challenge'[x].verified = challenge[x].verified
                                  /\ challenge'[x].status = challenge[x].status
                                  /\ challenge'[x].consumedBy = challenge[x].consumedBy
  BY ChallengeMoves
<1> QED  BY <1>1, HostsKept

\* Steps of the user and of the clock.
LEMMA UserKeeps ==
    ASSUME CodesInv, NEW k \in Keys, UserStep(k)
    PROVE  Kept
<1>0. /\ TypeOK /\ HostsHoldProofs /\ Row(k)
      /\ \A one, other \in Callers : Meet(one, other) => one = other
  BY InvParts DEF CallsInv
<1>t. challenge \in [Keys -> Challenge] /\ call \in [Callers -> Call]
      /\ host \in [Hosts -> Host] /\ executed \in [Keys -> Nat]
  BY <1>0, TypeFacts
<1>1. PICK old \in Challenge : old = challenge[k]
  BY <1>t
<1>2. ASSUME NEW row \in Challenge, challenge' = [challenge EXCEPT ![k] = row],
             UNCHANGED <<call, counts, asked, sent, host, executed>>,
             old.status # "absent",
             row.status = old.status, row.error = old.error, row.consumedBy = old.consumedBy,
             row.verified = old.verified \/ (Free(k) /\ old.error = "none" /\ old.status = "accepted"),
             old.verified => row.verified,
             row.verified => k \in sent /\ row.attempts < MaxAttempts
      PROVE  Kept
  <2>1. TypeOK'
    BY <1>0, <1>t, <1>2, TypesOfCommit
  <2>2. HostsHoldProofs'
    BY <1>0, <1>1, <1>2, HostsSpared
  <2>3. challenge'[k] = row
    BY <1>0, <1>2, ChallengeMoves
  <2>4. Row(k)' /\ Decided(k) /\ Steady(k)
    BY <1>0, <1>1, <1>2, <2>3 DEF Row, Decided, Steady
  <2>5. \A one, other \in Callers : Meet(one, other)' => one = other
    BY <1>0, <1>2, PairsKept DEF InIssue, Owns, Holds
  <2> QED  BY <1>1, <1>2, <2>1, <2>2, <2>4, <2>5, OneRowKeeps
<1>3. CASE WrongCode(k)
  <2> DEFINE row == [old EXCEPT !.attempts = @ + 1]
  <2>1. /\ row \in Challenge /\ row.status = old.status /\ row.error = old.error
        /\ row.consumedBy = old.consumedBy /\ row.verified = old.verified
    <3>1. old.attempts + 1 \in 0..MaxAttempts
      BY <1>1, <1>3, SmsChallengeConstants DEF WrongCode, Verifiable, Challenge
    <3> QED  BY <3>1 DEF Challenge
  <2>2. challenge' = [challenge EXCEPT ![k] = row]
    BY <1>t, <1>1, <1>3 DEF WrongCode
  <2>3. ~old.verified /\ old.status = "accepted"
        /\ UNCHANGED <<call, counts, asked, sent, host, executed>>
    BY <1>1, <1>3 DEF WrongCode, Verifiable
  <2> HIDE DEF row
  <2> QED  BY <1>2, <2>1, <2>2, <2>3
<1>4. CASE Verify(k)
  <2> DEFINE row == [old EXCEPT !.verified = TRUE]
  <2>1. /\ row \in Challenge /\ row.status = old.status /\ row.error = old.error
        /\ row.consumedBy = old.consumedBy /\ row.verified = TRUE
        /\ row.attempts = old.attempts
    BY DEF Challenge
  <2>2. challenge' = [challenge EXCEPT ![k] = row]
    BY <1>t, <1>1, <1>4 DEF Verify
  <2>3. /\ Free(k) /\ old.error = "none" /\ old.status = "accepted"
        /\ k \in sent /\ old.attempts < MaxAttempts
        /\ UNCHANGED <<call, counts, asked, sent, host, executed>>
    BY <1>0, <1>1, <1>4 DEF Verify, Verifiable, Row
  <2> HIDE DEF row
  <2> QED  BY <1>2, <2>1, <2>2, <2>3
<1>5. CASE Expire(k)
  <2> DEFINE row == [old EXCEPT !.expired = TRUE]
  <2>1. /\ row \in Challenge /\ row.status = old.status /\ row.error = old.error
        /\ row.consumedBy = old.consumedBy /\ row.verified = old.verified
        /\ row.attempts = old.attempts
    BY DEF Challenge
  <2>2. challenge' = [challenge EXCEPT ![k] = row]
    BY <1>t, <1>1, <1>5 DEF Expire
  <2>3. /\ old.status # "absent"
        /\ old.verified => k \in sent /\ old.attempts < MaxAttempts
        /\ UNCHANGED <<call, counts, asked, sent, host, executed>>
    BY <1>0, <1>1, <1>5 DEF Expire, Row
  <2> HIDE DEF row
  <2> QED  BY <1>2, <2>1, <2>2, <2>3
<1> QED  BY <1>3, <1>4, <1>5 DEF UserStep

\* What a call may write into the row of its key ...
Verdict(c, k, old, row) ==
    /\ old.status # "absent" /\ row.status # "absent"
    /\ row.error # "limited" \/ row = old
    /\ row.verified = old.verified /\ row.consumedBy = old.consumedBy
    /\ row.attempts = old.attempts
    /\ row.error = "none" <=> row.status \in {"absent", "pending", "accepted"}
    /\ row.status = "accepted" => k \in sent
    /\ row.error # "superseded" \/ row = old
    /\ old.error # "none" => row = old
    /\ row.status = "accepted" /\ old.status # "accepted" => Owns(c)
    /\ old.status = "accepted" => row.status = "accepted" \/ row.error = "unanswered"

\* ... and how it goes on.
GoesOn(c, k, row, task) ==
    /\ task.pc = "ended" \/ (task.pc = "failed" /\ Owns(c))
    /\ task.counted = {}
    /\ task.outcome = "ok" => /\ k \in sent
                              /\ \/ row.status = "accepted"
                                 \/ row.error \in {"superseded", "unanswered"}
    /\ task.pc = "failed" => /\ task.error # "none"
                             /\ row.status = "accepted" => task.error = "unanswered"

\* A call that writes the verdict on its challenge and goes on with it, or ends.
LEMMA CallerCommits ==
    ASSUME CodesInv, NEW c \in Callers, NEW k \in Keys, k = KeyOf[c],
           NEW row \in Challenge, NEW task \in Call, NEW old \in Challenge, old = challenge[k],
           call' = [call EXCEPT ![c] = task], challenge' = [challenge EXCEPT ![k] = row],
           UNCHANGED <<counts, asked, sent, host, executed>>, Free(k),
           Verdict(c, k, old, row), GoesOn(c, k, row, task)
    PROVE  Kept
<1> USE DEF Verdict, GoesOn
<1>0. TypeOK /\ HostsHoldProofs /\ Row(k) /\ CallInv(c)
      /\ \A one, other \in Callers : Meet(one, other) => one = other
  BY InvParts DEF CallsInv
<1>1. /\ challenge'[k] = row
      /\ call' \in [Callers -> Call]
      /\ host' \in [Hosts -> Host] /\ executed' \in [Keys -> Nat]
  BY <1>0, ChallengeMoves, CallMoves, TypeFacts
<1>2. TypeOK'
  BY <1>0, <1>1, TypesOfCommit
<1>3. HostsHoldProofs'
  BY <1>0, HostsSpared
<1>4. /\ row.error = "limited" <=> old.error = "limited"
      /\ row.error = "none" => old.error = "none"
  <2>1. CASE row = old
    BY <2>1
  <2>2. CASE row # old
    BY <2>2
  <2> QED  BY <2>1, <2>2
<1>5. Row(k)' /\ Decided(k)
  <2>1. row.consumedBy # NoKey => row.verified /\ row.error # "superseded"
    BY <1>0 DEF Row
  <2>2. row.verified => k \in sent /\ row.attempts < MaxAttempts
    BY <1>0 DEF Row
  <2>3. asked[k] > 0 => row.status # "absent" /\ row.error # "limited"
    BY <1>0, <1>4 DEF Row
  <2>4. executed[k] = IF row.consumedBy = NoKey THEN 0 ELSE 1
    BY <1>0 DEF Row
  <2>5. Row(k)'
    BY <1>0, <1>1, <2>1, <2>2, <2>3, <2>4 DEF Row
  <2>6. Decided(k)
    BY <1>1, <2>1 DEF Decided
  <2> QED  BY <2>5, <2>6
<1>6. Steady(k)
  <2>1. CASE row = old
    BY <1>1, <2>1 DEF Steady
  <2>2. CASE row # old
    BY <1>0, <1>1, <1>4, <2>2 DEF Steady, Row
  <2> QED  BY <2>1, <2>2
<1>7. /\ call'[c] = task
      /\ \A other \in Callers : other # c => call'[other] = call[other]
      /\ \A one, other \in Callers : Meet(one, other)' => one = other
  BY NoNewMeet
<1>8. CallInv(c)'
  <2>1. ~InIssue(c)' /\ (Owns(c)' => Owns(c))
    BY <1>7 DEF InIssue, Owns
  <2>2. Owns(c)' => KeyOf[c] \in Issued(Keys)'
    BY <1>0, <1>1, <1>4, <2>1 DEF CallInv, Issued
  <2> QED  BY <1>1, <1>7, <2>1, <2>2 DEF CallInv, Holds, Owns
<1>9. ASSUME NEW other \in Callers, other # c
      PROVE  /\ call'[other] = call[other]
             /\ Owns(other) /\ KeyOf[other] = k /\ row.status = "accepted" =>
                   challenge[k].status = "accepted"
  <2>1. Owns(c) /\ Owns(other) => KeyOf[other] # k
    BY <1>0, <1>9 DEF Meet
  <2> QED  BY <1>7, <1>9, <2>1
<1>10. /\ challenge[k].status # "absent"
       /\ row.error = "limited" <=> challenge[k].error = "limited"
       /\ row.error = "none" => challenge[k].error = "none"
       /\ row.consumedBy = NoKey => challenge[k].consumedBy = NoKey
       /\ \A x \in Keys : x # k => executed'[x] = executed[x]
  BY <1>4
<1>11. \A x \in Callers :
          \/ /\ call'[x] = call[x]
             /\ Owns(x) /\ KeyOf[x] = k /\ row.status = "accepted" =>
                   challenge[k].status = "accepted"
          \/ CallInv(x)'
  BY <1>8, <1>9
<1> QED  BY <1>2, <1>3, <1>5, <1>6, <1>7, <1>10, <1>11, OneRowKeeps, ZenonT(60)

LEMMA FailKeeps ==
    ASSUME CodesInv, NEW c \in Callers, Fail(c) \/ TimeOut(c)
    PROVE  Kept
<1>0. TypeOK /\ CallInv(c) /\ challenge \in [Keys -> Challenge] /\ KeyOf[c] \in Keys
      /\ call[c] \in Call /\ Row(KeyOf[c])
  BY InvParts, TypeFacts DEF CallsInv
<1>1. PICK k \in Keys : k = KeyOf[c]
  BY <1>0
<1>2. PICK old \in Challenge : old = challenge[k]
  BY <1>0
<1> DEFINE task == Ended("error")
<1>3. task \in Call /\ task.pc = "ended" /\ task.counted = {} /\ task.outcome = "error"
  BY CallTypes
<1>4. ASSUME NEW status \in {"rejected", "unknown"},
             NEW error \in {"failed", "unanswered", "unknown"},
             challenge' = [challenge EXCEPT ![KeyOf[c]] = Invalidated(@, status, error)],
             call' = [call EXCEPT ![c] = Ended("error")],
             UNCHANGED <<counts, asked, sent, host, executed>>, Free(KeyOf[c]),
             challenge[KeyOf[c]].status # "absent",
             challenge[KeyOf[c]].status = "accepted" => error = "unanswered"
      PROVE  Kept
  <2> DEFINE row == Invalidated(old, status, error)
  <2>1. /\ row \in Challenge
        /\ old.error # "none" => row = old
        /\ old.error = "none" => row.status = status /\ row.error = error
        /\ row.verified = old.verified /\ row.consumedBy = old.consumedBy
        /\ row.attempts = old.attempts
    BY InvalidatedType
  <2>2. challenge' = [challenge EXCEPT ![k] = row]
    BY <1>0, <1>1, <1>2, <1>4
  <2> HIDE DEF row, task
  <2>3. /\ old.error = "none" <=> old.status \in {"absent", "pending", "accepted"}
        /\ old.status = "accepted" => k \in sent
    BY <1>0, <1>1, <1>2 DEF Row
  <2>4. /\ row.error = "none" <=> row.status \in {"absent", "pending", "accepted"}
        /\ row.status # "absent" /\ row.status # "accepted"
        /\ row.error # "limited" \/ row = old
        /\ row.error # "superseded" \/ row = old
        /\ old.status = "accepted" => row.error = "unanswered"
    <3>1. CASE old.error = "none"
      BY <1>1, <1>2, <1>4, <2>1, <2>3, <3>1
    <3>2. CASE old.error # "none"
      BY <1>1, <1>2, <1>4, <2>1, <2>3, <3>2
    <3> QED  BY <3>1, <3>2
  <2>5. call' = [call EXCEPT ![c] = task]
    BY <1>4 DEF task
  <2>6. Verdict(c, k, old, row)
    BY <1>1, <1>2, <1>4, <2>1, <2>4 DEF Verdict
  <2>7. GoesOn(c, k, row, task)
    BY <1>3 DEF task, GoesOn
  <2>8. UNCHANGED <<counts, asked, sent, host, executed>> /\ Free(k)
    BY <1>1, <1>4
  <2> QED  BY <1>1, <1>2, <1>3, <2>1, <2>2, <2>5, <2>6, <2>7, <2>8, CallerCommits
<1>5. CASE Fail(c)
  <2>1. Owns(c) /\ call[c].error \in {"failed", "unanswered", "unknown"}
    BY <1>0, <1>5 DEF Fail, Owns, CallInv, Call
  <2>2. /\ challenge[KeyOf[c]].status # "absent"
        /\ challenge[KeyOf[c]].status = "accepted" => call[c].error = "unanswered"
    BY <1>0, <2>1 DEF CallInv, Issued
  <2>3. PICK status \in {"rejected", "unknown"} :
           status = IF call[c].error = "unknown" THEN "unknown" ELSE "rejected"
    OBVIOUS
  <2>4. PICK error \in {"failed", "unanswered", "unknown"} : error = call[c].error
    BY <2>1
  <2>5. challenge' = [challenge EXCEPT ![KeyOf[c]] = Invalidated(@, status, error)]
    BY <1>5, <2>3, <2>4 DEF Fail
  <2> QED  BY <1>4, <1>5, <2>2, <2>4, <2>5 DEF Fail
<1>6. CASE TimeOut(c)
  BY <1>4, <1>6 DEF TimeOut
<1> QED  BY <1>5, <1>6

LEMMA MarkAcceptedKeeps ==
    ASSUME CodesInv, NEW c \in Callers, MarkAccepted(c)
    PROVE  Kept
<1>0. TypeOK /\ CallInv(c) /\ challenge \in [Keys -> Challenge] /\ KeyOf[c] \in Keys
      /\ call \in [Callers -> Call] /\ Row(KeyOf[c])
  BY InvParts, TypeFacts DEF CallsInv
<1>1. PICK k \in Keys : k = KeyOf[c]
  BY <1>0
<1>2. PICK old \in Challenge : old = challenge[k]
  BY <1>0
<1>3. PICK mine \in Call : mine = call[c]
  BY <1>0
<1>4. /\ mine.pc = "accepted" /\ Owns(c) /\ Free(k) /\ mine.counted = {}
      /\ UNCHANGED <<counts, asked, sent, host, executed>>
      /\ k \in sent /\ old.status # "absent" /\ old.error # "limited" /\ old.status # "accepted"
      /\ mine.outcome = "ok" => old.error \in {"superseded", "unanswered"}
      /\ old.error = "none" <=> old.status \in {"absent", "pending", "accepted"}
  BY <1>0, <1>1, <1>2, <1>3 DEF MarkAccepted, Owns, CallInv, Issued, InIssue, Row
<1> DEFINE row == Accepted(old)
<1>5. /\ row \in Challenge
      /\ old.status = "pending" => row.status = "accepted"
      /\ old.status # "pending" => row = old
      /\ row.error = old.error /\ row.verified = old.verified
      /\ row.consumedBy = old.consumedBy /\ row.attempts = old.attempts
  BY DEF Accepted, Challenge
<1>6. challenge' = [challenge EXCEPT ![k] = row] /\ challenge'[KeyOf[c]] = row
  BY <1>0, <1>1, <1>2 DEF MarkAccepted
<1> HIDE DEF row
<1>7. /\ row.status # "absent"
      /\ row.error = "none" <=> row.status \in {"absent", "pending", "accepted"}
      /\ row.error = "none" => row.status = "accepted"
      /\ old.error # "none" => row = old
      /\ row.error # "limited" /\ (row.error # "superseded" \/ row = old)
  <2>1. CASE old.status = "pending"
    BY <1>4, <1>5, <2>1
  <2>2. CASE old.status # "pending"
    BY <1>4, <1>5, <2>2
  <2> QED  BY <2>1, <2>2
<1>8. ASSUME row.error = "none", call' = [call EXCEPT ![c] = Ended("ok")] PROVE Kept
  <2> DEFINE task == Ended("ok")
  <2>1. /\ task \in Call /\ task.pc = "ended" /\ task.counted = {}
        /\ call' = [call EXCEPT ![c] = task]
    BY <1>8, CallTypes
  <2>2. Verdict(c, k, old, row) /\ GoesOn(c, k, row, task)
    BY <1>4, <1>5, <1>7, <1>8, <2>1 DEF Verdict, GoesOn
  <2> HIDE DEF task
  <2> QED  BY <1>1, <1>2, <1>4, <1>5, <1>6, <2>1, <2>2, CallerCommits
<1>9. ASSUME NEW error \in {"unanswered", "failed"},
             error = IF row.error = "none" THEN "unanswered" ELSE "failed",
             call' = [call EXCEPT ![c].pc = "failed", ![c].error = error]
      PROVE  Kept
  <2> DEFINE task == [mine EXCEPT !.pc = "failed", !.error = error]
  <2>1. /\ task \in Call /\ task.pc = "failed" /\ task.counted = mine.counted
        /\ task.outcome = mine.outcome /\ task.error = error
    BY DEF Call
  <2>2. call' = [call EXCEPT ![c] = task]
    BY <1>0, <1>3, <1>9
  <2> HIDE DEF task
  <2>3. row.status = "accepted" => error = "unanswered"
    BY <1>7, <1>9
  <2>4. task.outcome = "ok" => /\ k \in sent
                               /\ \/ row.status = "accepted"
                                  \/ row.error \in {"superseded", "unanswered"}
    BY <1>4, <1>5, <2>1
  <2>5. Verdict(c, k, old, row)
    BY <1>4, <1>5, <1>7 DEF Verdict
  <2>6. GoesOn(c, k, row, task)
    BY <1>4, <2>1, <2>3, <2>4 DEF GoesOn
  <2> QED  BY <1>1, <1>2, <1>4, <1>5, <1>6, <2>1, <2>2, <2>5, <2>6, CallerCommits
<1> QED  BY <1>6, <1>8, <1>9 DEF MarkAccepted

-----------------------------------------------------------------------------
(* The host's operations                                                    *)

LEMMA HostTypes ==
    ASSUME NEW k \in Keys, NEW key \in ConsumptionKeys, NEW replay \in BOOLEAN
    PROVE  /\ [pc |-> "locked", of |-> k, key |-> key, replay |-> replay] \in Host
           /\ IdleHost \in Host /\ IdleHost.pc = "idle"
BY DEF Host, IdleHost

LEMMA IdleHostType == IdleHost \in Host /\ IdleHost.pc = "idle"
BY DEF Host, IdleHost

\* Only a host moves: the rows, the calls and the limits are as they were.
LEMMA HostOnlyKeeps ==
    ASSUME CodesInv, UNCHANGED <<call, challenge, counts, asked, sent, executed>>,
           host' \in [Hosts -> Host], HostsHoldProofs'
    PROVE  Kept
<1>0. /\ TypeOK /\ OneActivePerSubject /\ CountsInv /\ CallsInv /\ \A k \in Keys : Row(k)
  BY InvParts
<1>1. TypeOK'
  BY <1>0 DEF TypeOK, counts
<1>2. \A k \in Keys : Row(k)' /\ Decided(k)
  BY <1>0, RowKept
<1>3. OneActivePerSubject'
  BY <1>0 DEF OneActivePerSubject, Active
<1>4. CountsInv'
  <2>1. /\ \A p \in Phones : phoneCount'[p] >= phoneCount[p]
        /\ tenantCount' >= tenantCount
    BY <1>0, TypeFacts DEF counts
  <2> QED  BY <1>0, <1>1, <2>1, CountsKept
<1>5. \A k \in Keys : Steady(k) /\ (Active(k)' <=> Active(k))
  BY DEF Steady, Active
<1>6. ASSUME NEW c \in Callers PROVE CallInv(c)'
  <2>1. CallInv(c) /\ KeyOf[c] \in Keys
    BY <1>0, TypeFacts DEF CallsInv
  <2>2. InIssue(c) => challenge'[KeyOf[c]].status = "absent"
    BY <2>1 DEF CallInv
  <2>3. UNCHANGED <<phoneCount, tenantCount>>
    BY DEF counts
  <2> QED  BY <1>5, <2>1, <2>2, <2>3, CallKept
<1>7. \A one, other \in Callers : Meet(one, other)' => one = other
  BY <1>0, PairsKept DEF CallsInv, InIssue, Owns, Holds
<1>8. CallsInv'
  BY <1>6, <1>7 DEF CallsInv
<1> QED  BY <1>1, <1>2, <1>3, <1>4, <1>8 DEF Kept

LEMMA ConsumeProofKeeps ==
    ASSUME CodesInv, NEW h \in Hosts, NEW k \in Keys, NEW key \in ConsumptionKeys,
           ConsumeProof(h, k, key)
    PROVE  Kept
<1>0. TypeOK /\ HostsHoldProofs /\ host \in [Hosts -> Host]
  BY InvParts, TypeFacts
<1>1. PICK replay \in BOOLEAN : replay = (challenge[k].consumedBy # NoKey)
  OBVIOUS
<1> DEFINE task == [pc |-> "locked", of |-> k, key |-> key, replay |-> replay]
<1>2. host' = [host EXCEPT ![h] = task]
  BY <1>1 DEF ConsumeProof
<1>3. /\ task \in Host /\ task.pc = "locked" /\ task.of = k /\ task.key = key
      /\ task.replay = replay
  BY HostTypes
<1>4. /\ Free(k) /\ challenge[k].verified /\ challenge[k].status = "accepted"
      /\ UNCHANGED <<call, challenge, counts, asked, sent, executed>>
  BY DEF ConsumeProof
<1> HIDE DEF task
<1>5. /\ host' \in [Hosts -> Host] /\ host'[h] = task
      /\ \A x \in Hosts : x # h => host'[x] = host[x]
  BY <1>0, <1>2, <1>3
<1>6. HostsHoldProofs'
  <2>1. ASSUME NEW x \in Hosts, host'[x].pc = "locked"
        PROVE  /\ host'[x].of \in Keys /\ host'[x].key \in ConsumptionKeys
               /\ challenge'[host'[x].of].verified /\ challenge'[host'[x].of].status = "accepted"
               /\ host'[x].replay <=> challenge'[host'[x].of].consumedBy # NoKey
               /\ \A other \in Hosts :
                     host'[other].pc = "locked" /\ host'[other].of = host'[x].of => other = x
    <3>1. CASE x = h
      <4>1. \A other \in Hosts : other # h => host'[other].of # k
        BY <1>4, <1>5 DEF Free
      <4> QED  BY <1>1, <1>3, <1>4, <1>5, <3>1, <4>1
    <3>2. CASE x # h
      BY <1>0, <1>3, <1>4, <1>5, <2>1, <3>2 DEF HostsHoldProofs, Free
    <3> QED  BY <3>1, <3>2
  <2> QED  BY <2>1 DEF HostsHoldProofs
<1> QED  BY <1>4, <1>5, <1>6, HostOnlyKeeps

\* The write that a proof protects commits with its consumption, or not at all.
LEMMA HostEndsKeeps ==
    ASSUME CodesInv, NEW h \in Hosts, CommitHost(h) \/ RollbackHost(h)
    PROVE  Kept
<1>0. /\ TypeOK /\ HostsHoldProofs /\ CallsInv /\ \A k \in Keys : Row(k)
      /\ host \in [Hosts -> Host] /\ challenge \in [Keys -> Challenge]
      /\ executed \in [Keys -> Nat] /\ call \in [Callers -> Call]
  BY InvParts, TypeFacts
<1>1. /\ host' = [host EXCEPT ![h] = IdleHost] /\ host[h].pc = "locked"
      /\ UNCHANGED <<call, counts, asked, sent>>
  BY DEF CommitHost, RollbackHost
<1>2. /\ host' \in [Hosts -> Host] /\ host'[h].pc = "idle"
      /\ \A x \in Hosts : x # h => host'[x] = host[x]
  BY <1>0, <1>1, IdleHostType
<1>3. CASE UNCHANGED <<challenge, executed>>
  <2>1. HostsHoldProofs'
    BY <1>0, <1>2, <1>3 DEF HostsHoldProofs
  <2> QED  BY <1>1, <1>2, <1>3, <2>1, HostOnlyKeeps
<1>4. CASE /\ ~host[h].replay
           /\ challenge' = [challenge EXCEPT ![host[h].of].consumedBy = host[h].key]
           /\ executed' = [executed EXCEPT ![host[h].of] = @ + 1]
  <2>1. PICK k \in Keys, key \in ConsumptionKeys : k = host[h].of /\ key = host[h].key
    BY <1>0, <1>1 DEF HostsHoldProofs
  <2>2. PICK old \in Challenge : old = challenge[k]
    BY <1>0
  <2>3. old.verified /\ old.status = "accepted" /\ old.consumedBy = NoKey /\ key # NoKey
    BY <1>0, <1>1, <1>4, <2>1, <2>2, SmsChallengeConstants DEF HostsHoldProofs
  <2>4. old.error = "none" /\ k \in sent /\ old.attempts < MaxAttempts /\ executed[k] = 0
    BY <1>0, <2>2, <2>3 DEF Row
  <2> DEFINE row == [old EXCEPT !.consumedBy = key]
  <2>5. /\ row \in Challenge /\ row.consumedBy = key /\ row.status = old.status
        /\ row.error = old.error /\ row.verified = old.verified /\ row.attempts = old.attempts
    BY DEF Challenge
  <2>6. challenge' = [challenge EXCEPT ![k] = row]
    BY <1>0, <1>4, <2>1, <2>2
  <2> HIDE DEF row
  <2>7. /\ executed' \in [Keys -> Nat] /\ executed'[k] = 1
        /\ \A x \in Keys : x # k => executed'[x] = executed[x]
    BY <1>0, <1>4, <2>1, <2>4
  <2>8. /\ challenge'[k] = row
        /\ \A x \in Keys : x # k => challenge'[x] = challenge[x]
    BY <1>0, <2>5, <2>6, ChallengeMoves
  <2>9. TypeOK'
    BY <1>0, <1>1, <1>2, <2>5, <2>6, <2>7, TypesOfCommit
  <2>10. HostsHoldProofs'
    <3>1. ASSUME NEW x \in Hosts, host'[x].pc = "locked"
          PROVE  x # h /\ host[x].of # k /\ host'[x] = host[x]
      BY <1>0, <1>1, <1>2, <2>1, <3>1 DEF HostsHoldProofs
    <3>2. \A x \in Hosts : host'[x].pc = "locked" =>
             challenge'[host'[x].of] = challenge[host[x].of]
      BY <1>0, <1>2, <2>8, <3>1 DEF HostsHoldProofs
    <3> QED  BY <1>0, <3>1, <3>2 DEF HostsHoldProofs
  <2>11. Row(k)' /\ Decided(k) /\ Steady(k)
    <3>1. Row(k)'
      BY <1>0, <1>1, <2>2, <2>3, <2>4, <2>5, <2>7, <2>8 DEF Row
    <3>2. Decided(k) /\ Steady(k)
      BY <2>2, <2>3, <2>4, <2>5, <2>8 DEF Decided, Steady
    <3> QED  BY <3>1, <3>2
  <2>12. \A one, other \in Callers : Meet(one, other)' => one = other
    BY <1>0, <1>1, PairsKept DEF CallsInv, InIssue, Owns, Holds
  <2>13. \A c \in Callers :
            \/ /\ call'[c] = call[c]
               /\ Owns(c) /\ KeyOf[c] = k /\ row.status = "accepted" =>
                     challenge[k].status = "accepted"
            \/ CallInv(c)'
    BY <1>1, <2>2, <2>3
  <2>14. /\ UNCHANGED <<counts, asked, sent>>
         /\ challenge[k].status # "absent" /\ row.status # "absent"
         /\ row.error = "limited" <=> challenge[k].error = "limited"
         /\ row.error = "none" => challenge[k].error = "none"
         /\ row.consumedBy = NoKey => challenge[k].consumedBy = NoKey
    BY <1>1, <2>2, <2>3, <2>5
  <2> QED
    BY <2>5, <2>6, <2>7, <2>9, <2>10, <2>11, <2>12, <2>13, <2>14, OneRowKeeps, ZenonT(60)
<1> QED  BY <1>3, <1>4 DEF CommitHost, RollbackHost

-----------------------------------------------------------------------------
(* The commit of the transaction that decides                               *)

\* The key that is let through now has room in both limits.
LEMMA CommitCountsFacts ==
    ASSUME TypeOK, NEW c \in Callers, CommitCounts(c)
    PROVE  /\ phoneCount' \in [Phones -> Nat] /\ tenantCount' \in Nat
           /\ \A p \in Phones : /\ phoneCount'[p] >= phoneCount[p]
                                /\ p # Phone(c) => phoneCount'[p] = phoneCount[p]
           /\ Holds(c, "phone") => phoneCount'[Phone(c)] = phoneCount[Phone(c)] + 1
           /\ ~Holds(c, "phone") => phoneCount' = phoneCount
           /\ tenantCount' >= tenantCount
           /\ Holds(c, "tenant") => tenantCount' = tenantCount + 1
           /\ ~Holds(c, "tenant") => tenantCount' = tenantCount
<1>1. /\ phoneCount \in [Phones -> Nat] /\ tenantCount \in Nat /\ Phone(c) \in Phones
  BY TypeFacts
<1>2. CASE Holds(c, "phone")
  <2>1. phoneCount' = [phoneCount EXCEPT ![Phone(c)] = @ + 1]
    BY <1>2 DEF CommitCounts, Holds
  <2> QED  BY <1>1, <1>2, <2>1 DEF CommitCounts, Holds
<1>3. CASE ~Holds(c, "phone")
  <2>1. phoneCount' = [phoneCount EXCEPT ![Phone(c)] = @ + 0]
    BY <1>3 DEF CommitCounts, Holds
  <2>2. phoneCount' = phoneCount
    BY <1>1, <2>1
  <2> QED  BY <1>1, <1>3, <2>2 DEF CommitCounts, Holds
<1> QED  BY <1>2, <1>3

\* A new row, and the rows it supersedes.
Superseded(x) ==
    /\ Active(x) /\ Free(x)
    /\ challenge'[x].status = "rejected" /\ challenge'[x].error = "superseded"
    /\ challenge'[x].verified = challenge[x].verified
    /\ challenge'[x].consumedBy = challenge[x].consumedBy
    /\ challenge'[x].attempts = challenge[x].attempts

LEMMA FirstCommitKeeps ==
    ASSUME CodesInv, NEW c \in Callers, NEW k \in Keys, k = KeyOf[c], InIssue(c),
           NEW task \in Call, call' = [call EXCEPT ![c] = task], CommitCounts(c),
           task.pc \in {"ended", "owner"}, task.counted = {}, task.outcome # "ok",
           challenge' \in [Keys -> Challenge],
           UNCHANGED <<asked, sent, host, executed>>,
           \A x \in Keys : x # k => challenge'[x] = challenge[x] \/ Superseded(x),
           challenge'[k].status \in {"pending", "rejected"},
           challenge'[k].verified = FALSE, challenge'[k].consumedBy = NoKey,
           challenge'[k].error = "none" <=> challenge'[k].status = "pending",
           task.pc = "owner" => challenge'[k].error = "none",
           Active(k)' => Holds(c, "tenant") /\ \A x \in Keys : Active(x)' => x = k,
           CountsInv'
    PROVE  Kept
<1>0. /\ TypeOK /\ HostsHoldProofs /\ OneActivePerSubject /\ CallInv(c)
      /\ CallsInv /\ \A x \in Keys : Row(x)
  BY InvParts DEF CallsInv
<1>1. /\ challenge[k].status = "absent" /\ challenge[k].error = "none"
      /\ challenge[k].consumedBy = NoKey /\ asked[k] = 0 /\ executed[k] = 0
  <2>1. challenge[k] = NoChallenge
    BY <1>0 DEF CallInv, Row
  <2>2. asked[k] \in Nat /\ ~(asked[k] > 0)
    BY <1>0, <2>1, NoChallengeType, TypeFacts DEF Row
  <2> QED  BY <1>0, <2>1, <2>2, NoChallengeType DEF Row
<1>2. /\ call' \in [Callers -> Call] /\ call'[c] = task
      /\ \A other \in Callers : other # c => call'[other] = call[other]
  BY <1>0, CallMoves
<1>3. TypeOK'
  BY <1>0, <1>2, CommitCountsFacts DEF TypeOK
<1>4. ASSUME NEW x \in Keys PROVE Row(x)' /\ Decided(x) /\ Steady(x)
  <2>0. Row(x)
    BY <1>0
  <2>1. CASE x = k
    <3>1. Row(k)'
      BY <1>1 DEF Row
    <3> QED  BY <1>1, <2>1, <3>1 DEF Decided, Steady
  <2>2. CASE challenge'[x] = challenge[x]
    BY <2>0, <2>2, RowKept DEF Steady
  <2>3. CASE x # k /\ Superseded(x)
    BY <2>0, <2>3 DEF Row, Decided, Steady, Superseded, Active
  <2> QED  BY <2>1, <2>2, <2>3
<1>5. HostsHoldProofs'
  <2>1. ASSUME NEW h \in Hosts, host[h].pc = "locked"
        PROVE  challenge'[host[h].of] = challenge[host[h].of]
    <3>1. host[h].of \in Keys /\ host[h].of # k /\ ~Free(host[h].of)
      BY <1>0, <1>1, <2>1 DEF HostsHoldProofs, Free
    <3> QED  BY <3>1 DEF Superseded
  <2> QED  BY <1>0, <2>1 DEF HostsHoldProofs
<1>6. \A x \in Keys : x # k /\ Active(x)' => Active(x)
  BY DEF Active, Superseded
<1>7. OneActivePerSubject'
  BY <1>0, <1>6 DEF OneActivePerSubject
<1>8. ASSUME NEW other \in Callers, other # c PROVE CallInv(other)'
  <2>1. CallInv(other) /\ KeyOf[other] \in Keys /\ Phone(other) \in Phones
    BY <1>0, TypeFacts DEF CallsInv
  <2>2. /\ InIssue(other) => KeyOf[other] # k
        /\ Holds(other, "phone") /\ Holds(c, "phone") => Phone(other) # Phone(c)
        /\ ~(Holds(other, "tenant") /\ Holds(c, "tenant"))
    BY <1>0, <1>8 DEF CallsInv, Meet
  <2>3. InIssue(other) => challenge'[KeyOf[other]].status = "absent"
    BY <2>1, <2>2 DEF CallInv, Superseded, Active
  <2>4. Holds(other, "phone") => phoneCount'[Phone(other)] = phoneCount[Phone(other)]
    BY <1>0, <2>1, <2>2, CommitCountsFacts
  <2>5. Holds(other, "tenant") =>
           tenantCount' = tenantCount /\ \A x \in Keys : Active(x)' => Active(x)
    BY <1>0, <1>6, <2>2, CommitCountsFacts
  <2>6. Owns(other) /\ challenge'[KeyOf[other]].status = "accepted" =>
           challenge[KeyOf[other]].status = "accepted"
    BY <2>1 DEF Superseded
  <2> QED  BY <1>2, <1>4, <1>8, <2>1, <2>3, <2>4, <2>5, <2>6, CallKept
<1>9. CallInv(c)'
  <2>1. ~InIssue(c)' /\ (Owns(c)' <=> task.pc = "owner") /\ ~Holds(c, "phone")'
    BY <1>2 DEF InIssue, Owns, Holds
  <2>2. Owns(c)' => KeyOf[c] \in Issued(Keys)'
    BY <2>1 DEF Issued
  <2> QED  BY <1>1, <1>2, <2>1, <2>2 DEF CallInv
<1>10. ASSUME NEW one \in Callers, NEW other \in Callers, Meet(one, other)'
       PROVE  one = other
  <2>1. \A x \in Callers : /\ x # c => /\ InIssue(x)' <=> InIssue(x)
                                       /\ Owns(x)' <=> Owns(x)
                                       /\ Holds(x, "phone")' <=> Holds(x, "phone")
                                       /\ Holds(x, "tenant")' <=> Holds(x, "tenant")
                           /\ Phone(x)' = Phone(x)
    BY <1>2 DEF InIssue, Owns, Holds, Phone
  <2>2. ~InIssue(c)' /\ ~Holds(c, "phone")' /\ ~Holds(c, "tenant")'
    BY <1>2 DEF InIssue, Holds
  <2>3. \A x \in Callers : Owns(x) => KeyOf[x] # k
    BY <1>0, <1>1 DEF CallsInv, CallInv, Issued
  <2> QED  BY <1>0, <1>10, <2>1, <2>2, <2>3 DEF CallsInv, Meet
<1>11. CallsInv'
  BY <1>8, <1>9, <1>10 DEF CallsInv
<1> QED  BY <1>3, <1>4, <1>5, <1>7, <1>11 DEF Kept

LEMMA CommitRefusalKeeps ==
    ASSUME CodesInv, NEW c \in Callers, CommitRefusal(c)
    PROVE  Kept
<1>0. /\ TypeOK /\ CountsInv /\ CallInv(c) /\ challenge \in [Keys -> Challenge]
      /\ \A x \in Keys : Row(x)
  BY InvParts, TypeFacts DEF CallsInv
<1>1. PICK k \in Keys : k = KeyOf[c]
  BY <1>0, TypeFacts
<1> DEFINE row == [NoChallenge EXCEPT !.status = "rejected", !.error = "limited"]
           task == Ended("error")
<1>2. /\ row \in Challenge /\ row.status = "rejected" /\ row.error = "limited"
      /\ row.verified = FALSE /\ row.consumedBy = NoKey
  <2>1. NoChallenge \in Challenge /\ NoChallenge.verified = FALSE /\ NoChallenge.consumedBy = NoKey
    BY NoChallengeType
  <2> QED  BY <2>1 DEF Challenge
<1>3. /\ task \in Call /\ task.pc = "ended" /\ task.counted = {} /\ task.outcome = "error"
  BY CallTypes
<1>4. /\ challenge' = [challenge EXCEPT ![k] = row] /\ CommitCounts(c)
      /\ call' = [call EXCEPT ![c] = task] /\ InIssue(c)
      /\ UNCHANGED <<asked, sent, host, executed>>
  BY <1>1 DEF CommitRefusal, InIssue
<1> HIDE DEF row, task
<1>5. /\ challenge' \in [Keys -> Challenge] /\ challenge'[k] = row
      /\ \A x \in Keys : x # k => challenge'[x] = challenge[x]
  BY <1>0, <1>2, <1>4, ChallengeMoves
<1>6. CountsInv'
  <2>1. TypeOK'
    <3>1. call' \in [Callers -> Call]
      BY <1>0, <1>3, <1>4, CallMoves
    <3> QED  BY <1>0, <1>4, <1>5, <3>1, CommitCountsFacts DEF TypeOK
  <2>2. challenge[k].status = "absent"
    BY <1>0, <1>1, <1>4 DEF CallInv
  <2>3. \A x \in Keys :
           challenge'[x].status # "absent" /\ challenge'[x].error # "limited"
           <=> challenge[x].status # "absent" /\ challenge[x].error # "limited"
    BY <1>2, <1>5, <2>2
  <2> QED  BY <1>0, <1>4, <2>1, <2>3, CommitCountsFacts, CountsKept
<1>7. ~Active(k)'
  BY <1>2, <1>5 DEF Active
<1> QED  BY <1>1, <1>2, <1>3, <1>4, <1>5, <1>6, <1>7, FirstCommitKeeps

\* The issue that commits takes one of each limit that it holds.
LEMMA IssueCounted ==
    ASSUME TypeOK, CountsInv, NEW c \in Callers, NEW k \in Keys, k = KeyOf[c],
           CommitCounts(c), Holds(c, "phone"), Holds(c, "tenant"),
           phoneCount[Phone(c)] < PhoneLimit, tenantCount < TenantLimit,
           challenge[k].status = "absent",
           challenge'[k].status # "absent", challenge'[k].error # "limited",
           \A x \in Keys : x # k =>
              (challenge'[x].status # "absent" /\ challenge'[x].error # "limited"
               <=> challenge[x].status # "absent" /\ challenge[x].error # "limited")
    PROVE  CountsInv'
<1>1. \A K \in SUBSET Keys : Issued(K)' = Issued(K) \cup (K \cap {k})
  BY DEF Issued
<1>2. k \notin Issued(Keys)
  BY DEF Issued
<1>3. ASSUME NEW S, IsFiniteSet(S), k \notin S
      PROVE  /\ IsFiniteSet(S \cup {k}) /\ Cardinality(S \cup {k}) = Cardinality(S) + 1
             /\ Cardinality(S) \in Nat
  BY <1>3, FS_AddElement, FS_CardinalityType
<1>4. /\ phoneCount \in [Phones -> Nat] /\ tenantCount \in Nat /\ Phone(c) \in Phones
      /\ PhoneLimit \in Nat /\ TenantLimit \in Nat
  BY TypeFacts, SmsChallengeConstants
<1>5. /\ IsFiniteSet(Issued(Keys)') /\ Cardinality(Issued(Keys)') <= TenantLimit
      /\ Cardinality(Issued(Keys)') <= tenantCount'
  <2>1. PICK S \in SUBSET Keys : S = Issued(Keys)
    BY DEF Issued
  <2>2. Issued(Keys)' = S \cup {k}
    BY <1>1, <2>1
  <2>3. IsFiniteSet(S) /\ Cardinality(S) <= tenantCount /\ k \notin S
    BY <1>2, <2>1 DEF CountsInv
  <2>4. tenantCount' = tenantCount + 1
    BY CommitCountsFacts
  <2> QED  BY <1>3, <1>4, <2>2, <2>3, <2>4
<1>6. ASSUME NEW p \in Phones, NEW K \in SUBSET Keys, K = {x \in Keys : PhoneOf[x] = p}
      PROVE  /\ IsFiniteSet(Issued(K)') /\ Cardinality(Issued(K)') <= PhoneLimit
             /\ Cardinality(Issued(K)') <= phoneCount'[p]
  <2>1. PICK S \in SUBSET Keys : S = Issued(K)
    BY DEF Issued
  <2>2. /\ IsFiniteSet(S) /\ Cardinality(S) <= phoneCount[p]
        /\ Cardinality(S) <= PhoneLimit /\ k \notin S
    BY <1>2, <1>6, <2>1 DEF CountsInv, Issued
  <2>3. CASE p = Phone(c)
    <3>1. Issued(K)' = S \cup {k}
      BY <1>1, <1>6, <2>1, <2>3 DEF Phone
    <3>2. phoneCount'[p] = phoneCount[p] + 1 /\ phoneCount[p] < PhoneLimit
      BY <2>3, CommitCountsFacts
    <3> QED  BY <1>3, <1>4, <2>2, <3>1, <3>2
  <2>4. CASE p # Phone(c)
    <3>0. k \notin K
      BY <1>6, <2>4 DEF Phone
    <3>1. Issued(K)' = S
      <4>1. Issued(K)' = S \cup (K \cap {k})
        BY <1>1, <2>1
      <4> QED  BY <3>0, <4>1
    <3>2. phoneCount'[p] = phoneCount[p]
      BY <2>4, CommitCountsFacts
    <3> QED  BY <2>2, <3>1, <3>2
  <2> QED  BY <2>3, <2>4
<1>7. \A p \in Phones : {x \in Keys : PhoneOf[x] = p} \in SUBSET Keys
  OBVIOUS
<1> QED  BY <1>5, <1>6, <1>7 DEF CountsInv

LEMMA CommitIssueKeeps ==
    ASSUME CodesInv, NEW c \in Callers, CommitIssue(c)
    PROVE  Kept
<1>0. /\ TypeOK /\ CountsInv /\ CallInv(c) /\ challenge \in [Keys -> Challenge]
  BY InvParts, TypeFacts DEF CallsInv
<1>1. PICK k \in Keys : k = KeyOf[c]
  BY <1>0, TypeFacts
<1> DEFINE row == [NoChallenge EXCEPT !.status = "pending"]
           task == [NewCall EXCEPT !.pc = "owner"]
           over(x) == Invalidated(challenge[x], "rejected", "superseded")
<1>2. /\ row \in Challenge /\ row.status = "pending" /\ row.error = "none"
      /\ row.verified = FALSE /\ row.consumedBy = NoKey
  <2>1. /\ NoChallenge \in Challenge /\ NoChallenge.verified = FALSE
        /\ NoChallenge.consumedBy = NoKey /\ NoChallenge.error = "none"
    BY NoChallengeType
  <2> QED  BY <2>1 DEF Challenge
<1>3. /\ task \in Call /\ task.pc = "owner" /\ task.counted = {} /\ task.outcome = "none"
  BY CallTypes
<1>4. /\ CommitCounts(c) /\ call' = [call EXCEPT ![c] = task] /\ InIssue(c)
      /\ call[c].pc = "counted" /\ \A x \in call[c].superseding : Free(x)
      /\ UNCHANGED <<asked, sent, host, executed>>
  BY DEF CommitIssue, InIssue
<1>5. challenge' = [x \in Keys |-> IF x = k THEN row
                                   ELSE IF x \in call[c].superseding /\ Active(x)
                                        THEN over(x) ELSE challenge[x]]
  BY <1>1 DEF CommitIssue
<1>6. \A x \in Keys : Active(x) => x \in call[c].superseding
  BY <1>0, <1>4 DEF CallInv
<1>7. ASSUME NEW x \in Keys, x # k
      PROVE  /\ challenge'[x] \in Challenge
             /\ challenge'[x] = challenge[x] \/ Superseded(x)
             /\ ~Active(x)'
  <2>1. CASE Active(x)
    <3>1. challenge'[x] = over(x) /\ challenge[x].error = "none" /\ challenge[x] \in Challenge
      BY <1>0, <1>5, <1>6, <1>7, <2>1 DEF Active
    <3>2. /\ over(x) \in Challenge
          /\ over(x).status = "rejected" /\ over(x).error = "superseded"
          /\ over(x).verified = challenge[x].verified
          /\ over(x).consumedBy = challenge[x].consumedBy
          /\ over(x).attempts = challenge[x].attempts
      BY <3>1, InvalidatedType
    <3> QED  BY <1>4, <1>6, <2>1, <3>1, <3>2 DEF Superseded, Active
  <2>2. CASE ~Active(x)
    <3>1. challenge'[x] = challenge[x]
      BY <1>5, <1>7, <2>2
    <3> QED  BY <1>0, <2>2, <3>1 DEF Active
  <2> QED  BY <2>1, <2>2
<1>8. challenge'[k] = row
  BY <1>5
<1>9. challenge' \in [Keys -> Challenge]
  <2>1. challenge' = [x \in Keys |-> challenge'[x]]
    BY <1>5
  <2>2. \A x \in Keys : challenge'[x] \in Challenge
    BY <1>2, <1>7, <1>8
  <2> QED  BY ONLY <2>1, <2>2
<1> HIDE DEF row, task, over
<1>10. /\ Holds(c, "phone") /\ phoneCount[Phone(c)] < PhoneLimit
       /\ Holds(c, "tenant") /\ tenantCount < TenantLimit
       /\ challenge[k].status = "absent"
  BY <1>0, <1>1, <1>4 DEF CallInv
<1>11. CountsInv'
  <2>1. \A x \in Keys : x # k =>
           (challenge'[x].status # "absent" /\ challenge'[x].error # "limited"
            <=> challenge[x].status # "absent" /\ challenge[x].error # "limited")
    BY <1>7 DEF Superseded, Active
  <2>2. challenge'[k].status # "absent" /\ challenge'[k].error # "limited"
    BY <1>2, <1>8
  <2> QED  BY <1>0, <1>1, <1>4, <1>10, <2>1, <2>2, IssueCounted
<1>12. Active(k)' => Holds(c, "tenant") /\ \A x \in Keys : Active(x)' => x = k
  BY <1>7, <1>10
<1>13. /\ challenge'[k].status = "pending" /\ challenge'[k].error = "none"
       /\ challenge'[k].verified = FALSE /\ challenge'[k].consumedBy = NoKey
  BY <1>2, <1>8
<1>14. \A x \in Keys : x # k => challenge'[x] = challenge[x] \/ Superseded(x)
  BY <1>7
<1> QED  BY <1>1, <1>3, <1>4, <1>9, <1>11, <1>12, <1>13, <1>14, FirstCommitKeeps

-----------------------------------------------------------------------------
(* Every step                                                               *)

LEMMA CrashKeeps ==
    ASSUME CodesInv, NEW c \in Callers, Crash(c)
    PROVE  Kept
BY EndKeeps DEF Crash

LEMMA CallKeeps ==
    ASSUME CodesInv, NEW c \in Callers, CallStep(c)
    PROVE  Kept
<1>1. CASE Enter(c)
  BY <1>1, EnterKeeps
<1>2. CASE Refuse(c)
  BY <1>2, RefuseKeeps
<1>3. CASE CountPhone(c) \/ CountTenant(c)
  BY <1>3, CountKeeps
<1>4. CASE CommitRefusal(c)
  BY <1>4, CommitRefusalKeeps
<1>5. CASE CommitIssue(c)
  BY <1>5, CommitIssueKeeps
<1>6. CASE RefuseSend(c) \/ Answer(c)
  BY <1>6, OwnerKeeps
<1>7. CASE AskProvider(c)
  BY <1>7, AskKeeps
<1>8. CASE MarkAccepted(c)
  BY <1>8, MarkAcceptedKeeps
<1>9. CASE Fail(c) \/ TimeOut(c)
  BY <1>9, FailKeeps
<1>10. CASE ReadOutcome(c)
  BY <1>10, ReadOutcomeKeeps
<1> QED
  BY <1>1, <1>2, <1>3, <1>4, <1>5, <1>6, <1>7, <1>8, <1>9, <1>10 DEF CallStep, OwnerStep

\* One case per action.
LEMMA CodesStep ==
    ASSUME CodesInv, [Next]_vars
    PROVE  Kept
<1>1. ASSUME NEW c \in Callers, CallStep(c) \/ Crash(c) PROVE Kept
  BY <1>1, CallKeeps, CrashKeeps
<1>2. ASSUME NEW k \in Keys, UserStep(k) PROVE Kept
  BY <1>2, UserKeeps
<1>3. ASSUME NEW h \in Hosts, HostStep(h) PROVE Kept
  BY <1>3, ConsumeProofKeeps, HostEndsKeeps DEF HostStep
<1>4. CASE UNCHANGED vars
  <2>1. /\ UNCHANGED <<call, challenge, counts, asked, sent, executed>>
        /\ UNCHANGED host
    BY <1>4 DEF vars
  <2>2. TypeOK /\ HostsHoldProofs /\ host \in [Hosts -> Host]
    BY InvParts, TypeFacts
  <2>3. HostsHoldProofs'
    BY <2>1, <2>2, HostsKept
  <2> QED  BY <2>1, <2>2, <2>3, HostOnlyKeeps
<1> QED  BY <1>1, <1>2, <1>3, <1>4 DEF Next

LEMMA KeptIsInv == Kept => CodesInv'
<1>1. (TypeOK /\ HostsHoldProofs /\ OneActivePerSubject /\ CountsInv /\ CallsInv
         /\ \A k \in Keys : Row(k))' => CodesInv'
  BY InvParts, PTL
<1> QED  BY <1>1 DEF Kept

\* The inductive invariant of tenant codes.
LEMMA CodesHold == Spec => []CodesInv
<1>1. CodesInv /\ [Next]_vars => CodesInv'
  BY CodesStep, KeptIsInv
<1> QED  BY <1>1, InitHolds, PTL DEF Spec

-----------------------------------------------------------------------------
(* The results                                                              *)

\* A code that works was sent, a mutation that a proof protects is committed with
\* its consumption and once, and the row of a proof stays as it is while it is
\* consumed.
THEOREM ProofsHold == Spec => []ProofInv
<1>1. CodesInv => ProofInv
  BY DEF CodesInv
<1> QED  BY <1>1, CodesHold, PTL

\* However many requests race: one working code for the subject, one request to the
\* provider for a key, and no more for a phone or the tenant than their limits.
THEOREM LimitsHold == Spec => []LimitsInv
<1>1. CodesInv => LimitsInv
  BY DEF CodesInv
<1> QED  BY <1>1, CodesHold, PTL

\* The first caller and those that repeat its request are told the truth about the
\* code, and the same truth.
THEOREM AnswersHold == Spec => []AnswersAgree
<1>1. CodesInv => AnswersAgree
  BY DEF CodesInv
<1> QED  BY <1>1, CodesHold, PTL

\* A challenge that was given up stays given up, and a proof that was consumed is
\* never taken away.
THEOREM DecisionsHold == Spec => DecisionsStand
<1>1. CodesInv /\ [Next]_vars => [\A k \in Keys : Decided(k)]_vars
  BY CodesStep DEF Kept
<1>2. Spec => [][\A k \in Keys : Decided(k)]_vars
  BY <1>1, CodesHold, PTL DEF Spec
<1>3. (\A k \in Keys : Decided(k)) <=>
         \A k \in Keys :
          /\ challenge[k].error # "none" =>
                /\ challenge'[k].error = challenge[k].error
                /\ challenge'[k].status = challenge[k].status
                /\ challenge'[k].verified = challenge[k].verified
                /\ challenge'[k].consumedBy = challenge[k].consumedBy
          /\ challenge[k].consumedBy # NoKey => challenge'[k].error # "superseded"
  BY DEF Decided
<1> QED  BY <1>2, <1>3, PTL DEF DecisionsStand
=============================================================================
