------------------------------- MODULE AuthProofs -------------------------------
(***************************************************************************)
(* Machine-checked proofs about auth-kit: what the requests of AuthKit keep *)
(* true for any requests, users and phones; and about its form and gate in  *)
(* AuthForms: every request that goes through them is one of AuthKit's, the *)
(* codes sent to a number stay within its window, and the form can rely on  *)
(* its captcha and its countdown.                                           *)
(***************************************************************************)
EXTENDS AuthForms, FiniteSetTheorems, SequenceTheorems, WellFoundedInduction, TLAPS

-----------------------------------------------------------------------------
(* What the locks give one request                                          *)

\* What LocksProtect says of one request alone ...
Own(r) ==
    /\ request[r].can => Holding(r)
    /\ request[r].pc \in {"verified", "chosen", "reserved", "issuing", "issued"} => request[r].can
    /\ request[r].pc = "verified" => request[r].secret = password[request[r].user]
    /\ request[r].pc = "chosen" => request[r].chosen \in Requests
    /\ request[r].can /\ request[r].pc \in {"locked", "verified", "chosen"}
                      /\ request[r].phone # None =>
          \/ bound[request[r].user] = request[r].phone
          \/ \A action \in Actions : Open(request[r].user, action) = {}

\* ... and of two.
Exclusive ==
    \A r, other \in Requests :
        Holding(r) /\ Holding(other) /\ LockKey(r) = LockKey(other) => r = other

\* What the locks protect, one request and two requests at a time.
LEMMA LockParts == LocksProtect <=> Exclusive /\ \A o \in Requests : Own(o)
BY DEF LocksProtect, Own, Exclusive

LEMMA LocksFromParts == Exclusive' /\ (\A o \in Requests : Own(o))' => LocksProtect'
BY LockParts, PTL

LEMMA InvParts ==
    ASSUME SessionInv
    PROVE  /\ TypeOK /\ SessionsFollowPassword /\ SmsSessionsFollowPhone
           /\ Exclusive /\ \A r \in Requests : Own(r)
           /\ request \in [Requests -> Request]
           /\ \A r \in Requests : request[r] \in Request
           /\ \A r \in Requests : request[r].can => request[r].user \in Users
           /\ bound \in [Users -> Phones \cup {None}] /\ password \in [Users -> Generation]
           /\ sessions \subseteq Session /\ challenge \in [Requests -> Challenge]
           /\ active \in [Users \X Actions -> Requests \cup {None}]
BY LockParts DEF SessionInv, TypeOK

LEMMA RequestTypes ==
    /\ NewRequest \in Request /\ NewRequest.pc = "new" /\ ~NewRequest.can
    /\ \A result \in {"none", "ok", "refused", "error"} :
          Ended(result) \in Request /\ Ended(result).pc = "ended" /\ ~Ended(result).can
<1>1. 0 \in Generation
  BY DEF Generation
<1>2. NewRequest \in Request /\ NewRequest.pc = "new" /\ NewRequest.can = FALSE
  BY <1>1 DEF NewRequest, Request
<1>3. ASSUME NEW result \in {"none", "ok", "refused", "error"}
      PROVE  Ended(result) \in Request /\ Ended(result).pc = "ended" /\ Ended(result).can = FALSE
  <2>1. PICK new \in Request : new = NewRequest
    BY <1>2
  <2> DEFINE task == [new EXCEPT !.pc = "ended", !.result = result]
  <2>2. task \in Request
    BY DEF Request
  <2>3. task.pc = "ended"
    BY DEF Request
  <2>4. task.can = new.can
    BY DEF Request
  <2>5. Ended(result) = task
    BY <2>1 DEF Ended
  <2> QED  BY <1>2, <2>1, <2>2, <2>3, <2>4, <2>5
<1> QED  BY <1>2, <1>3

\* A step of one request leaves the others.
LEMMA RequestMoves ==
    ASSUME TypeOK, NEW r \in Requests, NEW task \in Request,
           request' = [request EXCEPT ![r] = task]
    PROVE  /\ request' \in [Requests -> Request] /\ request'[r] = task
           /\ \A other \in Requests : other # r => request'[other] = request[other]
BY DEF TypeOK

\* One request moves; those of other users do not notice.
LEMMA LocksKept ==
    ASSUME SessionInv, NEW r \in Requests, NEW task \in Request,
           request' = [request EXCEPT ![r] = task], UNCHANGED bound,
           \A o \in Requests : o # r /\ request[o].can =>
              /\ password'[request[o].user] = password[request[o].user]
              /\ \A action \in Actions :
                    Open(request[o].user, action)' \subseteq Open(request[o].user, action),
           Own(r)',
           Holding(r)' => \A o \in Requests : o # r /\ Holding(o) => LockKey(o) # LockKey(r)'
    PROVE  LocksProtect'
<1>1. /\ \A o \in Requests : o # r => request'[o] = request[o]
      /\ Exclusive /\ \A o \in Requests : Own(o)
  BY InvParts, RequestMoves
<1>2. ASSUME NEW o \in Requests, o # r PROVE Own(o)'
  <2>1. Own(o) /\ request'[o] = request[o]
    BY <1>1, <1>2
  <2>2. Holding(o)' <=> Holding(o)
    BY <2>1 DEF Holding
  <2>3. request[o].pc = "verified" => password'[request[o].user] = password[request[o].user]
    BY <1>2, <2>1 DEF Own
  <2>4. request[o].can => \A action \in Actions :
           Open(request[o].user, action) = {} => Open(request[o].user, action)' = {}
    BY <1>2, <2>1
  <2> QED  BY <2>1, <2>2, <2>3, <2>4 DEF Own
<1>3. ASSUME NEW one \in Requests, NEW other \in Requests,
             Holding(one)', Holding(other)', LockKey(one)' = LockKey(other)'
      PROVE  one = other
  <2>1. \A o \in Requests : o # r => /\ Holding(o)' <=> Holding(o)
                                     /\ LockKey(o)' = LockKey(o)
    BY <1>1 DEF Holding, LockKey
  <2> QED  BY <1>1, <1>3, <2>1 DEF Exclusive
<1>4. (\A o \in Requests : Own(o))' /\ Exclusive'
  BY <1>2, <1>3 DEF Exclusive
<1> QED  BY <1>4, LocksFromParts

\* Two requests that both may act for their user are about different users.
LEMMA OtherUser ==
    ASSUME SessionInv, NEW r \in Requests, NEW o \in Requests, o # r,
           request[r].can, request[o].can
    PROVE  request[o].user # request[r].user
<1>1. Holding(r) /\ Holding(o) /\ request[r].user \in Users /\ request[o].user \in Users
  BY InvParts DEF Own
<1>2. LockKey(r) = request[r].user /\ LockKey(o) = request[o].user
  BY <1>1, AuthKitConstants DEF LockKey
<1> QED  BY <1>1, <1>2, InvParts DEF Exclusive

\* A request that moves on and changes nothing else.
LEMMA MoveKeeps ==
    ASSUME SessionInv, NEW r \in Requests, NEW task \in Request,
           request' = [request EXCEPT ![r] = task], task.can => task.user \in Users,
           UNCHANGED <<bound, password, sessions, challenge>>,
           active' \in [Users \X Actions -> Requests \cup {None}],
           Own(r)',
           Holding(r)' => \A o \in Requests : o # r /\ Holding(o) => LockKey(o) # LockKey(r)'
    PROVE  SessionInv'
<1>1. TypeOK'
  BY InvParts, RequestMoves DEF TypeOK
<1>2. SessionsFollowPassword' /\ SmsSessionsFollowPhone'
  BY InvParts DEF SessionsFollowPassword, SmsSessionsFollowPhone
<1>3. ASSUME NEW o \in Requests, o # r
      PROVE  \A action \in Actions : Open(request[o].user, action)' = Open(request[o].user, action)
  BY <1>3, InvParts, RequestMoves DEF Open
<1>4. \A o \in Requests : o # r /\ request[o].can =>
         /\ password'[request[o].user] = password[request[o].user]
         /\ \A action \in Actions :
               Open(request[o].user, action)' \subseteq Open(request[o].user, action)
  BY <1>3
<1>5. LocksProtect'
  BY <1>4, LocksKept
<1> QED  BY <1>1, <1>2, <1>5 DEF SessionInv

\* A request that goes on under the lock it holds.
LEMMA GoesOnKeeps ==
    ASSUME SessionInv, NEW r \in Requests, NEW task \in Request,
           request' = [request EXCEPT ![r] = task],
           request[r].can, Holding(r), task.can,
           task.pc \in {"verified", "chosen", "reserved", "issuing", "issued"},
           task.user = request[r].user, task.phone = request[r].phone,
           task.pc \in {"verified", "chosen"} => request[r].pc = "locked",
           task.pc = "verified" => task.secret = password[task.user],
           task.pc = "chosen" => task.chosen \in Requests,
           UNCHANGED <<bound, password, sessions, challenge, active>>
    PROVE  SessionInv'
<1>1. /\ task.user \in Users /\ Own(r) /\ request'[r] = task /\ Exclusive
      /\ active \in [Users \X Actions -> Requests \cup {None}]
  BY InvParts, RequestMoves
<1>2. LockKey(r)' = LockKey(r) /\ Holding(r)'
  BY <1>1 DEF LockKey, Holding
<1>3. \A u, action : Open(u, action)' = Open(u, action)
  BY DEF Open
<1>4. Own(r)'
  BY <1>1, <1>2, <1>3 DEF Own
<1>5. \A o \in Requests : o # r /\ Holding(o) => LockKey(o) # LockKey(r)'
  BY <1>1, <1>2 DEF Exclusive
<1> QED  BY <1>1, <1>4, <1>5, MoveKeeps

\* A request that ends gives up its lock.
LEMMA EndFacts ==
    ASSUME TypeOK, NEW r \in Requests, NEW result \in {"none", "ok", "refused", "error"},
           End(r, result)
    PROVE  /\ \E task \in Request : /\ request' = [request EXCEPT ![r] = task]
                                    /\ ~task.can /\ task.pc = "ended"
           /\ request' \in [Requests -> Request]
           /\ Own(r)' /\ ~Holding(r)'
           /\ \A o \in Requests : request'[o].can => o # r /\ request[o].can
                                                    /\ request'[o] = request[o]
<1> DEFINE task == Ended(result)
<1>1. task \in Request /\ task.pc = "ended" /\ ~task.can /\ request' = [request EXCEPT ![r] = task]
  BY RequestTypes DEF End
<1> HIDE DEF task
<1>2. /\ request' \in [Requests -> Request] /\ request'[r] = task
      /\ \A other \in Requests : other # r => request'[other] = request[other]
  BY <1>1, RequestMoves
<1>3. Own(r)' /\ ~Holding(r)'
  BY <1>1, <1>2 DEF Own, Holding
<1> QED  BY <1>1, <1>2, <1>3

LEMMA EndKeeps ==
    ASSUME SessionInv, NEW r \in Requests, NEW result \in {"none", "ok", "refused", "error"},
           End(r, result), UNCHANGED <<bound, password, sessions, challenge>>,
           active' \in [Users \X Actions -> Requests \cup {None}]
    PROVE  SessionInv'
<1>1. Own(r)' /\ ~Holding(r)'
  BY InvParts, EndFacts
<1>2. PICK task \in Request : request' = [request EXCEPT ![r] = task] /\ ~task.can
  BY InvParts, EndFacts
<1> QED  BY <1>1, <1>2, MoveKeeps

-----------------------------------------------------------------------------
(* Steps of a request that change no row                                    *)

\* A request before its lock may do nothing yet.
LEMMA EarlyKeeps ==
    ASSUME SessionInv, NEW r \in Requests, NEW task \in Request,
           request' = [request EXCEPT ![r] = task],
           task.pc \in {"started", "resolved"}, ~task.can,
           UNCHANGED <<bound, password, sessions, challenge, active>>
    PROVE  SessionInv'
<1>1. request'[r] = task /\ active' \in [Users \X Actions -> Requests \cup {None}]
  BY InvParts, RequestMoves
<1>2. Own(r)' /\ ~Holding(r)'
  BY <1>1 DEF Own, Holding
<1> QED  BY <1>1, <1>2, MoveKeeps

LEMMA StartKeeps ==
    ASSUME SessionInv, NEW r \in Requests, NEW kind \in Kinds, Start(r, kind)
    PROVE  SessionInv'
<1>1. \A v \in Users : password[v] \in Generation
  BY InvParts
<1>2. \A s \in {t.id : t \in sessions} : s \in Requests
  BY InvParts DEF Session
<1>3. PICK u \in Users \cup {None}, p \in Phones \cup {None}, s \in Requests \cup {None},
           secret \in Generation, code \in Requests \cup {None} :
        request' = [request EXCEPT ![r] = Started(kind, u, p, s, secret, code)]
  <2>1. PICK u \in Users \cup {None}, p \in Phones \cup {None},
             s \in {t.id : t \in sessions} \cup {None},
             secret \in {password[v] : v \in Users} \cup {0},
             code \in {c \in Requests : challenge[c].status # "absent"} \cup {None} :
          request' = [request EXCEPT ![r] = Started(kind, u, p, s, secret, code)]
    BY Zenon DEF Start
  <2>2. s \in Requests \cup {None}
    BY <1>2
  <2>3. secret \in Generation
    BY <1>1 DEF Generation
  <2> QED  BY <2>1, <2>2, <2>3
<1>4. PICK new \in Request : new = NewRequest
  BY RequestTypes
<1> DEFINE task == [new EXCEPT !.pc = "started", !.kind = kind, !.user = u, !.phone = p,
                               !.session = s, !.secret = secret, !.code = code]
<1>5. task \in Request
  BY DEF Request
<1>6. task.pc = "started"
  BY DEF Request
<1>7. task.can = new.can
  BY DEF Request
<1>8. request' = [request EXCEPT ![r] = task]
  BY <1>3, <1>4 DEF Started
<1>9. UNCHANGED <<bound, password, sessions, challenge, active>>
  BY DEF Start
<1>10. ~task.can
  BY <1>4, <1>7, RequestTypes
<1> HIDE DEF task
<1> QED  BY <1>5, <1>6, <1>8, <1>9, <1>10, EarlyKeeps

LEMMA ResolveKeeps ==
    ASSUME SessionInv, NEW r \in Requests, Resolve(r)
    PROVE  SessionInv'
<1>1. UNCHANGED <<bound, password, sessions, challenge, active>> /\ request[r].pc = "started"
  BY DEF Resolve
<1>2. Identity(r) \subseteq Users
  <2>1. request[r] \in Request /\ sessions \subseteq Session
    BY InvParts
  <2> QED  BY <2>1 DEF Identity, SessionUser, Owner, Request, Session
<1>3. \/ \E result \in {"ok", "refused"} : End(r, result)
      \/ \E user \in Users \cup {None} :
            request' = [request EXCEPT ![r].pc = "resolved", ![r].user = user]
  <2>1. Identity(r) # {} => (CHOOSE u \in Identity(r) : TRUE) \in Users
    BY <1>2
  <2> QED  BY <2>1 DEF Resolve
<1>4. CASE \E result \in {"ok", "refused"} : End(r, result)
  BY <1>1, <1>4, InvParts, EndKeeps
<1>5. CASE \E user \in Users \cup {None} :
              request' = [request EXCEPT ![r].pc = "resolved", ![r].user = user]
  <2>1. PICK user \in Users \cup {None} :
           request' = [request EXCEPT ![r].pc = "resolved", ![r].user = user]
    BY <1>5
  <2>2. PICK old \in Request : old = request[r]
    BY InvParts
  <2> DEFINE task == [old EXCEPT !.pc = "resolved", !.user = user]
  <2>3. task \in Request
    BY DEF Request
  <2>4. task.pc = "resolved"
    BY DEF Request
  <2>5. task.can = old.can
    BY DEF Request
  <2>6. request' = [request EXCEPT ![r] = task]
    BY <2>1, <2>2, InvParts
  <2>7. ~old.can
    BY <1>1, <2>2, InvParts DEF Own, Holding
  <2> HIDE DEF task
  <2> QED  BY <1>1, <2>3, <2>4, <2>5, <2>6, <2>7, EarlyKeeps
<1> QED  BY <1>3, <1>4, <1>5

LEMMA LockKeeps ==
    ASSUME SessionInv, NEW r \in Requests, Lock(r)
    PROVE  SessionInv'
<1>1. PICK old \in Request : old = request[r]
  BY InvParts
<1>2. PICK can \in BOOLEAN :
        /\ request' = [request EXCEPT ![r].pc = "locked", ![r].can = can]
        /\ can => CanLogin(r)
  <2>1. PICK allowed \in BOOLEAN :
           request' = [request EXCEPT ![r].pc = "locked", ![r].can = allowed /\ CanLogin(r)]
    BY DEF Lock
  <2>2. (allowed /\ CanLogin(r)) \in BOOLEAN
    BY DEF CanLogin
  <2> QED  BY <2>1, <2>2
<1> DEFINE task == [old EXCEPT !.pc = "locked", !.can = can]
<1>3. task \in Request
  BY DEF Request
<1>4. task.pc = "locked"
  BY DEF Request
<1>5. task.user = old.user /\ task.phone = old.phone
  BY DEF Request
<1>6. task.can = can
  BY DEF Request
<1>7. request' = [request EXCEPT ![r] = task]
  BY <1>1, <1>2, InvParts
<1>8. /\ UNCHANGED <<bound, password, sessions, challenge, active>>
      /\ \A other \in Requests : Holding(other) => LockKey(other) # LockKey(r)
  BY DEF Lock
<1> HIDE DEF task
<1>9. request'[r] = task /\ old.user \in Users \cup {None}
  BY <1>1, <1>3, <1>7, InvParts, RequestMoves DEF Request
<1>10. LockKey(r)' = LockKey(r) /\ Holding(r)'
  BY <1>1, <1>4, <1>5, <1>9 DEF LockKey, Holding
<1>11. can => /\ old.user \in Users
              /\ old.phone # None => bound[old.user] = old.phone
  BY <1>1, <1>2, <1>9 DEF CanLogin
<1>12. Own(r)'
  BY <1>4, <1>5, <1>6, <1>8, <1>9, <1>10, <1>11 DEF Own
<1>13. task.can => task.user \in Users
  BY <1>5, <1>6, <1>11
<1>14. active' \in [Users \X Actions -> Requests \cup {None}]
  BY <1>8, InvParts
<1> QED  BY <1>3, <1>7, <1>8, <1>10, <1>12, <1>13, <1>14, MoveKeeps

LEMMA RefusalsKeep ==
    ASSUME SessionInv, NEW r \in Requests,
           \/ Refuse(r) \/ AnswerAlike(r) \/ RefuseCode(r) \/ RefuseSend(r) \/ Break(r)
    PROVE  SessionInv'
<1>1. /\ \E result \in {"none", "ok", "refused", "error"} : End(r, result)
      /\ UNCHANGED <<bound, password, sessions, challenge, active>>
  BY DEF Refuse, AnswerAlike, RefuseCode, RefuseSend, Break
<1> QED  BY <1>1, InvParts, EndKeeps

LEMMA CheckPasswordKeeps ==
    ASSUME SessionInv, NEW r \in Requests, CheckPassword(r)
    PROVE  SessionInv'
<1>1. /\ request[r].pc = "locked" /\ request[r].can
      /\ UNCHANGED <<bound, password, sessions, challenge, active>>
  BY DEF CheckPassword
<1>2. CASE End(r, "refused")
  BY <1>1, <1>2, InvParts, EndKeeps
<1>3. CASE /\ request[r].secret = password[request[r].user]
           /\ request' = [request EXCEPT ![r].pc = "verified"]
  <2>1. PICK old \in Request : old = request[r]
    BY InvParts
  <2> DEFINE task == [old EXCEPT !.pc = "verified"]
  <2>2. task \in Request
    BY DEF Request
  <2>3. /\ task.pc = "verified" /\ task.user = old.user /\ task.phone = old.phone
        /\ task.secret = old.secret
    BY DEF Request
  <2>4. task.can = old.can
    BY DEF Request
  <2>5. request' = [request EXCEPT ![r] = task]
    BY <1>3, <2>1, InvParts
  <2>6. Holding(r)
    BY <1>1 DEF Holding
  <2> HIDE DEF task
  <2> QED  BY <1>1, <1>3, <2>1, <2>2, <2>3, <2>4, <2>5, <2>6, GoesOnKeeps
<1> QED  BY <1>2, <1>3 DEF CheckPassword

\* A request that is let in, and one that has a connection to send with.
LEMMA BeginIssueKeeps ==
    ASSUME SessionInv, NEW r \in Requests, EnterWindow(r) \/ BeginIssue(r)
    PROVE  SessionInv'
<1>1. PICK pc \in {"reserved", "issuing"} :
         /\ request[r].pc \in {"locked", "reserved"}
         /\ request[r].pc = "locked" => request[r].can
         /\ request' = [request EXCEPT ![r].pc = pc]
         /\ UNCHANGED <<bound, password, sessions, challenge, active>>
  BY DEF EnterWindow, BeginIssue
<1>7. request[r].can
  BY <1>1, InvParts DEF Own
<1>2. PICK old \in Request : old = request[r]
  BY InvParts
<1> DEFINE task == [old EXCEPT !.pc = pc]
<1>3. task \in Request
  BY DEF Request
<1>4. task.pc = pc /\ task.user = old.user /\ task.phone = old.phone
  BY DEF Request
<1>5. task.can = old.can
  BY DEF Request
<1>6. request' = [request EXCEPT ![r] = task] /\ Holding(r)
  BY <1>1, <1>2, InvParts DEF Holding
<1> HIDE DEF task
<1> QED  BY <1>1, <1>2, <1>3, <1>4, <1>5, <1>6, <1>7, GoesOnKeeps

LEMMA ChooseKeeps ==
    ASSUME SessionInv, NEW r \in Requests, Choose(r)
    PROVE  SessionInv'
<1>1. /\ request[r].pc = "locked" /\ request[r].can
      /\ UNCHANGED <<bound, password, sessions, challenge, active>>
  BY DEF Choose
<1>2. \/ End(r, "refused")
      \/ \E c \in Requests : request' = [request EXCEPT ![r].pc = "chosen", ![r].chosen = c]
  <2>1. request[r].user \in Users /\ ActionOf(request[r].kind) \in Actions
    BY <1>1, InvParts DEF ActionOf, Actions
  <2>2. active[<<request[r].user, ActionOf(request[r].kind)>>] \in Requests \cup {None}
    BY <2>1, InvParts
  <2>3. Open(request[r].user, ActionOf(request[r].kind)) \subseteq Requests
    BY DEF Open
  <2> QED  BY <2>2, <2>3 DEF Choose
<1>3. CASE End(r, "refused")
  BY <1>1, <1>3, InvParts, EndKeeps
<1>4. ASSUME NEW c \in Requests,
             request' = [request EXCEPT ![r].pc = "chosen", ![r].chosen = c]
      PROVE  SessionInv'
  <2>1. PICK old \in Request : old = request[r]
    BY InvParts
  <2> DEFINE task == [old EXCEPT !.pc = "chosen", !.chosen = c]
  <2>2. task \in Request
    BY DEF Request
  <2>3. /\ task.pc = "chosen" /\ task.user = old.user /\ task.phone = old.phone
        /\ task.chosen = c
    BY DEF Request
  <2>4. task.can = old.can
    BY DEF Request
  <2>5. request' = [request EXCEPT ![r] = task]
    BY <1>4, <2>1, InvParts
  <2>6. Holding(r)
    BY <1>1 DEF Holding
  <2> HIDE DEF task
  <2> QED  BY <1>1, <2>1, <2>2, <2>3, <2>4, <2>5, <2>6, GoesOnKeeps
<1> QED  BY <1>2, <1>3, <1>4

-----------------------------------------------------------------------------
(* Steps of a request that change rows                                      *)

\* A request that ends with a commit about its own user.
LEMMA CommitKeeps ==
    ASSUME SessionInv, NEW r \in Requests, request[r].can, End(r, "ok"), UNCHANGED bound,
           UNCHANGED active, password' \in [Users -> Generation],
           \A u \in Users : u # request[r].user => password'[u] = password[u],
           challenge' \in [Requests -> Challenge],
           \A c \in Requests : challenge'[c] = challenge[c] \/ challenge'[c].status # "open",
           sessions' \subseteq Session,
           \A s \in sessions' :
              /\ s \in sessions /\ password'[s.user] # password[s.user] => FALSE
              /\ s \notin sessions => /\ s.secret = password'[s.user]
                                      /\ s.phone # None => bound[s.user] = s.phone
    PROVE  SessionInv'
<1>1. /\ request' \in [Requests -> Request] /\ Own(r)' /\ ~Holding(r)'
      /\ \A o \in Requests : request'[o].can => request'[o].user \in Users
  BY InvParts, EndFacts
<1>2. TypeOK'
  BY <1>1, InvParts DEF TypeOK
<1>3. SessionsFollowPassword' /\ SmsSessionsFollowPhone'
  BY InvParts DEF SessionsFollowPassword, SmsSessionsFollowPhone
<1>4. PICK task \in Request : request' = [request EXCEPT ![r] = task]
  BY InvParts, EndFacts
<1>5. ASSUME NEW o \in Requests, o # r, request[o].can
      PROVE  /\ password'[request[o].user] = password[request[o].user]
             /\ \A action \in Actions :
                   Open(request[o].user, action)' \subseteq Open(request[o].user, action)
  <2>1. request[o].user # request[r].user /\ request[o].user \in Users
    BY <1>5, OtherUser, InvParts
  <2>2. request'[o] = request[o]
    BY <1>4, <1>5, InvParts, RequestMoves
  <2> QED  BY <2>1, <2>2 DEF Open
<1>6. LocksProtect'
  BY <1>1, <1>4, <1>5, LocksKept
<1> QED  BY <1>2, <1>3, <1>6 DEF SessionInv

\* The commit of a new password ends the sessions of the old one.
LEMMA PasswordCommits ==
    ASSUME SessionInv, NEW r \in Requests, request[r].can, End(r, "ok"),
           UNCHANGED <<bound, active>>,
           password' = [password EXCEPT ![request[r].user] = @ + 1],
           sessions' = SessionsWithout(request[r].user),
           challenge' \in [Requests -> Challenge],
           \A c \in Requests : challenge'[c] = challenge[c] \/ challenge'[c].status # "open"
    PROVE  SessionInv'
<1>1. password' \in [Users -> Generation]
  BY InvParts DEF Generation
<1>2. \A u \in Users : u # request[r].user => password'[u] = password[u]
  BY InvParts
<1>3. sessions' \subseteq Session
  BY InvParts DEF SessionsWithout
<1>4. ASSUME NEW s \in sessions' PROVE s \in sessions /\ password'[s.user] = password[s.user]
  BY <1>2, InvParts DEF SessionsWithout, Session
<1> QED  BY <1>1, <1>2, <1>3, <1>4, CommitKeeps

\* A session is opened with the password and the number of now.
LEMMA SessionCommits ==
    ASSUME SessionInv, NEW r \in Requests, request[r].can, End(r, "ok"),
           UNCHANGED <<bound, active, password>>,
           NEW s \in Session, sessions' = sessions \cup {s},
           s.secret = password[s.user], s.phone # None => bound[s.user] = s.phone,
           challenge' \in [Requests -> Challenge],
           \A c \in Requests : challenge'[c] = challenge[c] \/ challenge'[c].status # "open"
    PROVE  SessionInv'
<1>1. password' \in [Users -> Generation] /\ sessions' \subseteq Session
  BY InvParts
<1>2. \A t \in sessions' : t \notin sessions => t = s
  OBVIOUS
<1> QED  BY <1>1, <1>2, CommitKeeps

LEMMA ChangeKeeps ==
    ASSUME SessionInv, NEW r \in Requests, CommitChange(r)
    PROVE  SessionInv'
<1>1. request[r].can
  BY InvParts DEF CommitChange, Own
<1>2. challenge' \in [Requests -> Challenge]
  BY InvParts DEF CommitChange
<1> QED  BY <1>1, <1>2, PasswordCommits DEF CommitChange

LEMMA SignInKeeps ==
    ASSUME SessionInv, NEW r \in Requests, SignIn(r)
    PROVE  SessionInv'
<1>1. /\ request[r].can /\ request[r].user \in Users /\ request[r] \in Request
      /\ request[r].secret = password[request[r].user]
      /\ challenge' \in [Requests -> Challenge]
  BY InvParts DEF SignIn, Own
<1> DEFINE s == [id |-> r, user |-> request[r].user, secret |-> request[r].secret, phone |-> None]
<1>2. s \in Session
  BY <1>1 DEF Session, Request
<1> QED  BY <1>1, <1>2, SessionCommits DEF SignIn

LEMMA TakeCodeKeeps ==
    ASSUME SessionInv, NEW r \in Requests, TakeCode(r)
    PROVE  SessionInv'
<1>1. /\ request[r].can /\ request[r].user \in Users /\ request[r] \in Request
      /\ request[r].chosen \in Requests
      /\ request[r].phone # None =>
            \/ bound[request[r].user] = request[r].phone
            \/ \A action \in Actions : Open(request[r].user, action) = {}
  BY InvParts DEF TakeCode, Own
<1>2. request[r].phone # None => bound[request[r].user] = request[r].phone
  BY <1>1 DEF TakeCode, CodeIsRight, ActionOf, Actions
<1>3. /\ challenge' \in [Requests -> Challenge]
      /\ \A c \in Requests : challenge'[c] = challenge[c] \/ challenge'[c].status # "open"
  <2>1. PICK k \in Requests : k = request[r].chosen
    BY <1>1
  <2>2. PICK old \in Challenge : old = challenge[k]
    BY InvParts
  <2> DEFINE row == [old EXCEPT !.status = "used"]
  <2>3. row \in Challenge /\ row.status = "used"
    BY DEF Challenge
  <2>4. challenge' = [challenge EXCEPT ![k] = row]
    BY <2>1, <2>2, InvParts DEF TakeCode
  <2> HIDE DEF row
  <2> QED  BY <2>3, <2>4, InvParts
<1>4. CASE request[r].kind = "sms"
  <2> DEFINE s == [id |-> r, user |-> request[r].user, secret |-> password[request[r].user],
                   phone |-> request[r].phone]
  <2>1. s \in Session
    BY <1>1, InvParts DEF Session, Request
  <2> QED  BY <1>1, <1>2, <1>3, <1>4, <2>1, SessionCommits DEF TakeCode
<1>5. CASE request[r].kind # "sms"
  BY <1>1, <1>3, <1>5, PasswordCommits DEF TakeCode
<1> QED  BY <1>4, <1>5

\* What only takes sessions and open codes away.
LEMMA LessKeeps ==
    ASSUME SessionInv, UNCHANGED <<request, password>>,
           bound' \in [Users -> Phones \cup {None}],
           sessions' \subseteq sessions, challenge' \in [Requests -> Challenge],
           active' \in [Users \X Actions -> Requests \cup {None}],
           \A c \in Requests : challenge'[c] = challenge[c] \/ challenge'[c].status # "open",
           \A u \in Users : bound'[u] # bound[u] =>
              /\ \A action \in Actions : Open(u, action)' = {}
              /\ \A s \in sessions' : s.user # u
    PROVE  SessionInv'
<1>1. TypeOK'
  BY InvParts DEF TypeOK
<1>2. SessionsFollowPassword' /\ SmsSessionsFollowPhone'
  <2>1. \A s \in sessions' : s.user \in Users
    BY InvParts DEF Session
  <2> QED  BY <2>1, InvParts DEF SessionsFollowPassword, SmsSessionsFollowPhone
<1>3. ASSUME NEW r \in Requests PROVE Own(r)'
  <2>1. Own(r) /\ (request[r].can => request[r].user \in Users)
    BY InvParts
  <2>2. \A action \in Actions : Open(request[r].user, action)' \subseteq Open(request[r].user, action)
    BY DEF Open
  <2>3. Holding(r)' <=> Holding(r)
    BY DEF Holding
  <2> QED  BY <2>1, <2>2, <2>3 DEF Own
<1>4. Exclusive'
  <2>1. \A r \in Requests : (Holding(r)' <=> Holding(r)) /\ LockKey(r)' = LockKey(r)
    BY DEF Holding, LockKey
  <2> QED  BY <2>1, InvParts DEF Exclusive
<1> QED  BY <1>1, <1>2, <1>3, <1>4, LocksFromParts DEF SessionInv

LEMMA SignOutKeeps ==
    ASSUME SessionInv, NEW r \in Requests, SignOut(r)
    PROVE  SessionInv'
<1>1. /\ End(r, "ok") /\ sessions' \subseteq sessions
      /\ UNCHANGED <<bound, password, challenge, active>>
  BY DEF SignOut
<1>2. PICK task \in Request : request' = [request EXCEPT ![r] = task]
  BY <1>1, InvParts, EndFacts
<1>3. /\ request' \in [Requests -> Request] /\ Own(r)' /\ ~Holding(r)'
      /\ \A o \in Requests : request'[o].can => request'[o].user \in Users
  BY <1>1, InvParts, EndFacts
<1>4. TypeOK'
  BY <1>1, <1>3, InvParts DEF TypeOK
<1>5. SessionsFollowPassword' /\ SmsSessionsFollowPhone'
  BY <1>1, InvParts DEF SessionsFollowPassword, SmsSessionsFollowPhone
<1>6. ASSUME NEW o \in Requests, o # r, request[o].can
      PROVE  \A action \in Actions :
                Open(request[o].user, action)' \subseteq Open(request[o].user, action)
  <2>1. request'[o] = request[o]
    BY <1>2, <1>6, InvParts, RequestMoves
  <2> QED  BY <1>1, <2>1 DEF Open
<1>7. LocksProtect'
  BY <1>1, <1>2, <1>3, <1>6, LocksKept
<1> QED  BY <1>4, <1>5, <1>7 DEF SessionInv

\* Another code is sent only under the lock of its user.
LEMMA IssueKeeps ==
    ASSUME SessionInv, NEW r \in Requests, Issue(r)
    PROVE  SessionInv'
<1>1. /\ request[r].pc = "issuing" /\ request[r].can /\ request[r].user \in Users
      /\ ActionOf(request[r].kind) \in Actions
      /\ UNCHANGED <<bound, password, sessions, active>>
  BY InvParts DEF Issue, Own, ActionOf, Actions
<1>2. PICK user \in Users, action \in Actions :
         user = request[r].user /\ action = ActionOf(request[r].kind)
  BY <1>1
<1>3. PICK status \in {"open", "dead"} :
         /\ challenge' = [c \in Requests |->
               CASE c = r -> [user |-> user, action |-> action, status |-> status]
                 [] c \in Open(user, action) -> [challenge[c] EXCEPT !.status = "dead"]
                 [] OTHER -> challenge[c]]
         /\ request' = [request EXCEPT ![r].pc = "issued"] \/ End(r, "error")
  BY <1>2 DEF Issue
<1>4. ASSUME NEW c \in Requests
      PROVE  /\ challenge'[c] \in Challenge
             /\ \/ challenge'[c] = challenge[c] \/ challenge'[c].status # "open"
                \/ c = r /\ challenge'[c].user = user
  <2>1. PICK old \in Challenge : old = challenge[c]
    BY InvParts
  <2> DEFINE row == [old EXCEPT !.status = "dead"]
             new == [user |-> user, action |-> action, status |-> status]
  <2>2. row \in Challenge /\ row.status = "dead" /\ new \in Challenge /\ new.user = user
    BY DEF Challenge
  <2>3. challenge'[c] = CASE c = r -> new [] c \in Open(user, action) -> row [] OTHER -> old
    BY <1>3, <2>1
  <2> HIDE DEF row, new
  <2> QED  BY <2>1, <2>2, <2>3
<1>5. challenge' \in [Requests -> Challenge]
  <2>1. challenge' = [c \in Requests |-> challenge'[c]]
    BY <1>3
  <2>2. \A c \in Requests : challenge'[c] \in Challenge
    BY <1>4
  <2> QED  BY ONLY <2>1, <2>2
<1>6. PICK task \in Request : /\ request' = [request EXCEPT ![r] = task]
                              /\ task.pc \in {"issued", "ended"}
                              /\ task.can => task.pc = "issued"
                              /\ task.can => task.user = user
                              /\ task.pc = "issued" => /\ task.can /\ task.user = user
                                                       /\ task.phone = request[r].phone
  <2>1. CASE request' = [request EXCEPT ![r].pc = "issued"]
    <3>1. PICK old \in Request : old = request[r]
      BY InvParts
    <3> DEFINE new == [old EXCEPT !.pc = "issued"]
    <3>2. new \in Request
      BY DEF Request
    <3>3. new.pc = "issued" /\ new.user = old.user /\ new.phone = old.phone
      BY DEF Request
    <3>4. new.can = old.can
      BY DEF Request
    <3>5. request' = [request EXCEPT ![r] = new]
      BY <2>1, <3>1, InvParts
    <3> HIDE DEF new
    <3> QED  BY <1>1, <1>2, <3>1, <3>2, <3>3, <3>4, <3>5
  <2>2. CASE End(r, "error")
    <3>1. PICK new \in Request : /\ request' = [request EXCEPT ![r] = new]
                                 /\ ~new.can /\ new.pc = "ended"
      BY <2>2, InvParts, EndFacts
    <3> QED  BY <3>1
  <2> QED  BY <1>3, <2>1, <2>2
<1>7. /\ request' \in [Requests -> Request] /\ request'[r] = task
      /\ \A o \in Requests : o # r => request'[o] = request[o]
  BY <1>6, InvParts, RequestMoves
<1>8. TypeOK'
  BY <1>1, <1>5, <1>6, <1>7, InvParts DEF TypeOK
<1>9. SessionsFollowPassword' /\ SmsSessionsFollowPhone'
  BY <1>1, InvParts DEF SessionsFollowPassword, SmsSessionsFollowPhone
<1>10. ASSUME NEW o \in Requests, o # r, request[o].can
       PROVE  \A a \in Actions : Open(request[o].user, a)' \subseteq Open(request[o].user, a)
  <2>1. request[o].user # user /\ request'[o] = request[o]
    BY <1>1, <1>2, <1>7, <1>10, OtherUser
  <2> QED  BY <1>4, <2>1 DEF Open
<1>11. Own(r)'
  BY <1>6, <1>7 DEF Own, Holding
<1>12. Holding(r)' => \A o \in Requests : o # r /\ Holding(o) => LockKey(o) # LockKey(r)'
  <2>1. Holding(r) /\ LockKey(r) = user
    BY <1>1, <1>2, AuthKitConstants DEF Holding, LockKey
  <2>2. Holding(r)' => LockKey(r)' = user
    BY <1>2, <1>6, <1>7, AuthKitConstants DEF Holding, LockKey
  <2> QED  BY <2>1, <2>2, InvParts DEF Exclusive
<1>13. LocksProtect'
  BY <1>1, <1>6, <1>10, <1>11, <1>12, LocksKept
<1> QED  BY <1>8, <1>9, <1>13 DEF SessionInv

LEMMA RememberKeeps ==
    ASSUME SessionInv, NEW r \in Requests, Remember(r)
    PROVE  SessionInv'
<1>1. /\ End(r, "ok") /\ UNCHANGED <<bound, password, sessions, challenge>>
      /\ active' \in [Users \X Actions -> Requests \cup {None}]
  BY InvParts DEF Remember
<1> QED  BY <1>1, EndKeeps

-----------------------------------------------------------------------------
(* Time and the host                                                        *)

LEMMA ForgetKeeps ==
    ASSUME SessionInv, NEW key \in Users \X Actions, Forget(key)
    PROVE  SessionInv'
<1>1. active' \in [Users \X Actions -> Requests \cup {None}]
  BY InvParts DEF Forget
<1> QED  BY <1>1, InvParts, LessKeeps DEF Forget

LEMMA ExpireKeeps ==
    ASSUME SessionInv, NEW c \in Requests, Expire(c)
    PROVE  SessionInv'
<1>1. PICK old \in Challenge : old = challenge[c]
  BY InvParts
<1> DEFINE row == [old EXCEPT !.status = "dead"]
<1>2. row \in Challenge /\ row.status = "dead"
  BY DEF Challenge
<1>3. challenge' = [challenge EXCEPT ![c] = row] /\ UNCHANGED <<request, bound, password, sessions, active>>
  BY <1>1, InvParts DEF Expire
<1> HIDE DEF row
<1>4. /\ challenge' \in [Requests -> Challenge]
      /\ \A x \in Requests : challenge'[x] = challenge[x] \/ challenge'[x].status # "open"
  BY <1>2, <1>3, InvParts
<1> QED  BY <1>3, <1>4, InvParts, LessKeeps

\* The host moves a number: sessions end with it and so do codes.
LEMMA RebindKeeps ==
    ASSUME SessionInv, NEW u \in Users, NEW p \in Phones \cup {None}, Rebind(u, p)
    PROVE  SessionInv'
<1>1. /\ bound' = [bound EXCEPT ![u] = p] /\ sessions' = SessionsWithout(u)
      /\ UNCHANGED <<request, password, active>>
      /\ challenge' = [c \in Requests |->
            IF challenge[c].status = "open" /\ challenge[c].user = u
              THEN [challenge[c] EXCEPT !.status = "dead"] ELSE challenge[c]]
  BY DEF Rebind
<1>2. ASSUME NEW c \in Requests
      PROVE  /\ challenge'[c] \in Challenge
             /\ challenge'[c] = challenge[c] \/ challenge'[c].status # "open"
             /\ challenge'[c].status = "open" => challenge'[c].user # u
  <2>1. PICK old \in Challenge : old = challenge[c]
    BY InvParts
  <2> DEFINE row == [old EXCEPT !.status = "dead"]
  <2>2. row \in Challenge /\ row.status = "dead"
    BY DEF Challenge
  <2>3. challenge'[c] = IF old.status = "open" /\ old.user = u THEN row ELSE old
    BY <1>1, <2>1
  <2> HIDE DEF row
  <2> QED  BY <2>1, <2>2, <2>3
<1>3. challenge' \in [Requests -> Challenge]
  <2>1. challenge' = [c \in Requests |-> challenge'[c]]
    BY <1>1
  <2>2. \A c \in Requests : challenge'[c] \in Challenge
    BY <1>2
  <2> QED  BY ONLY <2>1, <2>2
<1>4. bound' \in [Users -> Phones \cup {None}] /\ \A x \in Users : x # u => bound'[x] = bound[x]
  BY <1>1, InvParts
<1>5. \A action \in Actions : Open(u, action)' = {}
  BY <1>2 DEF Open
<1>6. sessions' \subseteq sessions /\ \A s \in sessions' : s.user # u
  BY <1>1 DEF SessionsWithout
<1> QED  BY <1>1, <1>2, <1>3, <1>4, <1>5, <1>6, InvParts, LessKeeps

-----------------------------------------------------------------------------
(* Every step                                                               *)

LEMMA InitHolds == Init => SessionInv
<1> SUFFICES ASSUME Init PROVE SessionInv
  OBVIOUS
<1>1. TypeOK
  <2>1. \A r \in Requests : request[r] = NewRequest
    BY DEF Init
  <2>2. 0 \in Generation
    BY DEF Generation
  <2>3. [user |-> None, action |-> "login", status |-> "absent"] \in Challenge
    BY DEF Challenge, Actions
  <2> QED  BY <2>1, <2>2, <2>3, RequestTypes, AuthKitConstants DEF Init, TypeOK
<1>2. SessionsFollowPassword /\ SmsSessionsFollowPhone
  BY DEF Init, SessionsFollowPassword, SmsSessionsFollowPhone
<1>3. LocksProtect
  BY RequestTypes DEF Init, LocksProtect, Holding
<1> QED  BY <1>1, <1>2, <1>3 DEF SessionInv

\* One case per action.
LEMMA SessionStep ==
    ASSUME SessionInv, [Next]_vars
    PROVE  SessionInv'
<1>1. ASSUME NEW r \in Requests, NEW kind \in Kinds, Start(r, kind) PROVE SessionInv'
  BY <1>1, StartKeeps
<1>2. ASSUME NEW r \in Requests, RequestStep(r) \/ RefuseSend(r) \/ Break(r) PROVE SessionInv'
  BY <1>2, ResolveKeeps, LockKeeps, RefusalsKeep, CheckPasswordKeeps, SignInKeeps, ChangeKeeps,
     SignOutKeeps, BeginIssueKeeps, IssueKeeps, RememberKeeps, ChooseKeeps, TakeCodeKeeps
     DEF RequestStep
<1>3. ASSUME NEW c \in Requests, Expire(c) PROVE SessionInv'
  BY <1>3, ExpireKeeps
<1>4. ASSUME NEW key \in Users \X Actions, Forget(key) PROVE SessionInv'
  BY <1>4, ForgetKeeps
<1>5. ASSUME NEW u \in Users, NEW p \in Phones \cup {None}, Rebind(u, p) PROVE SessionInv'
  BY <1>5, RebindKeeps
<1>6. CASE UNCHANGED vars
  BY <1>6, InvParts, LessKeeps DEF vars
<1> QED  BY <1>1, <1>2, <1>3, <1>4, <1>5, <1>6 DEF Next

\* A session is as good as what it was opened with, whatever requests meet.
THEOREM SessionsHold == Spec => []SessionInv
<1>1. SessionInv /\ [Next]_vars => SessionInv'
  BY SessionStep
<1> QED  BY <1>1, InitHolds, PTL DEF Spec


formNext == IF mix.form THEN FormNext
            ELSE Next /\ UNCHANGED formVars /\ UNCHANGED gateVars /\ UNCHANGED mix

allVars == <<vars, mix, formVars, gateVars>>

-----------------------------------------------------------------------------
(* The form and the gate only restrict what the requests of AuthKit do      *)

\* The kinds of requests that the form and the other clients make.
KindFits(c) == c = NoCall \/ ("kind" \in DOMAIN c /\ c.kind \in FormKinds)

KindsFit == mix \in Mixes /\ KindFits(call)

\* To the requests, an action of the form or the gate is one of AuthKit or none.
LEMMA FormActionIsStep ==
    ASSUME KindsFit, FormNext
    PROVE  [Next]_vars
<1>1. mix.kinds \subseteq Kinds /\ FormKinds \subseteq Kinds
  BY AuthFormsConstants DEF KindsFit
<1>2. ASSUME TypePhone \/ Switch \/ Refresh \/ SendCode \/ SubmitPassword \/ SubmitCode
             \/ ReceiveCaptcha \/ LoseCaptcha \/ MakeCaptcha \/ TurnAway \/ Arrive
             \/ LoseAnswer \/ Tick
      PROVE  UNCHANGED vars
  BY <1>2 DEF TypePhone, Switch, Refresh, SendCode, SubmitPassword, SubmitCode, ReceiveCaptcha,
     LoseCaptcha, MakeCaptcha, TurnAway, Arrive, LoseAnswer, Tick, Move
<1>3. CASE Admit
  <2>1. call.kind \in Kinds
    BY <1>1, <1>3 DEF Admit, KindsFit, KindFits
  <2>2. UNCHANGED vars \/ \E r \in Requests : Start(r, call.kind)
    BY <1>3 DEF Admit
  <2> QED  BY <2>1, <2>2 DEF Next
<1>4. CASE RebindPhone
  BY <1>4 DEF RebindPhone, Next
<1>5. ASSUME NEW r \in Requests, OtherStart(r) PROVE Next
  BY <1>1, <1>5 DEF OtherStart, Next
<1>6. ASSUME NEW r \in Requests,
             \/ PlainStep(r) \/ LockPhone(r) \/ ConnectSend(r) \/ IssueCode(r) \/ FinishSend(r)
             \/ BreakRequest(r)
      PROVE  RequestStep(r) \/ Break(r)
  BY <1>6 DEF PlainStep, LockPhone, ConnectSend, IssueCode, FinishSend, BreakRequest, RequestStep
<1>7. ASSUME NEW r \in Requests, ReserveSend(r)
      PROVE  RequestStep(r) \/ RefuseSend(r)
  BY <1>7 DEF ReserveSend, RequestStep
<1> QED  BY <1>2, <1>3, <1>4, <1>5, <1>6, <1>7 DEF FormNext, Next

\* The form calls for nothing but what forms call for.
LEMMA KindsStep ==
    ASSUME KindsFit, [formNext]_allVars
    PROVE  KindsFit'
<1>1. mix' = mix
  BY DEF formNext, allVars, FormNext
<1>2. ASSUME FormNext PROVE KindFits(call')
  <2>1. ASSUME NEW kind \in FormKinds, NEW right, NEW code PROVE KindFits(Call(kind, right, code))
    BY DEF Call, KindFits
  <2>2. CASE SendCode
    BY <2>1, <2>2 DEF SendCode, Move, FormKinds
  <2>3. CASE SubmitPassword
    BY <2>1, <2>3 DEF SubmitPassword, Move, FormKinds
  <2>4. CASE SubmitCode
    <3>1. PICK code : call' = Call(IF Purpose(form) = "sms-login" THEN "sms" ELSE "reset",
                                   FALSE, code)
      BY <2>4, Zenon DEF SubmitCode, Move
    <3>2. (IF Purpose(form) = "sms-login" THEN "sms" ELSE "reset") \in FormKinds
      BY DEF FormKinds
    <3> QED  BY <2>1, <3>1, <3>2
  <2>5. ASSUME TypePhone \/ Switch \/ Refresh \/ ReceiveCaptcha \/ LoseCaptcha \/ MakeCaptcha
               \/ Arrive \/ LoseAnswer \/ Tick \/ RebindPhone
        PROVE  KindFits(call')
    BY <2>5 DEF KindsFit, KindFits, TypePhone, Switch, Refresh, ReceiveCaptcha, LoseCaptcha, MakeCaptcha, Arrive,
       LoseAnswer, Tick, RebindPhone, Move, formVars
  <2>6. CASE TurnAway \/ Admit
    BY <2>6 DEF TurnAway, Admit, Answered, KindsFit, KindFits
  <2>7. ASSUME NEW r \in Requests, OtherStart(r) \/ PlainStep(r) \/ LockPhone(r) \/ ReserveSend(r)
                     \/ ConnectSend(r) \/ IssueCode(r) \/ FinishSend(r) \/ BreakRequest(r)
        PROVE  KindFits(call')
    BY <2>7 DEF OtherStart, PlainStep, LockPhone, ReserveSend, ConnectSend, IssueCode, FinishSend, BreakRequest,
       Reply, KindsFit, KindFits, formVars
  <2> QED  BY <1>2, <2>2, <2>3, <2>4, <2>5, <2>6, <2>7 DEF FormNext
<1>3. KindFits(call')
  BY <1>2 DEF formNext, allVars, formVars, KindsFit
<1> QED  BY <1>1, <1>3 DEF KindsFit

\* Whatever the form, its captchas and the windows do, the requests are AuthKit's.
THEOREM FormKeepsRequests == FormSpec => Spec
<1>1. FormInit => Init /\ KindsFit
  BY DEF FormInit, KindsFit, KindFits
<1>2. KindsFit /\ [formNext]_allVars => [Next]_vars
  BY FormActionIsStep DEF formNext, allVars
<1>3. KindsFit /\ [formNext]_allVars => KindsFit'
  BY KindsStep
<1>4. FormSpec => FormInit /\ [][formNext]_allVars
  BY DEF FormSpec, formNext, allVars
<1> QED  BY <1>1, <1>2, <1>3, <1>4, PTL DEF Spec

\* So a session is as good as what it was opened with, however the form got there.
THEOREM FormSessionsHold == FormSpec => []SessionInv
BY FormKeepsRequests, SessionsHold, PTL

-----------------------------------------------------------------------------
(* Windows                                                                  *)

Window == [sends : SUBSET Send, pending : Nat, expires : Nat]

\* Sends that can be in a window: not too many, and none later than now.
Fitting(sends, now) ==
    /\ sends \subseteq Send /\ IsFiniteSet(sends)
    /\ \A s \in sends : s.at <= now

\* What CHOOSE is asked for by Oldest and Latest exists.
LEMMA LeastNumber ==
    ASSUME NEW T \in SUBSET Nat, T # {}
    PROVE  \E x \in T : \A y \in T : x <= y
<1> DEFINE R == {ss \in Nat \X Nat : ss[1] < ss[2]}
<1>1. IsWellFoundedOn(R, Nat)
  BY NatLessThanWellFounded DEF OpToRel
<1> HIDE DEF R
<1>2. PICK x \in T : \A y \in T : ~ (<<y, x>> \in R)
  BY <1>1, WFMin
<1>3. ASSUME NEW y \in T PROVE x <= y
  <2>1. x \in Nat /\ y \in Nat /\ <<y, x>> \notin R
    BY <1>2
  <2>2. y < x => <<y, x>> \in R
    BY <2>1 DEF R
  <2> QED  BY <2>1, <2>2
<1> QED  BY <1>3

LEMMA GateNumbers ==
    /\ SendInterval \in Nat /\ SendInterval > 0 /\ SendWindow \in Nat /\ SendWindow > 0
    /\ SendLimit \in Nat /\ SendLimit > 0 /\ PendingFence \in Nat /\ PendingFence > 0
    /\ SendInterval < PendingFence /\ PendingFence < SendWindow
    /\ CaptchaLife \in Nat /\ Skew \in Nat
BY AuthGateConstants, AuthFormsConstants

\* The ends of a window are what they are named for.
LEMMA OldestIsFirst ==
    ASSUME NEW sends \in SUBSET Send, sends # {}
    PROVE  Oldest(sends) \in sends /\ \A t \in sends : Oldest(sends).at <= t.at
<1>1. {s.at : s \in sends} \in SUBSET Nat /\ {s.at : s \in sends} # {}
  BY DEF Send
<1>2. PICK x \in {s.at : s \in sends} : \A y \in {s.at : s \in sends} : x <= y
  BY <1>1, LeastNumber
<1>3. \E s \in sends : \A t \in sends : s.at <= t.at
  BY <1>2
<1> QED  BY <1>3 DEF Oldest

\* ... and nothing is later than now, so that there is a last one.
LEMMA LatestIsLast ==
    ASSUME NEW now \in Nat, NEW sends, Fitting(sends, now), sends # {}
    PROVE  Latest(sends) \in sends /\ \A t \in sends : t.at <= Latest(sends).at
<1>1. \A s \in sends : s.at \in Nat /\ now - s.at \in Nat
  BY DEF Send, Fitting
<1>2. {now - s.at : s \in sends} \in SUBSET Nat /\ {now - s.at : s \in sends} # {}
  BY <1>1
<1>3. PICK x \in {now - s.at : s \in sends} : \A y \in {now - s.at : s \in sends} : x <= y
  BY <1>2, LeastNumber
<1>4. \E s \in sends : \A t \in sends : t.at <= s.at
  <2>1. PICK s \in sends : x = now - s.at
    BY <1>3
  <2>2. ASSUME NEW t \in sends PROVE t.at <= s.at
    <3>1. now - s.at <= now - t.at
      BY <1>3, <2>1
    <3> QED  BY <1>1, <3>1
  <2> QED  BY <2>2
<1> QED  BY <1>4 DEF Latest

\* The sends that still count are some of the sends.
LEMMA RecentFits ==
    ASSUME NEW now \in Nat, NEW t \in Nat, NEW sends, Fitting(sends, now)
    PROVE  /\ Recent(sends, t) \subseteq sends /\ Fitting(Recent(sends, t), now)
           /\ Cardinality(Recent(sends, t)) <= Cardinality(sends)
           /\ Cardinality(sends) \in Nat /\ Cardinality(Recent(sends, t)) \in Nat
<1>1. Recent(sends, t) \in SUBSET sends
  BY DEF Recent
<1>2. IsFiniteSet(Recent(sends, t)) /\ Cardinality(Recent(sends, t)) <= Cardinality(sends)
  BY <1>1, FS_Subset DEF Fitting
<1> QED  BY <1>1, <1>2, FS_CardinalityType DEF Fitting

\* When the next send is allowed: SendInterval after all of them, and when the oldest
\* of a full window has left it.
LEMMA RetryTimes ==
    ASSUME NEW now \in Nat, NEW sends, Fitting(sends, now)
    PROVE  /\ RetryAt(sends, now) \in Nat /\ now <= RetryAt(sends, now)
           /\ \A s \in sends : s.at + SendInterval <= RetryAt(sends, now)
           /\ \/ Cardinality(sends) < SendLimit
              \/ sends # {} /\ Oldest(sends).at + SendWindow <= RetryAt(sends, now)
<1> DEFINE spaced == IF sends = {} THEN now ELSE Later(now, Latest(sends).at + SendInterval)
<1>1. \A s \in sends : s.at \in Nat
  BY DEF Fitting, Send
<1>2. /\ spaced \in Nat /\ now <= spaced
      /\ \A s \in sends : s.at + SendInterval <= spaced
  <2>1. CASE sends = {}
    BY <2>1
  <2>2. CASE sends # {}
    BY <1>1, <2>2, LatestIsLast, GateNumbers DEF Later
  <2> QED  BY <2>1, <2>2
<1>3. sends = {} => Cardinality(sends) < SendLimit
  BY FS_EmptySet, GateNumbers
<1>4. sends # {} => Oldest(sends).at \in Nat
  BY <1>1, OldestIsFirst DEF Fitting
<1>5. RetryAt(sends, now) = IF Cardinality(sends) < SendLimit THEN spaced
                            ELSE Later(spaced, Oldest(sends).at + SendWindow)
  BY DEF RetryAt
<1> HIDE DEF spaced
<1>6. CASE Cardinality(sends) < SendLimit
  BY <1>2, <1>5, <1>6
<1>7. CASE ~(Cardinality(sends) < SendLimit)
  <2>1. sends # {} /\ Oldest(sends).at + SendWindow \in Nat
    BY <1>3, <1>4, <1>7, GateNumbers
  <2>2. PICK t \in Nat : t = Oldest(sends).at + SendWindow
    BY <2>1
  <2>3. RetryAt(sends, now) = IF spaced < t THEN t ELSE spaced
    BY <1>5, <1>7, <2>2 DEF Later
  <2>4. \A s \in sends : s.at + SendInterval \in Nat
    BY <1>1, GateNumbers
  <2>5. RetryAt(sends, now) \in Nat /\ spaced <= RetryAt(sends, now) /\ t <= RetryAt(sends, now)
    BY <1>2, <2>2, <2>3
  <2> QED  BY <1>2, <2>1, <2>2, <2>4, <2>5
<1> QED  BY <1>6, <1>7

\* A window with room and without a recent send asks nobody to wait.
LEMMA RetryNow ==
    ASSUME NEW now \in Nat, NEW sends, Fitting(sends, now),
           \A s \in sends : s.at + SendInterval <= now, Cardinality(sends) < SendLimit
    PROVE  RetryAt(sends, now) = now
<1>1. CASE sends = {}
  BY <1>1 DEF RetryAt
<1>2. CASE sends # {}
  <2>1. Latest(sends) \in sends
    BY <1>2, LatestIsLast
  <2>2. Latest(sends).at + SendInterval <= now /\ Latest(sends).at \in Nat
    BY <2>1 DEF Fitting, Send
  <2> QED  BY <1>2, <2>2, GateNumbers DEF RetryAt, Later
<1> QED  BY <1>1, <1>2

\* From then on it is: there is room in the window again.
LEMMA RetryOpens ==
    ASSUME NEW now \in Nat, NEW sends, Fitting(sends, now), Cardinality(sends) <= SendLimit
    PROVE  Cardinality(Recent(sends, RetryAt(sends, now))) < SendLimit
<1> DEFINE t == RetryAt(sends, now)
<1>1. t \in Nat /\ Cardinality(sends) \in Nat
      /\ Cardinality(Recent(sends, t)) \in Nat /\ Cardinality(Recent(sends, t)) <= Cardinality(sends)
  BY RetryTimes, RecentFits
<1>2. CASE Cardinality(sends) < SendLimit
  BY <1>1, <1>2, GateNumbers
<1>3. CASE sends # {} /\ Oldest(sends).at + SendWindow <= t
  <2>1. Oldest(sends) \in sends /\ Oldest(sends).at \in Nat
    BY <1>3, OldestIsFirst DEF Fitting, Send
  <2>2. Oldest(sends) \notin Recent(sends, t)
    BY <1>1, <1>3, <2>1, GateNumbers DEF Recent
  <2>3. Recent(sends, t) # sends
    BY <2>1, <2>2
  <2>4. Cardinality(Recent(sends, t)) # Cardinality(sends)
    BY <2>3, RecentFits, FS_Subset, <1>1 DEF Fitting
  <2> QED  BY <1>1, <2>4, GateNumbers
<1> QED  BY <1>2, <1>3, RetryTimes

\* A window at rest: what WindowHolds says of it whoever sends.
Sound(window, now) ==
    /\ window \in Window /\ Fitting(window.sends, now)
    /\ Cardinality(window.sends) <= SendLimit
    /\ window.pending > now => window.pending = window.expires

\* A window nobody has used, and one that Redis has dropped.
LEMMA EmptyWindow ==
    ASSUME NEW now \in Nat
    PROVE  Sound(NoWindow, now) /\ NoWindow.sends = {} /\ NoWindow.expires = 0 /\ NoWindow.pending = 0
<1>1. NoWindow.sends = {} /\ NoWindow.expires = 0 /\ NoWindow.pending = 0 /\ NoWindow \in Window
  BY DEF NoWindow, Window
<1>2. Fitting({}, now) /\ Cardinality({}) <= SendLimit
  BY FS_EmptySet, GateNumbers DEF Fitting
<1> QED  BY <1>1, <1>2 DEF Sound

LEMMA AliveIsSound ==
    ASSUME NEW now \in Nat, NEW window, Sound(window, now)
    PROVE  /\ Sound(Alive(window, now), now)
           /\ Alive(window, now).sends \subseteq window.sends
           /\ window.expires > now => Alive(window, now) = window
           /\ window.expires <= now => Alive(window, now) = NoWindow
<1>1. window.expires \in Nat
  BY DEF Sound, Window
<1>2. /\ window.expires > now => Alive(window, now) = window
      /\ window.expires <= now => Alive(window, now) = NoWindow
  BY <1>1 DEF Alive
<1>3. window.expires > now \/ window.expires <= now
  BY <1>1
<1> QED  BY <1>2, <1>3, EmptyWindow

\* Who is turned away is told when the window opens; nothing that counts is lost.
LEMMA Refused ==
    ASSUME NEW now \in Nat, NEW window, Sound(window, now), NEW who \in Requests,
           ~ Reserve(window, who, now).allowed
    PROVE  LET asked == Reserve(window, who, now) IN
           /\ asked.retryAt \in Nat /\ Opens(asked.window, asked.retryAt)
           /\ Sound(asked.window, now)
           /\ asked.window.sends \subseteq window.sends
           /\ window.expires > now => asked.window.expires = window.expires
           /\ window.expires <= now => asked.window.sends = {}
           /\ window.pending > now => asked.window = window
           /\ window.expires > now =>
                \A s \in window.sends : s.at > now - SendWindow => s \in asked.window.sends
<1>1. PICK live : live = Alive(window, now)
  OBVIOUS
<1>2. /\ Sound(live, now) /\ live.sends \subseteq window.sends /\ live \in Window
      /\ window.expires > now => live = window
      /\ window.expires <= now => live = NoWindow
  BY <1>1, AliveIsSound DEF Sound
<1>3. live.pending \in Nat /\ live.expires \in Nat /\ window.expires \in Nat
  BY <1>2 DEF Window, Sound
<1>4. PICK sends : sends = Recent(live.sends, now)
  OBVIOUS
<1>5. /\ sends \subseteq live.sends /\ Fitting(sends, now) /\ Cardinality(sends) <= SendLimit
      /\ \A s \in live.sends : s.at > now - SendWindow => s \in sends
  <2>1. sends \subseteq live.sends /\ Fitting(sends, now)
        /\ Cardinality(sends) <= Cardinality(live.sends) /\ Cardinality(sends) \in Nat
        /\ Cardinality(live.sends) \in Nat /\ Cardinality(live.sends) <= SendLimit
    BY <1>2, <1>4, RecentFits DEF Sound
  <2>2. \A s \in live.sends : s.at > now - SendWindow => s \in sends
    BY <1>4 DEF Recent
  <2> QED  BY <2>1, <2>2, GateNumbers
<1>6. PICK asked : asked = Reserve(window, who, now)
  OBVIOUS
<1>7. CASE live.pending > now
  <2>1. asked.retryAt = live.pending /\ asked.window = live
    BY <1>1, <1>6, <1>7 DEF Reserve
  <2>2. live.expires = live.pending
    BY <1>2, <1>7 DEF Sound
  <2>3. Opens(live, live.pending)
    BY <1>3, <2>2 DEF Opens
  <2>4. window.expires > now /\ live = window
    BY <1>2, <1>3, <1>7, EmptyWindow
  <2> QED  BY <1>2, <1>3, <1>6, <2>1, <2>2, <2>3, <2>4
<1>8. CASE ~ (live.pending > now)
  <2> DEFINE w == [live EXCEPT !.sends = sends, !.pending = 0]
  <2>1. RetryAt(sends, now) > now
    BY <1>1, <1>4, <1>8 DEF Reserve
  <2>2. asked.retryAt = RetryAt(sends, now) /\ asked.window = w
    BY <1>1, <1>4, <1>6, <1>8, <2>1 DEF Reserve
  <2>3. w \in Window /\ w.sends = sends /\ w.pending = 0 /\ w.expires = live.expires
    BY <1>2, <1>5 DEF Window, Fitting
  <2> HIDE DEF w
  <2>4. Sound(w, now)
    BY <1>5, <2>3 DEF Sound
  <2>5. asked.retryAt \in Nat /\ \A s \in sends : s.at + SendInterval <= asked.retryAt
    BY <1>5, <2>2, RetryTimes
  <2>6. Cardinality(Recent(sends, asked.retryAt)) < SendLimit
    BY <1>5, <2>2, RetryOpens
  <2>7. Opens(w, asked.retryAt)
    BY <2>3, <2>5, <2>6 DEF Opens
  <2>8. ~ (window.pending > now /\ window.expires > now)
    BY <1>2, <1>8
  <2>9. window.pending > now => window.expires > now
    BY DEF Sound
  <2>10. window.expires > now => live = window
    BY <1>2
  <2>11. window.expires <= now => sends = {}
    BY <1>2, <1>5, EmptyWindow
  <2> QED  BY <1>2, <1>3, <1>5, <1>6, <2>2, <2>3, <2>4, <2>5, <2>7, <2>8, <2>9, <2>10, <2>11
<1> QED  BY <1>7, <1>8

\* Who is let in finds the others a SendInterval behind, and room.
LEMMA Allowed ==
    ASSUME NEW now \in Nat, NEW window, Sound(window, now), NEW who \in Requests,
           Reserve(window, who, now).allowed
    PROVE  LET asked == Reserve(window, who, now)
               own == [by |-> who, at |-> now]
               others == Recent(Alive(window, now).sends, now)
           IN
           /\ Alive(window, now).pending <= now
           /\ others \subseteq window.sends /\ Fitting(others, now)
           /\ \A s \in others : s.at + SendInterval <= now
           /\ Cardinality(others) < SendLimit
           /\ asked.window = [sends |-> others \cup {own}, pending |-> now + PendingFence,
                              expires |-> now + PendingFence]
           /\ Sound(asked.window, now)
<1>1. PICK live : live = Alive(window, now)
  OBVIOUS
<1>2. Sound(live, now) /\ live.sends \subseteq window.sends /\ live.pending \in Nat
  BY <1>1, AliveIsSound DEF Sound, Window
<1>3. PICK others : others = Recent(live.sends, now)
  OBVIOUS
<1>4. others \subseteq live.sends /\ Fitting(others, now) /\ Cardinality(others) \in Nat
  BY <1>2, <1>3, RecentFits DEF Sound
<1>5. PICK own : own = [by |-> who, at |-> now]
  OBVIOUS
<1>6. PICK asked : asked = Reserve(window, who, now)
  OBVIOUS
<1>7. live.pending <= now
  BY <1>1, <1>2, <1>6 DEF Reserve
<1>8. ~ (RetryAt(others, now) > now)
  BY <1>1, <1>3, <1>6, <1>7, <1>2 DEF Reserve
<1>9. asked.window = [sends |-> others \cup {own}, pending |-> now + PendingFence,
                      expires |-> now + PendingFence]
  BY <1>1, <1>2, <1>3, <1>5, <1>6, <1>7, <1>8 DEF Reserve
<1>10. RetryAt(others, now) = now
  BY <1>4, <1>8, RetryTimes
<1>11. \A s \in others : s.at + SendInterval <= now
  BY <1>4, <1>10, RetryTimes
<1>12. Cardinality(others) < SendLimit
  <2>1. ASSUME others # {}, Oldest(others).at + SendWindow <= now PROVE FALSE
    <3>1. Oldest(others) \in others /\ Oldest(others).at \in Nat
      BY <1>4, <2>1, OldestIsFirst DEF Fitting, Send
    <3>2. Oldest(others).at > now - SendWindow
      BY <1>3, <3>1 DEF Recent
    <3> QED  BY <2>1, <3>1, <3>2, GateNumbers
  <2> QED  BY <1>4, <1>10, <2>1, RetryTimes
<1>13. Sound(asked.window, now)
  <2> DEFINE added == others \cup {own}
  <2>1. own \in Send /\ own.at = now
    BY <1>5 DEF Send
  <2>2. added \subseteq Send /\ \A s \in added : s.at <= now
    BY <1>4, <2>1 DEF Fitting
  <2>3. IsFiniteSet(added) /\ Cardinality(added) <= SendLimit
    <3>1. IsFiniteSet(others)
      BY <1>4 DEF Fitting
    <3>2. IsFiniteSet(added) /\ Cardinality(added) = IF own \in others THEN Cardinality(others)
                                                      ELSE Cardinality(others) + 1
      BY ONLY <3>1, FS_AddElement
    <3> QED  BY <1>4, <1>12, <3>2, GateNumbers
  <2>4. asked.window \in Window /\ asked.window.sends = added
        /\ asked.window.pending = asked.window.expires
    BY <1>9, <2>2, GateNumbers DEF Window
  <2> QED  BY <2>2, <2>3, <2>4 DEF Sound, Fitting
<1> QED
  BY <1>1, <1>2, <1>3, <1>4, <1>5, <1>6, <1>7, <1>9, <1>11, <1>12, <1>13

\* The last send of a window counts from now on, and the answer says when the window opens.
LEMMA Moved ==
    ASSUME NEW now \in Nat, NEW window, Sound(window, now), NEW who \in Requests,
           NEW sends, sends = Alive(window, now).sends,
           NEW own \in sends, own = Latest(sends)
    PROVE  LET done == Finish(window, who, now)
               moved == (sends \ {own}) \cup {[own EXCEPT !.at = now]}
           IN
           /\ done.retryAt \in Nat /\ Opens(done.window, done.retryAt)
           /\ done.window = [sends |-> moved, pending |-> 0, expires |-> now + SendWindow]
           /\ Sound(done.window, now)
<1>2. Fitting(sends, now) /\ own \in sends /\ Cardinality(sends) <= SendLimit
  BY AliveIsSound DEF Sound
<1>3. Latest(sends) = own
  OBVIOUS
<1>4. PICK later : later = [own EXCEPT !.at = now]
  OBVIOUS
<1>5. later \in Send /\ later.at = now /\ later.by = own.by
  BY <1>2, <1>4 DEF Fitting, Send
<1>6. PICK moved : moved = (sends \ {own}) \cup {later}
  OBVIOUS
<1>7. moved \subseteq Send /\ \A s \in moved : s.at <= now
  BY <1>2, <1>5, <1>6 DEF Fitting
<1>8. IsFiniteSet(moved) /\ Cardinality(moved) <= SendLimit
  <2>1. IsFiniteSet(sends \ {own}) /\ Cardinality(sends \ {own}) = Cardinality(sends) - 1
    BY <1>2, FS_RemoveElement DEF Fitting
  <2>2. IsFiniteSet(moved) /\ Cardinality(moved) <= Cardinality(sends \ {own}) + 1
        /\ Cardinality(sends \ {own}) \in Nat /\ Cardinality(sends) \in Nat
        /\ Cardinality(moved) \in Nat
    <3>1. IsFiniteSet(sends)
      BY <1>2 DEF Fitting
    <3>2. Cardinality(sends) \in Nat /\ Cardinality(sends \ {own}) \in Nat
      BY <2>1, <3>1, FS_CardinalityType
    <3>3. IsFiniteSet(moved) /\ Cardinality(moved) = IF later \in sends \ {own}
                                                      THEN Cardinality(sends \ {own})
                                                      ELSE Cardinality(sends \ {own}) + 1
      BY ONLY <1>6, <2>1, FS_AddElement
    <3> QED  BY <3>2, <3>3
  <2> QED  BY <1>2, <2>1, <2>2, GateNumbers
<1>9. Fitting(moved, now)
  BY <1>7, <1>8 DEF Fitting
<1>10. PICK done : done = Finish(window, who, now)
  OBVIOUS
<1>11. done.retryAt = RetryAt(moved, now)
       /\ done.window = [sends |-> moved, pending |-> 0, expires |-> now + SendWindow]
  BY <1>2, <1>3, <1>4, <1>6, <1>10 DEF Finish
<1>12. done.window \in Window /\ done.window.sends = moved /\ done.window.pending = 0
  BY <1>7, <1>11, GateNumbers DEF Window
<1>13. done.retryAt \in Nat /\ Opens(done.window, done.retryAt)
  BY <1>8, <1>9, <1>11, <1>12, RetryTimes, RetryOpens DEF Opens
<1>14. Sound(done.window, now)
  BY <1>8, <1>9, <1>12 DEF Sound
<1> QED  BY <1>4, <1>6, <1>10, <1>11, <1>13, <1>14

\* When the window is still there it is the send that ends which is the last.
LEMMA Finished ==
    ASSUME NEW now \in Nat, NEW window, Sound(window, now), window.expires > now,
           NEW who \in Requests, NEW own \in window.sends,
           \A s \in window.sends \ {own} : s.by # own.by /\ s.at < own.at
    PROVE  LET done == Finish(window, who, now)
               moved == (window.sends \ {own}) \cup {[own EXCEPT !.at = now]}
           IN
           /\ done.retryAt \in Nat /\ Opens(done.window, done.retryAt)
           /\ done.window = [sends |-> moved, pending |-> 0, expires |-> now + SendWindow]
           /\ Sound(done.window, now)
<1>1. PICK sends : sends = window.sends
  OBVIOUS
<1>2. Fitting(sends, now) /\ own \in sends /\ sends = Alive(window, now).sends
  BY <1>1, AliveIsSound DEF Sound
<1>3. own = Latest(sends)
  <2>1. \A s \in sends : s.at \in Nat
    BY <1>2 DEF Fitting, Send
  <2>2. Latest(sends) \in sends /\ own.at <= Latest(sends).at
    BY <1>2, LatestIsLast
  <2> QED  BY <1>1, <1>2, <2>1, <2>2
<1> QED  BY <1>1, <1>2, <1>3, Moved

\* The sends of a window after one by who has ended: those before, but one that counts
\* from now on and some that no longer count; or that one alone.
Refreshed(old, new, who, now) ==
    \/ new = {[by |-> who, at |-> now]}
    \/ \E own \in old : \E others \in SUBSET (old \ {own}) :
          new = others \cup {[own EXCEPT !.at = now]}

\* Whatever has become of the window meanwhile, it holds what it held, or who ends.
LEMMA FinishedAnyhow ==
    ASSUME NEW now \in Nat, NEW window, Sound(window, now), NEW who \in Requests,
           NEW done, done = Finish(window, who, now)
    PROVE  /\ done.retryAt \in Nat /\ Opens(done.window, done.retryAt)
           /\ Sound(done.window, now)
           /\ done.window.pending = 0 /\ done.window.expires = now + SendWindow
           /\ Refreshed(window.sends, done.window.sends, who, now)
<1>1. PICK sends : sends = Alive(window, now).sends
  OBVIOUS
<1>2. done = Finish(window, who, now)
  OBVIOUS
<1>3. Fitting(sends, now) /\ sends \subseteq window.sends
  BY <1>1, AliveIsSound DEF Sound
<1>4. CASE sends = {}
  <2>1. PICK new : new = [by |-> who, at |-> now]
    OBVIOUS
  <2>2. new \in Send /\ new.at = now
    BY <2>1 DEF Send
  <2>3. PICK moved : moved = {new}
    OBVIOUS
  <2>4. done.retryAt = RetryAt(moved, now)
        /\ done.window = [sends |-> moved, pending |-> 0, expires |-> now + SendWindow]
    BY <1>1, <1>2, <1>4, <2>1, <2>3 DEF Finish
  <2>5. IsFiniteSet(moved) /\ Cardinality(moved) = 1
    BY <2>3, FS_Singleton
  <2>6. Fitting(moved, now) /\ Cardinality(moved) <= SendLimit
    BY <2>2, <2>3, <2>5, GateNumbers DEF Fitting
  <2>7. done.window \in Window /\ done.window.sends = moved /\ done.window.pending = 0
        /\ done.window.expires = now + SendWindow
    BY <2>2, <2>3, <2>4, GateNumbers DEF Window
  <2>8. done.retryAt \in Nat /\ Opens(done.window, done.retryAt)
    BY <2>4, <2>6, <2>7, RetryTimes, RetryOpens DEF Opens
  <2>9. Refreshed(window.sends, done.window.sends, who, now)
    BY <2>1, <2>3, <2>7 DEF Refreshed
  <2> QED  BY <1>2, <2>6, <2>7, <2>8, <2>9 DEF Sound
<1>5. CASE sends # {}
  <2>1. PICK own \in sends : own = Latest(sends)
    BY <1>3, <1>5, LatestIsLast
  <2>2. /\ done.retryAt \in Nat /\ Opens(done.window, done.retryAt)
        /\ done.window = [sends |-> (sends \ {own}) \cup {[own EXCEPT !.at = now]}, pending |-> 0,
                          expires |-> now + SendWindow]
        /\ Sound(done.window, now)
    BY <1>1, <1>2, <2>1, Moved
  <2>3. sends \ {own} \in SUBSET (window.sends \ {own}) /\ own \in window.sends
    BY <1>3
  <2>4. Refreshed(window.sends, done.window.sends, who, now)
    <3>1. done.window.sends = (sends \ {own}) \cup {[own EXCEPT !.at = now]}
      BY <2>2
    <3> QED  BY <2>3, <3>1 DEF Refreshed
  <2>5. done.window.pending = 0 /\ done.window.expires = now + SendWindow
    BY <2>2
  <2> QED  BY <1>2, <2>2, <2>4, <2>5
<1> QED  BY <1>4, <1>5

\* A window that opens at a time is open ever after, and then lets a send in.
LEMMA OpenLater ==
    ASSUME NEW now \in Nat, NEW window, Sound(window, now), NEW t \in Nat, NEW later \in Nat,
           t <= later, Opens(window, t)
    PROVE  Opens(window, later)
<1>1. window.pending \in Nat /\ window.expires \in Nat /\ \A s \in window.sends : s.at \in Nat
  BY DEF Sound, Window, Send
<1>2. /\ Fitting(Recent(window.sends, t), now) /\ Cardinality(Recent(window.sends, t)) \in Nat
      /\ Cardinality(Recent(window.sends, later)) \in Nat
  BY RecentFits DEF Sound
<1>3. Recent(window.sends, later) \in SUBSET Recent(window.sends, t)
  BY <1>1, GateNumbers DEF Recent
<1>4. Cardinality(Recent(window.sends, later)) <= Cardinality(Recent(window.sends, t))
  BY <1>2, <1>3, FS_Subset DEF Fitting
<1> QED  BY <1>1, <1>2, <1>4, GateNumbers DEF Opens

\* The point of Opens: whoever comes then is let in.
LEMMA OpenLetsIn ==
    ASSUME NEW now \in Nat, NEW window, Sound(window, now), NEW who, Opens(window, now)
    PROVE  Reserve(window, who, now).allowed
<1>1. PICK live : live = Alive(window, now)
  OBVIOUS
<1>2. PICK sends : sends = Recent(live.sends, now)
  OBVIOUS
<1>3. window.pending \in Nat /\ window.expires \in Nat
  BY DEF Sound, Window
<1>4. live.pending <= now /\ RetryAt(sends, now) = now
  <2>1. CASE window.expires <= now
    <3>1. live.sends = {} /\ live.pending = 0
      BY <1>1, <2>1, AliveIsSound, EmptyWindow
    <3>2. sends = {} /\ Fitting(sends, now) /\ Cardinality(sends) < SendLimit
      BY <1>2, <3>1, FS_EmptySet, GateNumbers DEF Recent, Fitting
    <3> QED  BY <3>1, <3>2, RetryNow
  <2>2. CASE ~ (window.expires <= now)
    <3>1. live = window /\ Fitting(window.sends, now)
      BY <1>1, <1>3, <2>2, AliveIsSound DEF Sound
    <3>2. sends \subseteq window.sends /\ Fitting(sends, now)
      BY <1>2, <3>1, RecentFits
    <3>3. /\ window.pending <= now /\ Cardinality(sends) < SendLimit
          /\ \A s \in window.sends : s.at + SendInterval <= now
      BY <1>2, <2>2, <3>1 DEF Opens
    <3> QED  BY <3>1, <3>2, <3>3, RetryNow
  <2> QED  BY <2>1, <2>2
<1>5. live.pending \in Nat
  BY <1>1, AliveIsSound DEF Sound, Window
<1> QED  BY <1>1, <1>2, <1>4, <1>5 DEF Reserve

-----------------------------------------------------------------------------
(* Sends: what a step that does not touch a number leaves alone             *)

\* The parts of SendInv.
Windows == \A p \in Phones : WindowHolds(p)
Codes == \A s \in sent : CodeCounts(s)
LastAsked ==
    \A p \in Phones : gate.last[p] # None =>
        Admitted(gate.last[p]) /\ sending[gate.last[p]].phone = p
PhoneKnown(r) ==
    /\ Sends(request[r].kind) /\ request[r].pc \in {"started", "resolved"} => request[r].phone # None
    /\ Sends(request[r].kind) /\ request[r].pc = "locked" => sending[r].phone # None
Holders == \A r \in Requests : PhoneKnown(r) /\ (InFlight(r) => Sender(r))
Silent ==
    /\ call = NoCall /\ sent = {}
    /\ \A p \in Phones : /\ form.told[p] = None /\ gate.last[p] = None
                         /\ gate.windows[p].sends = {}

\* What has been sent and what the windows hold, part by part.
LEMMA SendParts ==
    SendInv <=> /\ SendsAreLimited /\ Windows /\ Codes /\ LastAsked
                /\ mix.form => Holders
                /\ ~ mix.form => Silent
BY DEF SendInv, WindowsHold, Windows, Codes, LastAsked, Holders, PhoneKnown, Silent

LEMMA SendFromParts ==
    SendsAreLimited' /\ Windows' /\ Codes' /\ LastAsked' /\ (mix.form => Holders)'
      /\ (~ mix.form => Silent)' => SendInv'
BY SendParts, PTL

LEMMA GateTypes ==
    ASSUME FormTypeOK
    PROVE  /\ gate \in Gate /\ gate.now \in Nat
           /\ gate.windows \in [Phones -> Window] /\ \A p \in Phones : gate.windows[p] \in Window
           /\ gate.last \in [Phones -> Requests \cup {None}]
           /\ \A p \in Phones : gate.last[p] \in Requests \cup {None}
           /\ gate.broken \subseteq Phones /\ gate.late \subseteq Phones
           /\ \A r \in Requests : sending[r].phone \in Phones \cup {None} /\ sending[r].since \in Nat
           /\ sent \subseteq [by : Requests, phone : Phones, at : Nat]
           /\ \A s \in sent : s.by \in Requests /\ s.phone \in Phones /\ s.at \in Nat
           /\ \A p \in Phones : \A s \in gate.windows[p].sends : s.by \in Requests /\ s.at \in Nat
<1>1. gate \in Gate /\ gate.now \in Nat /\ gate.windows \in [Phones -> Window]
      /\ gate.last \in [Phones -> Requests \cup {None}] /\ gate.broken \subseteq Phones
      /\ gate.late \subseteq Phones
  BY DEF FormTypeOK, Gate, Window
<1>2. \A p \in Phones : gate.windows[p] \in Window /\ gate.last[p] \in Requests \cup {None}
  BY <1>1
<1>3. \A p \in Phones : gate.windows[p].sends \subseteq Send
  BY <1>2 DEF Window
<1>4. \A p \in Phones : \A s \in gate.windows[p].sends : s.by \in Requests /\ s.at \in Nat
  BY <1>3 DEF Send
<1> QED  BY <1>1, <1>2, <1>4 DEF FormTypeOK

LEMMA WindowSound ==
    ASSUME FormTypeOK, NEW p \in Phones, WindowHolds(p)
    PROVE  Sound(gate.windows[p], gate.now)
BY GateTypes DEF WindowHolds, Sound, Fitting, Window

\* A step that replaces the window of one number.
LEMMA GateMoves ==
    ASSUME gate \in Gate, NEW p \in Phones, NEW w \in Window, NEW r \in Requests,
           gate' = [gate EXCEPT !.windows[p] = w, !.last[p] = r]
    PROVE  /\ gate' \in Gate /\ gate'.now = gate.now /\ gate'.broken = gate.broken
           /\ gate'.late = gate.late /\ gate'.captchas = gate.captchas /\ gate'.made = gate.made
           /\ gate'.windows[p] = w /\ gate'.last[p] = r
           /\ \A q \in Phones : q # p => gate'.windows[q] = gate.windows[q] /\ gate'.last[q] = gate.last[q]
BY DEF Gate, Window

\* The window of a number stays right while the step is about another number.
LEMMA OtherWindow ==
    ASSUME FormTypeOK, NEW q \in Phones, WindowHolds(q),
           gate'.windows[q] = gate.windows[q], gate'.now = gate.now,
           q \in gate.broken => q \in gate'.broken, gate'.late = gate.late,
           \A o \in Requests : Admitted(o) => Admitted(o)',
           \A o \in Requests : InFlight(o) /\ sending[o].phone = q =>
              q \in gate'.broken \/ (InFlight(o)' /\ sending'[o].phone = q)
    PROVE  WindowHolds(q)'
BY GateTypes DEF WindowHolds

\* A code stays counted while the window of its number stays as it is.
LEMMA OtherCode ==
    ASSUME FormTypeOK, NEW s \in sent, CodeCounts(s),
           gate'.windows[s.phone] = gate.windows[s.phone], gate'.now = gate.now,
           s.phone \in gate.broken => s.phone \in gate'.broken, gate'.late = gate.late,
           request'[s.by].pc \in {"issued", "ended"}, sending'[s.by].phone = sending[s.by].phone,
           \A t \in sent' : s.by = t.by => s = t,
           InFlight(s.by) => InFlight(s.by)' \/ s.phone \in gate'.broken
    PROVE  CodeCounts(s)'
BY GateTypes DEF CodeCounts, InFlight

\* A sender keeps its window while the step is about another number.
LEMMA OtherSender ==
    ASSUME FormTypeOK, NEW o \in Requests, Sender(o),
           request'[o].kind = request[o].kind, request'[o].pc = "issued" <=> request[o].pc = "issued",
           sending'[o] = sending[o], gate'.now = gate.now, gate'.late = gate.late,
           \A s \in sent' : s.by = o \/ (s.phone = sending[o].phone /\ s.phone \notin gate.late) =>
              s \in sent,
           sending[o].phone \notin gate.late =>
              /\ gate'.windows[sending[o].phone] = gate.windows[sending[o].phone]
              /\ \A x \in Requests : InFlight(x)' /\ sending'[x].phone = sending[o].phone => x = o
    PROVE  Sender(o)'
BY GateTypes DEF Sender, HoldsWindow

-----------------------------------------------------------------------------
(* Sends: who is let in is alone                                            *)

\* Unless a send took too long, whoever is let in finds nobody sending to the number ...
LEMMA AllowedAlone ==
    ASSUME FormTypeOK, SendInv, mix.form, NEW p \in Phones, NEW r \in Requests,
           Reserve(gate.windows[p], r, gate.now).allowed, p \notin gate.late
    PROVE  \A o \in Requests : InFlight(o) => sending[o].phone # p
<1> SUFFICES ASSUME NEW o \in Requests, InFlight(o), sending[o].phone = p PROVE FALSE
  OBVIOUS
<1>1. HoldsWindow(o)
  BY SendParts DEF Holders, Sender
<1>2. /\ gate.windows[p].pending = sending[o].since + PendingFence
      /\ gate.windows[p].expires = sending[o].since + PendingFence
      /\ gate.now + SendInterval <= sending[o].since + PendingFence
  BY <1>1 DEF HoldsWindow
<1>3. gate.windows[p].pending > gate.now /\ gate.windows[p].expires > gate.now
  BY <1>2, GateTypes, GateNumbers
<1>4. Sound(gate.windows[p], gate.now)
  BY SendParts, WindowSound DEF Windows
<1>5. Alive(gate.windows[p], gate.now) = gate.windows[p]
      /\ Alive(gate.windows[p], gate.now).pending <= gate.now
  BY <1>3, <1>4, GateTypes, AliveIsSound, Allowed
<1> QED  BY <1>3, <1>5, GateTypes DEF Window

\* ... and no code that is too recent, or one too many.
LEMMA AllowedSpaced ==
    ASSUME FormTypeOK, SendInv, mix.form, NEW p \in Phones, NEW r \in Requests,
           Reserve(gate.windows[p], r, gate.now).allowed, p \notin gate.late,
           NEW s \in sent, s.phone = p
    PROVE  LET others == Recent(Alive(gate.windows[p], gate.now).sends, gate.now) IN
           /\ s.at + SendInterval <= gate.now
           /\ s.at + SendWindow > gate.now /\ p \notin gate.broken =>
                \E t \in others : t.by = s.by /\ s.at <= t.at
<1>1. PICK w \in Window : w = gate.windows[p]
  BY GateTypes
<1>2. PICK now \in Nat : now = gate.now
  BY GateTypes
<1>3. PICK others : others = Recent(Alive(w, now).sends, now)
  OBVIOUS
<1>4. Sound(w, now)
  BY <1>1, <1>2, SendParts, WindowSound DEF Windows
<1>5. /\ Alive(w, now).pending <= now /\ \A t \in others : t.at + SendInterval <= now
      /\ w.expires > now => Alive(w, now) = w
  BY <1>1, <1>2, <1>3, <1>4, Allowed, AliveIsSound
<1>6. CodeCounts(s) /\ s.at \in Nat /\ WindowHolds(p) /\ s.by \in Requests
  BY SendParts, GateTypes DEF Codes, Windows
<1>7. \A t \in w.sends : t.at \in Nat /\ (w.expires > now /\ t.at > now - SendWindow => t \in others)
  BY <1>1, <1>3, <1>5, GateTypes DEF Recent
<1>8. s.at + SendInterval <= now
  <2> SUFFICES ASSUME s.at + SendInterval > now PROVE FALSE
    BY <1>2, <1>6, GateNumbers
  <2>1. /\ s.at + SendInterval <= w.expires
        /\ s.at + SendInterval <= w.pending \/ \E t \in w.sends : s.at <= t.at
    BY <1>1, <1>2, <1>6 DEF CodeCounts
  <2>2. w.expires > now /\ w.pending \in Nat /\ w.expires \in Nat
    BY <2>1, <1>6, GateNumbers DEF Window
  <2>3. ~ (s.at + SendInterval <= w.pending)
    BY <1>5, <1>6, <2>2, GateNumbers
  <2>4. PICK t \in w.sends : s.at <= t.at
    BY <2>1, <2>3
  <2>5. t \in others
    BY <1>6, <1>7, <2>2, <2>4, GateNumbers
  <2> QED  BY <1>5, <1>6, <1>7, <2>4, <2>5, GateNumbers
<1>9. ASSUME s.at + SendWindow > now, p \notin gate.broken
      PROVE  \E t \in others : t.by = s.by /\ s.at <= t.at
  <2>1. \A o \in Requests : InFlight(o) => sending[o].phone # p
    BY AllowedAlone
  <2>2. PICK t \in w.sends : t.by = s.by /\ (s.at <= t.at \/ InFlight(t.by))
    BY <1>1, <1>2, <1>6, <1>9 DEF CodeCounts
  <2>3. s.at <= t.at
    BY <1>6, <2>1, <2>2 DEF CodeCounts
  <2>4. t.at + SendWindow <= w.expires
    BY <1>1, <1>6, <1>9, <2>1 DEF WindowHolds
  <2>5. t \in others
    BY <1>6, <1>7, <1>9, <2>3, <2>4, GateNumbers DEF Window
  <2> QED  BY <2>2, <2>3, <2>5
<1> QED  BY <1>1, <1>2, <1>3, <1>8, <1>9

\* One request of a number is let in: it is in the window now, or has left it.
LEMMA LetIn ==
    ASSUME FormTypeOK, SendInv, mix.form, mix' = mix, NEW p \in Phones, NEW r \in Requests,
           Reserve(gate.windows[p], r, gate.now).allowed,
           request[r].pc = "locked", sending[r].phone = p,
           \A o \in Requests : o # r => request'[o] = request[o] /\ sending'[o] = sending[o],
           sending'[r].phone = p, sent' = sent,
           NEW w \in Window, Sound(w, gate.now),
           w.sends = Recent(Alive(gate.windows[p], gate.now).sends, gate.now)
                       \cup {[by |-> r, at |-> gate.now]},
           gate' = [gate EXCEPT !.windows[p] = w, !.last[p] = r],
           \/ /\ request'[r].pc = "reserved" /\ Sender(r)'
           \/ /\ request'[r].pc = "ended" /\ gate.now + SendWindow <= w.expires
    PROVE  SendInv'
<1> DEFINE others == Recent(Alive(gate.windows[p], gate.now).sends, gate.now)
           own == [by |-> r, at |-> gate.now]
<1>1. /\ gate.now \in Nat /\ gate'.now = gate.now /\ gate'.broken = gate.broken
      /\ gate'.late = gate.late /\ gate'.windows[p] = w /\ gate'.last[p] = r
      /\ \A q \in Phones : q # p => gate'.windows[q] = gate.windows[q] /\ gate'.last[q] = gate.last[q]
  <2>1. gate \in Gate /\ gate.now \in Nat
    BY GateTypes
  <2>2. gate' = [gate EXCEPT !.windows[p] = w, !.last[p] = r]
    OBVIOUS
  <2>3. p \in Phones /\ w \in Window /\ r \in Requests
    OBVIOUS
  <2> QED  BY ONLY <2>1, <2>2, <2>3, GateMoves
<1>2. /\ SendsAreLimited /\ Windows /\ Codes /\ LastAsked /\ Holders
  BY SendParts
<1>3. \A o \in Requests : InFlight(o) => o # r /\ (p \notin gate.late => sending[o].phone # p)
  BY AllowedAlone DEF InFlight
<1>4. /\ \A o \in Requests : Admitted(o) => o # r /\ Admitted(o)'
      /\ Admitted(r)'
      /\ \A o \in Requests : o # r => (InFlight(o)' <=> InFlight(o))
  BY DEF InFlight, Admitted
<1>5. others \subseteq gate.windows[p].sends
  BY <1>2, WindowSound, GateTypes, Allowed DEF Windows
<1>6. \A s \in others : s.by \in Requests /\ s.by # r /\ s.at \in Nat /\ s.at <= gate.now
                        /\ Admitted(s.by)
                        /\ \A t \in others : s.by = t.by => s = t
  BY <1>2, <1>4, <1>5, GateTypes DEF Windows, WindowHolds
<1>7. own.by = r /\ own.at = gate.now /\ w.sends = others \cup {own}
  OBVIOUS
<1> HIDE DEF others, own
<1>8. Windows'
  <2>1. WindowHolds(p)'
    <3>1. IsFiniteSet(w.sends) /\ Cardinality(w.sends) <= SendLimit
          /\ (w.pending > gate.now => w.pending = w.expires)
      BY DEF Sound, Fitting
    <3>2. \A s \in w.sends :
            /\ s.at <= gate.now /\ Admitted(s.by)'
            /\ \A t \in w.sends : s.by = t.by => s = t
      BY <1>1, <1>4, <1>6, <1>7
    <3>3. \/ InFlight(r)' /\ sending'[r].phone = p
          \/ \A s \in w.sends : s.at + SendWindow <= w.expires
      <4>1. CASE request'[r].pc = "reserved"
        BY <4>1 DEF InFlight
      <4>2. CASE request'[r].pc # "reserved"
        BY <1>1, <1>6, <1>7, <4>2, GateNumbers DEF Window
      <4> QED  BY <4>1, <4>2
    <3> QED  BY <1>1, <3>1, <3>2, <3>3 DEF WindowHolds
  <2>2. ASSUME NEW q \in Phones, q # p PROVE WindowHolds(q)'
    <3>1. \A o \in Requests : InFlight(o) /\ sending[o].phone = q =>
             InFlight(o)' /\ sending'[o].phone = q
      BY <1>3, <1>4
    <3> QED  BY <1>1, <1>2, <1>4, <2>2, <3>1, OtherWindow DEF Windows
  <2> QED  BY <2>1, <2>2 DEF Windows
<1>9. Codes'
  <2> SUFFICES ASSUME NEW s \in sent PROVE CodeCounts(s)'
    BY DEF Codes
  <2>1. /\ CodeCounts(s) /\ s.by \in Requests /\ s.phone \in Phones /\ s.by # r /\ s.at \in Nat
        /\ request'[s.by].pc \in {"issued", "ended"} /\ sending'[s.by] = sending[s.by]
        /\ \A t \in sent : s.by = t.by => s = t
        /\ InFlight(s.by)' <=> InFlight(s.by)
    BY <1>2, <1>4, GateTypes DEF Codes, CodeCounts
  <2>2. CASE s.phone # p
    BY <1>1, <2>1, <2>2, OtherCode
  <2>3. CASE s.phone = p
    <3>1. p \notin gate.late =>
            /\ s.at + SendInterval <= gate.now
            /\ s.at + SendWindow > gate.now /\ p \notin gate.broken =>
                  \E t \in others : t.by = s.by /\ s.at <= t.at
      BY <2>3, AllowedSpaced DEF others
    <3>2. s.at <= gate.now /\ sending'[s.by].phone = p
      BY <2>1, <2>3 DEF CodeCounts
    <3>3. ~ (s.at + SendInterval > gate.now /\ p \notin gate.late)
      BY <1>1, <2>1, <3>1, GateNumbers
    <3> QED  BY <1>1, <1>7, <2>1, <2>3, <3>1, <3>2, <3>3 DEF CodeCounts
  <2> QED  BY <2>2, <2>3
<1>10. LastAsked'
  <2> SUFFICES ASSUME NEW q \in Phones, gate'.last[q] # None
               PROVE  Admitted(gate.last[q])' /\ sending'[gate'.last[q]].phone = q
    BY DEF LastAsked
  <2>1. CASE q = p
    BY <1>1, <1>4, <2>1
  <2>2. CASE q # p
    <3>1. gate'.last[q] = gate.last[q] /\ gate.last[q] \in Requests
      BY <1>1, <2>2, GateTypes
    <3>2. Admitted(gate.last[q]) /\ sending[gate.last[q]].phone = q
      BY <1>2, <3>1 DEF LastAsked
    <3> QED  BY <1>4, <3>1, <3>2
  <2> QED  BY <2>1, <2>2
<1>11. Holders'
  <2>1. \A o \in Requests : PhoneKnown(o)'
    BY <1>2, <1>4 DEF Holders, PhoneKnown
  <2>2. ASSUME NEW o \in Requests, o # r, InFlight(o)' PROVE Sender(o)'
    <3>1. InFlight(o) /\ Sender(o) /\ sending[o].phone \in Phones
          /\ (sending[o].phone \notin gate.late => sending[o].phone # p /\ HoldsWindow(o))
      BY <1>2, <1>3, <1>4, <2>2 DEF Holders, Sender
    <3>2. sending[o].phone \notin gate.late =>
             \A x \in Requests : InFlight(x)' /\ sending'[x].phone = sending[o].phone => x = o
      BY <1>4, <3>1 DEF HoldsWindow
    <3> QED  BY <1>1, <2>2, <3>1, <3>2, OtherSender
  <2>3. InFlight(r)' => Sender(r)'
    BY DEF InFlight
  <2> QED  BY <2>1, <2>2, <2>3 DEF Holders
<1>12. SendsAreLimited'
  BY <1>1, <1>2 DEF SendsAreLimited
<1> QED  BY <1>8, <1>9, <1>10, <1>11, <1>12, SendFromParts

\* EnterWindow and AnswerAlike, as ReserveSend performs them.
LEMMA BeginKeeps ==
    ASSUME FormTypeOK, SendInv, mix.form, mix' = mix, NEW p \in Phones, NEW r \in Requests,
           Reserve(gate.windows[p], r, gate.now).allowed,
           request[r].pc = "locked", Sends(request[r].kind), sending[r].phone = p,
           \A o \in Requests : o # r => request'[o] = request[o] /\ sending'[o] = sending[o],
           request'[r].pc = "reserved", request'[r].kind = request[r].kind,
           sending'[r].phone = p, sending'[r].since = gate.now, sent' = sent,
           gate' = [gate EXCEPT !.windows[p] = Reserve(gate.windows[p], r, gate.now).window,
                                !.last[p] = r]
    PROVE  SendInv'
<1>1. PICK w : w = Reserve(gate.windows[p], r, gate.now).window
  OBVIOUS
<1>2. PICK others : others = Recent(Alive(gate.windows[p], gate.now).sends, gate.now)
  OBVIOUS
<1>3. PICK own : own = [by |-> r, at |-> gate.now]
  OBVIOUS
<1>4. gate.now \in Nat /\ Sound(gate.windows[p], gate.now) /\ gate \in Gate
  BY GateTypes, SendParts, WindowSound DEF Windows
<1>5. /\ others \subseteq gate.windows[p].sends
      /\ \A s \in others : s.at + SendInterval <= gate.now
      /\ w = [sends |-> others \cup {own}, pending |-> gate.now + PendingFence,
              expires |-> gate.now + PendingFence]
      /\ Sound(w, gate.now)
  BY <1>1, <1>2, <1>3, <1>4, Allowed
<1>6. w \in Window /\ w.sends = others \cup {own}
  BY <1>5 DEF Sound
<1>7. gate'.now = gate.now /\ gate'.windows[p] = w /\ gate'.late = gate.late
  BY <1>1, <1>4, <1>6, GateMoves
<1>8. ASSUME p \notin gate.late PROVE HoldsWindow(r)'
  <2>1. /\ gate.now + SendInterval <= gate.now + PendingFence
        /\ w.pending = gate.now + PendingFence /\ w.expires = gate.now + PendingFence
        /\ own \in w.sends
    BY <1>4, <1>5, GateNumbers
  <2>2. \A s \in w.sends \ {own} : s.by # r /\ s.at + SendInterval <= gate.now
    BY <1>5, <1>6, SendParts DEF Windows, WindowHolds, Admitted, InFlight
  <2>3. \A s \in sent : s.phone = p => s.by # r /\ s.at + SendInterval <= gate.now
    BY <1>8, AllowedSpaced, SendParts DEF Codes, CodeCounts
  <2>4. \A o \in Requests : InFlight(o)' /\ sending'[o].phone = p => o = r
    BY <1>8, AllowedAlone DEF InFlight
  <2>5. /\ sending'[r].phone = p /\ sending'[r].since = gate.now /\ sent' = sent
    BY <1>4
  <2> QED  BY ONLY <1>3, <1>7, <2>1, <2>2, <2>3, <2>4, <2>5, p \in Phones DEF HoldsWindow
<1>9. gate' = [gate EXCEPT !.windows[p] = w, !.last[p] = r]
  BY <1>1
<1>10. w.sends = Recent(Alive(gate.windows[p], gate.now).sends, gate.now)
                    \cup {[by |-> r, at |-> gate.now]}
  BY <1>2, <1>3, <1>6
<1>11. \/ /\ request'[r].pc = "reserved" /\ Sender(r)'
       \/ /\ request'[r].pc = "ended" /\ gate.now + SendWindow <= w.expires
  <2>1. \A s \in sent : s.by # r
    BY SendParts DEF Codes, CodeCounts
  <2>2. sending'[r].since <= gate'.now /\ Sends(request'[r].kind)
    BY <1>4, <1>7
  <2> QED  BY <1>7, <1>8, <2>1, <2>2 DEF Sender
<1>12. Sound(w, gate.now)
  BY <1>5
<1>13. w \in Window
  BY <1>6
<1> QED  BY <1>9, <1>10, <1>11, <1>12, <1>13, LetIn, ZenonT(60)

\* An answer that only looks like a send moves the window like one and sends nothing.
LEMMA AlikeKeeps ==
    ASSUME FormTypeOK, SendInv, mix.form, mix' = mix, NEW p \in Phones, NEW r \in Requests,
           NEW asked, asked = Reserve(gate.windows[p], r, gate.now), asked.allowed,
           NEW done, done = Finish(asked.window, r, gate.now),
           request[r].pc = "locked", sending[r].phone = p,
           \A o \in Requests : o # r => request'[o] = request[o],
           request'[r].pc = "ended", sending' = sending, sent' = sent,
           gate' = [gate EXCEPT !.windows[p] = done.window, !.last[p] = r]
    PROVE  /\ SendInv'
           /\ done.window \in Window /\ done.retryAt \in Nat /\ Opens(done.window, done.retryAt)
<1>1. PICK w : w = asked.window
  OBVIOUS
<1>2. PICK others : others = Recent(Alive(gate.windows[p], gate.now).sends, gate.now)
  OBVIOUS
<1>3. PICK own : own = [by |-> r, at |-> gate.now]
  OBVIOUS
<1>4. gate.now \in Nat /\ Sound(gate.windows[p], gate.now)
  BY GateTypes, SendParts, WindowSound DEF Windows
<1>5. /\ others \subseteq gate.windows[p].sends
      /\ \A s \in others : s.at + SendInterval <= gate.now
      /\ w = [sends |-> others \cup {own}, pending |-> gate.now + PendingFence,
              expires |-> gate.now + PendingFence]
      /\ Sound(w, gate.now)
  BY <1>1, <1>2, <1>3, <1>4, Allowed
<1>6. w.sends = others \cup {own} /\ w.expires > gate.now /\ own \in w.sends
      /\ own.by = r /\ own.at = gate.now
  BY <1>3, <1>4, <1>5, GateNumbers
<1>7. \A s \in w.sends \ {own} : s.by # own.by /\ s.at < own.at
  <2>1. \A s \in others : s.by # r /\ s.at \in Nat
    BY <1>5, GateTypes, SendParts DEF Windows, WindowHolds, Admitted, InFlight
  <2> QED  BY <1>4, <1>5, <1>6, <2>1, GateNumbers
<1>8. [own EXCEPT !.at = gate.now] = own
  BY <1>3
<1>9. (w.sends \ {own}) \cup {[own EXCEPT !.at = gate.now]} = others \cup {own}
  BY <1>6, <1>8
<1>10. /\ done.retryAt \in Nat /\ Opens(done.window, done.retryAt)
       /\ done.window = [sends |-> others \cup {own}, pending |-> 0,
                         expires |-> gate.now + SendWindow]
       /\ Sound(done.window, gate.now)
  BY <1>1, <1>4, <1>5, <1>6, <1>7, <1>9, Finished
<1>11. /\ done.window \in Window /\ done.window.sends = others \cup {own}
       /\ gate.now + SendWindow <= done.window.expires
  BY <1>4, <1>10, GateNumbers DEF Sound
<1>12. SendInv'
  BY <1>2, <1>3, <1>10, <1>11, LetIn
<1> QED  BY <1>10, <1>11, <1>12

\* While somebody sends, the fence is up.
LEMMA HoldersKeepOut ==
    ASSUME FormTypeOK, NEW o \in Requests, HoldsWindow(o)
    PROVE  /\ gate.windows[sending[o].phone].pending > gate.now
           /\ gate.windows[sending[o].phone].expires > gate.now
BY GateTypes, GateNumbers DEF HoldsWindow

\* Who is turned away leaves what counts in the window.
LEMMA RefusalKeeps ==
    ASSUME FormTypeOK, SendInv, mix.form, mix' = mix, NEW p \in Phones, NEW r \in Requests,
           NEW asked, asked = Reserve(gate.windows[p], r, gate.now), ~ asked.allowed,
           request[r].pc = "locked", sending[r].phone = p,
           \A o \in Requests : o # r => request'[o] = request[o],
           request'[r].pc = "ended", sending' = sending, sent' = sent,
           gate' = [gate EXCEPT !.windows[p] = asked.window, !.last[p] = r]
    PROVE  /\ SendInv'
           /\ asked.window \in Window /\ asked.retryAt \in Nat /\ Opens(asked.window, asked.retryAt)
<1>1. PICK old \in Window : old = gate.windows[p]
  BY GateTypes
<1>2. PICK now \in Nat : now = gate.now
  BY GateTypes
<1>3. PICK w : w = asked.window
  OBVIOUS
<1>4. SendsAreLimited /\ Windows /\ Codes /\ LastAsked /\ Holders /\ Sound(old, now)
  BY <1>1, <1>2, SendParts, WindowSound DEF Windows
<1>5. /\ asked.retryAt \in Nat /\ Opens(w, asked.retryAt) /\ Sound(w, now) /\ w.sends \subseteq old.sends
      /\ old.expires > now => w.expires = old.expires
      /\ old.expires <= now => w.sends = {}
      /\ old.pending > now => w = old
      /\ old.expires > now => \A s \in old.sends : s.at > now - SendWindow => s \in w.sends
  BY <1>1, <1>2, <1>3, <1>4, Refused
<1>6. w \in Window /\ gate \in Gate
  BY <1>5, GateTypes DEF Sound
<1>7. /\ gate'.now = now /\ gate'.broken = gate.broken /\ gate'.late = gate.late
      /\ gate'.windows[p] = w /\ gate'.last[p] = r
      /\ \A q \in Phones : q # p => gate'.windows[q] = gate.windows[q] /\ gate'.last[q] = gate.last[q]
  <2>1. gate' = [gate EXCEPT !.windows[p] = w, !.last[p] = r]
    BY <1>3
  <2>2. p \in Phones /\ r \in Requests
    OBVIOUS
  <2> QED  BY ONLY <1>2, <1>6, <2>1, <2>2, GateMoves
<1>8. old.pending \in Nat /\ old.expires \in Nat /\ \A s \in old.sends : s.at \in Nat /\ s.by \in Requests
  BY <1>1, GateTypes DEF Window
<1>9. /\ \A o \in Requests : Admitted(o) => o # r /\ Admitted(o)'
      /\ Admitted(r)'
      /\ \A o \in Requests : request[o].pc \in {"issued", "ended"} => request'[o] = request[o]
      /\ \A o \in Requests : InFlight(o)' <=> InFlight(o)
      /\ \A o \in Requests : InFlight(o) => o # r /\ request'[o] = request[o]
  BY DEF InFlight, Admitted
<1>10. \A o \in Requests : InFlight(o) /\ sending[o].phone = p /\ p \notin gate.late => old.pending > now
  BY <1>1, <1>2, <1>4, HoldersKeepOut DEF Holders, Sender
<1>11. Windows'
  <2>1. WindowHolds(p)'
    <3>1. IsFiniteSet(w.sends) /\ Cardinality(w.sends) <= SendLimit
          /\ (w.pending > now => w.pending = w.expires)
      BY <1>5 DEF Sound, Fitting
    <3>2. WindowHolds(p)
      BY <1>4 DEF Windows
    <3>3. \A s \in w.sends :
            /\ s.at <= now /\ Admitted(s.by)'
            /\ \A t \in w.sends : s.by = t.by => s = t
      BY <1>1, <1>2, <1>5, <1>8, <1>9, <3>2 DEF WindowHolds
    <3>4. p \notin gate.broken \cup gate.late =>
            \/ \E o \in Requests : InFlight(o)' /\ sending'[o].phone = p
            \/ \A s \in w.sends : s.at + SendWindow <= w.expires
      <4>1. p \notin gate.broken \cup gate.late =>
               \/ \E o \in Requests : InFlight(o) /\ sending[o].phone = p
               \/ \A s \in old.sends : s.at + SendWindow <= old.expires
        BY <1>1, <3>2 DEF WindowHolds
      <4>2. (\A s \in old.sends : s.at + SendWindow <= old.expires) =>
               \A s \in w.sends : s.at + SendWindow <= w.expires
        BY <1>5, <1>8
      <4> QED  BY <1>9, <4>1, <4>2
    <3> QED  BY <1>7, <3>1, <3>3, <3>4 DEF WindowHolds
  <2>2. ASSUME NEW q \in Phones, q # p PROVE WindowHolds(q)'
    BY <1>2, <1>4, <1>7, <1>9, <2>2, OtherWindow DEF Windows
  <2> QED  BY <2>1, <2>2 DEF Windows
<1>12. Codes'
  <2> SUFFICES ASSUME NEW s \in sent PROVE CodeCounts(s)'
    BY DEF Codes
  <2>1. /\ CodeCounts(s) /\ s.by \in Requests /\ s.phone \in Phones /\ s.at \in Nat
        /\ request'[s.by].pc \in {"issued", "ended"} /\ sending'[s.by].phone = sending[s.by].phone
        /\ \A t \in sent' : s.by = t.by => s = t
        /\ InFlight(s.by) => InFlight(s.by)'
    BY <1>4, <1>9, GateTypes DEF Codes, CodeCounts
  <2>2. CASE gate'.windows[s.phone] = gate.windows[s.phone]
    BY <1>2, <1>7, <2>1, <2>2, OtherCode
  <2>3. CASE s.phone = p /\ ~ (old.pending > now)
    <3>1. /\ s.at <= now /\ sending'[s.by].phone = p
          /\ s.at + SendInterval > now /\ p \notin gate.late =>
                /\ s.at + SendInterval <= old.expires
                /\ s.at + SendInterval <= old.pending \/ \E t \in old.sends : s.at <= t.at
          /\ s.at + SendWindow > now /\ p \notin gate.broken \cup gate.late =>
                \E t \in old.sends : t.by = s.by /\ (s.at <= t.at \/ InFlight(t.by))
      BY <1>1, <1>2, <2>1, <2>3 DEF CodeCounts
    <3>2. ASSUME s.at + SendInterval > now, p \notin gate.late
          PROVE  s.at + SendInterval <= w.expires /\ \E t \in w.sends : s.at <= t.at
      <4>1. old.expires > now /\ ~ (s.at + SendInterval <= old.pending)
        BY <1>8, <2>1, <2>3, <3>1, <3>2, GateNumbers
      <4>2. PICK t \in old.sends : s.at <= t.at
        BY <3>1, <3>2, <4>1
      <4>3. t.at > now - SendWindow
        BY <1>8, <2>1, <3>2, <4>2, GateNumbers
      <4> QED  BY <1>5, <3>1, <3>2, <4>1, <4>2, <4>3
    <3>3. ASSUME s.at + SendWindow > now, p \notin gate.broken \cup gate.late
          PROVE  \E t \in w.sends : t.by = s.by /\ s.at <= t.at
      <4>1. \A o \in Requests : InFlight(o) => sending[o].phone # p
        BY <1>10, <2>3, <3>3
      <4>2. PICK t \in old.sends : t.by = s.by /\ (s.at <= t.at \/ InFlight(t.by))
        BY <3>1, <3>3
      <4>3. s.at <= t.at
        BY <2>1, <2>3, <4>1, <4>2 DEF CodeCounts
      <4>4. t.at + SendWindow <= old.expires
        BY <1>1, <1>4, <3>3, <4>1 DEF Windows, WindowHolds
      <4>5. t.at > now - SendWindow /\ old.expires > now
        BY <1>8, <2>1, <3>3, <4>3, <4>4, GateNumbers
      <4> QED  BY <1>5, <4>2, <4>3, <4>5
    <3> QED  BY <1>7, <2>1, <2>3, <3>1, <3>2, <3>3 DEF CodeCounts
  <2> QED  BY <1>1, <1>5, <1>7, <2>1, <2>2, <2>3
<1>13. LastAsked'
  <2> SUFFICES ASSUME NEW q \in Phones, gate'.last[q] # None
               PROVE  Admitted(gate.last[q])' /\ sending'[gate'.last[q]].phone = q
    BY DEF LastAsked
  <2>1. CASE q = p
    BY <1>7, <1>9, <2>1
  <2>2. CASE q # p
    BY <1>4, <1>7, <1>9, <2>2, GateTypes DEF LastAsked
  <2> QED  BY <2>1, <2>2
<1>14. Holders'
  <2>1. \A o \in Requests : PhoneKnown(o)'
    BY <1>4, <1>9 DEF Holders, PhoneKnown
  <2>2. ASSUME NEW o \in Requests, InFlight(o)' PROVE Sender(o)'
    <3>1. InFlight(o) /\ Sender(o) /\ sending[o].phone \in Phones /\ request'[o] = request[o]
          /\ (sending[o].phone \notin gate.late => HoldsWindow(o))
      BY <1>4, <1>9, <2>2 DEF Holders, Sender
    <3>2. sending[o].phone \notin gate.late =>
             \A x \in Requests : InFlight(x)' /\ sending'[x].phone = sending[o].phone => x = o
      BY <1>9, <3>1 DEF HoldsWindow
    <3>3. sending[o].phone \notin gate.late =>
             gate'.windows[sending[o].phone] = gate.windows[sending[o].phone]
      BY <1>1, <1>5, <1>7, <1>10, <3>1
    <3> QED  BY <1>2, <1>7, <3>1, <3>2, <3>3, OtherSender
  <2> QED  BY <2>1, <2>2 DEF Holders
<1>15. SendsAreLimited'
  BY <1>4, <1>7 DEF SendsAreLimited
<1> QED  BY <1>3, <1>5, <1>6, <1>11, <1>12, <1>13, <1>14, <1>15, SendFromParts

\* Every code that still counts has its place in the window, and so has the one that
\* is about to be sent.
LEMMA RoomForCode ==
    ASSUME FormTypeOK, SendInv, NEW r \in Requests, Sender(r), request[r].pc = "issuing",
           NEW p \in Phones, p = sending[r].phone, p \notin gate.broken \cup gate.late
    PROVE  LET counted == {t \in sent : t.phone = p /\ t.at > gate.now - SendWindow} IN
           IsFiniteSet(counted) /\ Cardinality(counted) \in Nat /\ Cardinality(counted) < SendLimit
<1> DEFINE counted == {t \in sent : t.phone = p /\ t.at > gate.now - SendWindow}
           own == [by |-> r, at |-> sending[r].since]
           sends == gate.windows[p].sends
           place == [t \in counted |-> CHOOSE m \in sends : m.by = t.by]
<1>1. IsFiniteSet(sends) /\ Cardinality(sends) <= SendLimit /\ own \in sends
  BY SendParts DEF Windows, WindowHolds, Sender, HoldsWindow
<1>2. IsFiniteSet(sends \ {own}) /\ Cardinality(sends \ {own}) = Cardinality(sends) - 1
      /\ Cardinality(sends) \in Nat
  BY <1>1, FS_RemoveElement, FS_CardinalityType
<1>3. ASSUME NEW t \in counted
      PROVE  place[t] \in sends \ {own} /\ place[t].by = t.by
  <2>1. CodeCounts(t) /\ t \in sent /\ t.phone = p /\ t.at \in Nat
    BY SendParts, GateTypes DEF Codes
  <2>2. t.at + SendWindow > gate.now
    BY <2>1, GateTypes, GateNumbers
  <2>3. \E m \in sends : m.by = t.by
    BY <2>1, <2>2 DEF CodeCounts
  <2>4. place[t] \in sends /\ place[t].by = t.by
    BY <2>3
  <2>5. t.by # r
    BY <2>1 DEF Sender
  <2> QED  BY <2>4, <2>5
<1>4. \A s, t \in counted : s.by = t.by => s = t
  BY SendParts DEF Codes, CodeCounts
<1>5. place \in Injection(counted, sends \ {own})
  <2>1. place \in [counted -> sends \ {own}]
    BY <1>3
  <2>2. \A s, t \in counted : place[s] = place[t] => s = t
    BY <1>3, <1>4
  <2> HIDE DEF place, counted, sends, own
  <2> QED  BY <2>1, <2>2 DEF Injection, IsInjective
<1> HIDE DEF place, counted, sends, own
<1>6. IsFiniteSet(counted) /\ Cardinality(counted) <= Cardinality(sends \ {own})
  BY <1>2, <1>5, FS_Injection
<1>7. Cardinality(counted) \in Nat
  BY <1>6, FS_CardinalityType
<1>8. Cardinality(counted) < SendLimit
  BY <1>1, <1>2, <1>6, <1>7, GateNumbers
<1> QED  BY <1>6, <1>7, <1>8 DEF counted

\* What the window of its number promises a request that is sending ...
LEMMA CodeSpaced ==
    ASSUME FormTypeOK, SendInv, NEW r \in Requests, Sender(r), request[r].pc = "issuing",
           sent' = sent \cup {[by |-> r, phone |-> sending[r].phone, at |-> gate.now]},
           gate'.broken = gate.broken \/ gate'.broken = gate.broken \cup {sending[r].phone},
           gate'.now = gate.now, gate'.late = gate.late
    PROVE  SendsAreLimited'
<1>1. PICK p \in Phones : p = sending[r].phone
  BY DEF Sender
<1>2. PICK new : new = [by |-> r, phone |-> p, at |-> gate.now]
  OBVIOUS
<1>3. sent' = sent \cup {new} /\ new.phone = p /\ new.at = gate.now /\ new.by = r
  BY <1>1, <1>2
<1>4. gate.now \in Nat /\ sending[r].since \in Nat /\ sending[r].since <= gate.now
      /\ \A s \in sent : s.at \in Nat
  BY GateTypes DEF Sender
<1>5. ASSUME NEW s \in sent, s.phone = p, p \notin gate.late
      PROVE  s.by # r /\ gate.now - s.at >= SendInterval /\ ~ (gate.now <= s.at) /\ s # new
  <2>1. s.by # r /\ s.at + SendInterval <= sending[r].since
    BY <1>1, <1>5 DEF Sender, HoldsWindow
  <2> QED  BY <1>3, <1>4, <2>1, GateNumbers
<1>6. SendsAreLimited
  BY SendParts
<1> DEFINE Earlier(s, all) == {t \in all \ {s} : t.phone = s.phone /\ t.at <= s.at}
           Limited(s, all, broken) ==
             /\ \A t \in Earlier(s, all) : s.at - t.at >= SendInterval
             /\ s.phone \notin broken =>
                  Cardinality({t \in Earlier(s, all) : t.at > s.at - SendWindow}) < SendLimit
<1>7. ASSUME p \notin gate.late PROVE Limited(new, sent', gate'.broken)
  <2>1. Earlier(new, sent') \subseteq {t \in sent : t.phone = p}
    BY <1>3
  <2>2. \A t \in Earlier(new, sent') : new.at - t.at >= SendInterval
    BY <1>3, <1>5, <1>7, <2>1
  <2>3. ASSUME p \notin gate'.broken
        PROVE  Cardinality({t \in Earlier(new, sent') : t.at > new.at - SendWindow}) < SendLimit
    <3> DEFINE counted == {t \in sent : t.phone = p /\ t.at > gate.now - SendWindow}
               some == {t \in Earlier(new, sent') : t.at > new.at - SendWindow}
    <3>1. IsFiniteSet(counted) /\ Cardinality(counted) \in Nat /\ Cardinality(counted) < SendLimit
      BY <1>1, <1>7, <2>3, RoomForCode
    <3>2. some \in SUBSET counted
      BY <1>3, <2>1
    <3> HIDE DEF counted, some
    <3>3. IsFiniteSet(some) /\ Cardinality(some) <= Cardinality(counted)
      BY <3>1, <3>2, FS_Subset
    <3>4. Cardinality(some) \in Nat
      BY <3>3, FS_CardinalityType
    <3>5. Cardinality(some) < SendLimit
      BY <3>1, <3>3, <3>4, GateNumbers
    <3> QED  BY <3>5 DEF some
  <2> QED  BY <1>3, <2>2, <2>3
<1>8. ASSUME NEW s \in sent, s.phone \notin gate.late PROVE Limited(s, sent', gate'.broken)
  <2>1. Earlier(s, sent') = Earlier(s, sent)
    BY <1>3, <1>5, <1>8
  <2>2. Limited(s, sent, gate.broken)
    BY <1>6, <1>8 DEF SendsAreLimited
  <2>3. s.phone \notin gate'.broken => s.phone \notin gate.broken
    OBVIOUS
  <2> HIDE DEF Earlier
  <2> QED  BY <2>1, <2>2, <2>3
<1>9. \A s \in sent' : s.phone \notin gate'.late => Limited(s, sent', gate'.broken)
  BY <1>3, <1>7, <1>8
<1> QED  BY <1>9 DEF SendsAreLimited

\* A request that was sending has sent its code or ends, which breaks the window.
LEMMA SendingKeeps ==
    ASSUME FormTypeOK, SendInv, mix.form, mix' = mix, NEW r \in Requests, InFlight(r),
           gate'.windows = gate.windows, gate'.last = gate.last, gate'.now = gate.now,
           gate'.late = gate.late, sending' = sending,
           \A o \in Requests : o # r => request'[o] = request[o],
           \/ /\ request[r].pc = "issuing" /\ request'[r].pc = "issued"
              /\ request'[r].kind = request[r].kind
              /\ gate'.broken = gate.broken /\ sent' = CodeSent(r)
           \/ /\ request'[r].pc = "ended" /\ gate'.broken = gate.broken \cup {sending[r].phone}
              /\ sent' = sent \/ (request[r].pc = "issuing" /\ sent' = CodeSent(r))
    PROVE  SendInv'
<1>1. SendsAreLimited /\ Windows /\ Codes /\ LastAsked /\ Holders /\ Sender(r)
  BY SendParts DEF Holders
<1>2. PICK p \in Phones : p = sending[r].phone
  BY <1>1 DEF Sender
<1>3. PICK since \in Nat : since = sending[r].since
  BY GateTypes
<1>4. PICK new : new = [by |-> r, phone |-> p, at |-> gate.now]
  OBVIOUS
<1>5. PICK w \in Window : w = gate.windows[p]
  BY GateTypes
<1>6. /\ new.by = r /\ new.phone = p /\ new.at = gate.now
      /\ CodeSent(r) = sent \cup {new}
  BY <1>2, <1>4 DEF CodeSent
<1>7. /\ gate.now \in Nat /\ since <= gate.now
      /\ p \notin gate.late =>
            /\ HoldsWindow(r) /\ gate.now + SendInterval <= since + PendingFence
            /\ w.pending = since + PendingFence /\ w.expires = since + PendingFence
            /\ [by |-> r, at |-> since] \in w.sends
            /\ \A o \in Requests : InFlight(o) /\ sending[o].phone = p => o = r
  BY <1>1, <1>2, <1>3, <1>5, GateTypes DEF Sender, HoldsWindow
<1>8. /\ sent' \in {sent, sent \cup {new}} /\ sent \subseteq sent'
      /\ sent' # sent => request[r].pc = "issuing"
      /\ request'[r].pc \in {"issued", "ended"}
      /\ request'[r].pc = "issued" => request[r].pc = "issuing" /\ gate'.broken = gate.broken
                                      /\ request'[r].kind = request[r].kind
      /\ request'[r].pc = "ended" => gate'.broken = gate.broken \cup {p}
      /\ \A q \in Phones : q # p => (q \in gate'.broken <=> q \in gate.broken)
      /\ gate.broken \subseteq gate'.broken
  BY <1>2, <1>6
<1>9. \A o \in Requests : Admitted(o) => Admitted(o)'
  BY <1>8 DEF Admitted, InFlight
<1>10. /\ \A o \in Requests : o # r => (InFlight(o)' <=> InFlight(o))
       /\ InFlight(r)' <=> request'[r].pc = "issued"
  BY <1>8 DEF InFlight
<1>11. \A s \in sent : s.by = r => request[r].pc = "issued"
  BY <1>1 DEF Sender
<1>12. \A s \in sent : s.by = r => s.phone = p
  BY <1>1, <1>2 DEF Codes, CodeCounts
<1>13. sent' # sent => \A s \in sent : s.by # r
  BY <1>8, <1>11, <1>12
<1>14. Windows'
  <2> SUFFICES ASSUME NEW q \in Phones PROVE WindowHolds(q)'
    BY DEF Windows
  <2>1. \A o \in Requests : InFlight(o) /\ sending[o].phone = q =>
           q \in gate'.broken \/ (InFlight(o)' /\ sending'[o].phone = q)
    BY <1>2, <1>8, <1>10
  <2> QED  BY <1>1, <1>8, <1>9, <2>1, OtherWindow DEF Windows
<1>15. Codes'
  <2> SUFFICES ASSUME NEW s \in sent' PROVE CodeCounts(s)'
    BY DEF Codes
  <2>1. CASE s \in sent
    <3>1. /\ CodeCounts(s) /\ s.by \in Requests /\ s.phone \in Phones
          /\ request'[s.by].pc \in {"issued", "ended"}
          /\ \A t \in sent : s.by = t.by => s = t
      BY <1>1, <1>8, <2>1, GateTypes DEF Codes, CodeCounts
    <3>2. \A t \in sent' : s.by = t.by => s = t
      BY <1>6, <1>8, <1>13, <2>1, <3>1
    <3>3. InFlight(s.by) => InFlight(s.by)' \/ s.phone \in gate'.broken
      BY <1>8, <1>10, <1>12, <2>1, <3>1
    <3> QED  BY <1>8, <2>1, <3>1, <3>2, <3>3, OtherCode
  <2>2. CASE s \notin sent
    <3>1. s = new /\ sent' = sent \cup {new} /\ request[r].pc = "issuing"
      BY <1>8, <2>2
    <3>2. \A t \in sent' : s.by = t.by => s = t
      BY <1>6, <1>13, <2>2, <3>1
    <3>3. p \notin gate.late =>
             gate.now + SendInterval <= w.expires /\ gate.now + SendInterval <= w.pending
      BY <1>3, <1>7, GateNumbers
    <3>4. p \notin gate'.broken => InFlight(r)'
      BY <1>8, <1>10
    <3>6. p \notin gate.late =>
             \E x \in w.sends : x.by = r /\ (p \notin gate'.broken => InFlight(x.by)')
      BY <1>7, <3>4
    <3>7. gate'.windows[p] = w /\ sending'[r].phone = p
      BY <1>2, <1>5
    <3> QED  BY <1>6, <1>7, <1>8, <3>1, <3>2, <3>3, <3>6, <3>7 DEF CodeCounts
  <2> QED  BY <2>1, <2>2
<1>16. LastAsked'
  BY <1>1, <1>9, GateTypes DEF LastAsked
<1>17. Holders'
  <2>1. \A o \in Requests : PhoneKnown(o)'
    BY <1>1, <1>8 DEF Holders, PhoneKnown
  <2>2. ASSUME NEW o \in Requests, o # r, InFlight(o)' PROVE Sender(o)'
    <3>1. InFlight(o) /\ Sender(o) /\ sending[o].phone \in Phones /\ request'[o] = request[o]
          /\ (sending[o].phone \notin gate.late => HoldsWindow(o))
      BY <1>1, <1>10, <2>2 DEF Holders, Sender
    <3>2. sending[o].phone \notin gate.late => sending[o].phone # p
      BY <1>7, <2>2, <3>1
    <3>3. sending[o].phone \notin gate.late =>
             \A x \in Requests : InFlight(x)' /\ sending'[x].phone = sending[o].phone => x = o
      BY <1>2, <1>10, <3>1, <3>2 DEF HoldsWindow
    <3>4. \A s \in sent' : s.by = o \/ (s.phone = sending[o].phone /\ s.phone \notin gate.late) =>
             s \in sent
      BY <1>6, <1>8, <2>2, <3>2
    <3> QED  BY <3>1, <3>3, <3>4, OtherSender
  <2>3. ASSUME InFlight(r)' PROVE Sender(r)'
    <3>1. request'[r].pc = "issued" /\ Sends(request'[r].kind)
      BY <1>1, <1>8, <1>10, <2>3 DEF Sender
    <3>2. p \notin gate.late =>
             \A s \in sent' : s.phone = p =>
                IF s.by = r THEN since <= s.at ELSE s.at + SendInterval <= since
      BY <1>1, <1>2, <1>3, <1>6, <1>7, <1>8 DEF HoldsWindow
    <3>3. p \notin gate.late => \A o \in Requests : InFlight(o)' /\ sending'[o].phone = p => o = r
      BY <1>7, <1>10
    <3>4. p \notin gate.late =>
             \A s \in w.sends \ {[by |-> r, at |-> since]} : s.by # r /\ s.at + SendInterval <= since
      BY <1>2, <1>3, <1>5, <1>7 DEF HoldsWindow
    <3>5. gate'.windows[p] = w /\ sending'[r].phone = p /\ sending'[r].since = since
          /\ gate'.now = gate.now
      BY <1>2, <1>3, <1>5
    <3>6. p \notin gate.late => HoldsWindow(r)'
      BY ONLY <1>7, <3>2, <3>3, <3>4, <3>5 DEF HoldsWindow
    <3> QED  BY <1>7, <3>1, <3>5, <3>6 DEF Sender
  <2> QED  BY <2>1, <2>2, <2>3 DEF Holders
<1>18. SendsAreLimited'
  <2>1. CASE sent' = sent
    BY <1>1, <1>8, <2>1 DEF SendsAreLimited
  <2>2. CASE sent' # sent
    <3>1. /\ request[r].pc = "issuing"
          /\ sent' = sent \cup {[by |-> r, phone |-> sending[r].phone, at |-> gate.now]}
          /\ (gate'.broken = gate.broken \/ gate'.broken = gate.broken \cup {sending[r].phone})
      BY <1>2, <1>4, <1>8, <2>2
    <3>2. Sender(r) /\ gate'.now = gate.now /\ gate'.late = gate.late
      BY <1>1
    <3> QED  BY ONLY FormTypeOK, SendInv, r \in Requests, <3>1, <3>2, CodeSpaced, ZenonT(60)
  <2> QED  BY <2>1, <2>2
<1> QED  BY <1>14, <1>15, <1>16, <1>17, <1>18, SendFromParts

\* finishSend: the send moves to the end of the time its code took.
LEMMA FinishKeeps ==
    ASSUME FormTypeOK, SendInv, mix.form, mix' = mix, NEW r \in Requests,
           request[r].pc = "issued", NEW p, p = sending[r].phone,
           NEW done, done = Finish(gate.windows[p], r, gate.now),
           \A o \in Requests : o # r => request'[o] = request[o],
           request'[r].pc = "ended", sending' = sending, sent' = sent,
           gate' = [gate EXCEPT !.windows[p] = done.window, !.last[p] = r]
    PROVE  /\ SendInv' /\ p \in Phones
           /\ done.window \in Window /\ done.retryAt \in Nat /\ Opens(done.window, done.retryAt)
<1>1. SendsAreLimited /\ Windows /\ Codes /\ LastAsked /\ Holders /\ Sender(r) /\ p \in Phones
  BY SendParts DEF Holders, InFlight, Sender
<1>2. PICK now \in Nat : now = gate.now
  BY GateTypes
<1>3. PICK w \in Window : w = gate.windows[p]
  BY <1>1, GateTypes
<1>4. PICK v : v = done.window
  OBVIOUS
<1>5. \A s \in w.sends : s.at \in Nat /\ s.by \in Requests
  BY <1>1, <1>3, GateTypes
<1>6. Sound(w, now)
  BY <1>1, <1>2, <1>3, WindowSound DEF Windows
<1>7. /\ done.retryAt \in Nat /\ Opens(v, done.retryAt) /\ Sound(v, now)
      /\ v.pending = 0 /\ v.expires = now + SendWindow
      /\ Refreshed(w.sends, v.sends, r, now)
  <2>1. done = Finish(w, r, now) /\ v = done.window /\ r \in Requests /\ now \in Nat
    BY <1>2, <1>3, <1>4
  <2> QED  BY ONLY <1>6, <2>1, FinishedAnyhow
<1>8. v \in Window
  BY <1>7 DEF Sound
<1>9. ASSUME p \notin gate.late
      PROVE  /\ \A o \in Requests : InFlight(o) /\ sending[o].phone = p => o = r
             /\ \E t \in v.sends : t.by = r /\ t.at = now
             /\ \A s \in w.sends : s.by # r => s \in v.sends
             /\ \A s \in sent : s.phone = p => s.at <= now
  <2>1. PICK since \in Nat : since = sending[r].since
    BY GateTypes
  <2>2. PICK own : own = [by |-> r, at |-> since]
    OBVIOUS
  <2>3. /\ own \in w.sends /\ since <= now /\ w.expires > now
        /\ \A s \in w.sends \ {own} : s.by # r /\ s.at + SendInterval <= since
        /\ \A o \in Requests : InFlight(o) /\ sending[o].phone = p => o = r
    <3>1. HoldsWindow(r) /\ since <= now
      BY <1>1, <1>2, <1>9, <2>1 DEF Sender
    <3>2. now + SendInterval <= since + PendingFence /\ w.expires = since + PendingFence
          /\ w.expires \in Nat
      BY <1>2, <1>3, <2>1, <3>1 DEF HoldsWindow, Window
    <3> QED  BY <1>2, <1>3, <2>1, <2>2, <3>1, <3>2, GateNumbers DEF HoldsWindow
  <2>4. own.by = r /\ own.at = since /\ \A s \in w.sends \ {own} : s.by # own.by /\ s.at < own.at
    <3>1. own.by = r /\ own.at = since
      BY <2>2
    <3> QED  BY <1>5, <2>1, <2>3, <3>1, GateNumbers
  <2>5. PICK later : later = [own EXCEPT !.at = now]
    OBVIOUS
  <2>6. v = [sends |-> (w.sends \ {own}) \cup {later}, pending |-> 0, expires |-> now + SendWindow]
    BY <1>2, <1>3, <1>4, <1>6, <2>3, <2>4, <2>5, Finished
  <2>7. v.sends = (w.sends \ {own}) \cup {later}
    BY <2>6
  <2>8. later.by = r /\ later.at = now
    BY <2>2, <2>5
  <2>9. \A s \in sent : s.at <= now
    BY <1>1, <1>2 DEF Codes, CodeCounts
  <2>10. \A s \in w.sends : s.by # r => s \in v.sends
    BY <2>4, <2>7
  <2> QED  BY <2>3, <2>7, <2>8, <2>9, <2>10
<1>13. /\ gate'.now = now /\ gate'.broken = gate.broken /\ gate'.late = gate.late
       /\ gate'.windows[p] = v /\ gate'.last[p] = r
       /\ \A q \in Phones : q # p => gate'.windows[q] = gate.windows[q] /\ gate'.last[q] = gate.last[q]
  <2>1. gate' = [gate EXCEPT !.windows[p] = v, !.last[p] = r] /\ gate \in Gate
    BY <1>4, GateTypes
  <2>2. r \in Requests /\ p \in Phones /\ v \in Window
    BY <1>1, <1>8
  <2> QED  BY ONLY <1>2, <2>1, <2>2, GateMoves
<1>14. /\ \A o \in Requests : Admitted(o) => Admitted(o)'
       /\ Admitted(r)' /\ InFlight(r) /\ ~ InFlight(r)'
       /\ \A o \in Requests : o # r => (InFlight(o)' <=> InFlight(o))
  BY DEF InFlight, Admitted
<1>15. Windows'
  <2>1. WindowHolds(p)'
    <3>1. IsFiniteSet(v.sends) /\ Cardinality(v.sends) <= SendLimit /\ \A s \in v.sends : s.at <= now
      BY <1>7 DEF Sound, Fitting
    <3>2. ~ (v.pending > now)
      BY <1>2, <1>7
    <3>3. \A s \in v.sends :
            /\ s.at <= now /\ Admitted(s.by)'
            /\ \A t \in v.sends : s.by = t.by => s = t
      <4>1. CASE v.sends = {[by |-> r, at |-> now]}
        BY <1>14, <3>1, <4>1
      <4>2. CASE v.sends # {[by |-> r, at |-> now]}
        <5>1. PICK own \in w.sends : \E others \in SUBSET (w.sends \ {own}) :
                 v.sends = others \cup {[own EXCEPT !.at = now]}
          BY <1>7, <4>2 DEF Refreshed
        <5>2. PICK others \in SUBSET (w.sends \ {own}) : v.sends = others \cup {[own EXCEPT !.at = now]}
          BY <5>1
        <5>3. PICK later : later = [own EXCEPT !.at = now]
          OBVIOUS
        <5>4. later.by = own.by
          <6>1. own \in Send
            BY <1>3 DEF Window
          <6> QED  BY <5>3, <6>1 DEF Send
        <5>5. \A s \in w.sends : Admitted(s.by) /\ s.by \in Requests
                 /\ \A t \in w.sends : s.by = t.by => s = t
          BY <1>1, <1>3, <1>5 DEF Windows, WindowHolds
        <5> QED  BY <1>14, <3>1, <5>2, <5>3, <5>4, <5>5, ZenonT(60)
      <4> QED  BY <4>1, <4>2
    <3>4. \A s \in v.sends : s.at + SendWindow <= v.expires
      <4>1. \A s \in v.sends : s.at \in Nat
        BY <1>8 DEF Window, Send
      <4> QED  BY <1>2, <1>7, <3>1, <4>1, GateNumbers
    <3> QED  BY <1>13, <3>1, <3>2, <3>3, <3>4 DEF WindowHolds
  <2>2. ASSUME NEW q \in Phones, q # p PROVE WindowHolds(q)'
    <3>1. \A o \in Requests : InFlight(o) /\ sending[o].phone = q =>
             InFlight(o)' /\ sending'[o].phone = q
      BY <1>14, <2>2
    <3> QED  BY <1>1, <1>2, <1>13, <1>14, <2>2, <3>1, OtherWindow DEF Windows
  <2> QED  BY <2>1, <2>2 DEF Windows
<1>16. Codes'
  <2> SUFFICES ASSUME NEW s \in sent PROVE CodeCounts(s)'
    BY DEF Codes
  <2>1. /\ CodeCounts(s) /\ s.by \in Requests /\ s.phone \in Phones /\ s.at \in Nat
        /\ request'[s.by].pc \in {"issued", "ended"} /\ sending'[s.by].phone = s.phone
        /\ sending[s.by].phone = s.phone /\ s.at <= now
        /\ \A t \in sent' : s.by = t.by => s = t
    BY <1>1, <1>2, GateTypes DEF Codes, CodeCounts
  <2>2. CASE s.phone # p
    <3>1. InFlight(s.by) => InFlight(s.by)'
      BY <1>14, <2>1, <2>2
    <3> QED  BY <1>2, <1>13, <2>1, <2>2, <3>1, OtherCode
  <2>3. CASE s.phone = p
    <3>1. ASSUME s.at + SendInterval > now, p \notin gate.late
          PROVE  s.at + SendInterval <= v.expires /\ \E t \in v.sends : s.at <= t.at
      <4>1. s.at + SendInterval <= v.expires
        BY <1>2, <1>7, <2>1, GateNumbers
      <4> QED  BY <1>9, <2>1, <3>1, <4>1
    <3>2. ASSUME s.at + SendWindow > now, p \notin gate.broken \cup gate.late
          PROVE  \E t \in v.sends : t.by = s.by /\ s.at <= t.at
      <4>1. PICK t \in w.sends : t.by = s.by /\ (s.at <= t.at \/ InFlight(t.by))
        BY <1>2, <1>3, <2>1, <2>3, <3>2 DEF CodeCounts
      <4>2. CASE s.by = r
        BY <1>9, <2>1, <3>2, <4>2
      <4>3. CASE s.by # r
        <5>1. t \in v.sends /\ ~ InFlight(t.by)
          BY <1>9, <2>1, <2>3, <3>2, <4>1, <4>3
        <5> QED  BY <4>1, <5>1
      <4> QED  BY <4>2, <4>3
    <3> QED  BY <1>13, <2>1, <2>3, <3>1, <3>2 DEF CodeCounts
  <2> QED  BY <2>2, <2>3
<1>17. LastAsked'
  <2> SUFFICES ASSUME NEW q \in Phones, gate'.last[q] # None
               PROVE  Admitted(gate.last[q])' /\ sending'[gate'.last[q]].phone = q
    BY DEF LastAsked
  <2>1. CASE q = p
    BY <1>13, <1>14, <2>1
  <2>2. CASE q # p
    BY <1>1, <1>13, <1>14, <2>2, GateTypes DEF LastAsked
  <2> QED  BY <2>1, <2>2
<1>18. Holders'
  <2>1. \A o \in Requests : PhoneKnown(o)'
    BY <1>1, <1>14 DEF Holders, PhoneKnown
  <2>2. ASSUME NEW o \in Requests, InFlight(o)' PROVE Sender(o)'
    <3>1. InFlight(o) /\ Sender(o) /\ sending[o].phone \in Phones /\ request'[o] = request[o]
          /\ o # r /\ (sending[o].phone \notin gate.late => HoldsWindow(o))
      BY <1>1, <1>14, <2>2 DEF Holders, Sender
    <3>2. sending[o].phone \notin gate.late => sending[o].phone # p
      BY <1>9, <3>1
    <3>3. sending[o].phone \notin gate.late =>
             \A x \in Requests : InFlight(x)' /\ sending'[x].phone = sending[o].phone => x = o
      BY <1>14, <3>1 DEF HoldsWindow
    <3> QED  BY <1>2, <1>13, <3>1, <3>2, <3>3, OtherSender
  <2> QED  BY <2>1, <2>2 DEF Holders
<1>19. SendsAreLimited'
  BY <1>1, <1>13 DEF SendsAreLimited
<1> QED  BY <1>1, <1>4, <1>7, <1>8, <1>15, <1>16, <1>17, <1>18, <1>19, SendFromParts

\* Time passes.
LEMMA TickKeeps ==
    ASSUME FormTypeOK, SendInv, Tick, mix' = mix
    PROVE  SendInv'
<1>1. /\ gate'.now = gate.now + 1 /\ gate'.windows = gate.windows /\ gate'.last = gate.last
      /\ gate'.broken = gate.broken /\ gate'.late = gate.late \cup Overdue(gate.now + 1)
      /\ request' = request /\ sending' = sending /\ sent' = sent /\ call' = call /\ form' = form
  BY GateTypes DEF Tick, Gate, vars, formVars
<1>2. /\ SendsAreLimited /\ Windows /\ Codes /\ LastAsked
      /\ mix.form => Holders
      /\ ~ mix.form => Silent
  BY SendParts
<1>3. Windows'
  <2> SUFFICES ASSUME NEW p \in Phones PROVE WindowHolds(p)'
    BY DEF Windows
  <2>1. PICK w \in Window : w = gate.windows[p]
    BY GateTypes
  <2>2. WindowHolds(p) /\ gate.now \in Nat /\ w.pending \in Nat /\ \A s \in w.sends : s.at \in Nat
    BY <1>2, <2>1, GateTypes DEF Windows, Window
  <2> QED  BY <1>1, <2>1, <2>2 DEF WindowHolds, Admitted, InFlight
<1>4. Codes'
  <2> SUFFICES ASSUME NEW s \in sent PROVE CodeCounts(s)'
    BY <1>1 DEF Codes
  <2>1. CodeCounts(s) /\ gate.now \in Nat /\ s.at \in Nat
    BY <1>2, GateTypes DEF Codes
  <2> QED  BY <1>1, <2>1, GateNumbers DEF CodeCounts, InFlight
<1>5. mix.form => Holders'
  <2> SUFFICES ASSUME mix.form, NEW r \in Requests
               PROVE  PhoneKnown(r)' /\ (InFlight(r)' => Sender(r)')
    BY DEF Holders
  <2>1. PhoneKnown(r) /\ (InFlight(r) => Sender(r)) /\ (InFlight(r)' <=> InFlight(r))
    BY <1>1, <1>2 DEF Holders, InFlight
  <2>2. PhoneKnown(r)'
    BY <1>1, <2>1 DEF PhoneKnown
  <2>3. ASSUME InFlight(r) PROVE Sender(r)'
    <3>1. Sender(r) /\ sending[r].phone \in Phones
      BY <2>1, <2>3 DEF Sender
    <3>2. /\ sending[r].since <= gate'.now
          /\ sending[r].phone \notin gate'.late =>
                gate'.now + SendInterval <= sending[r].since + PendingFence
      BY <1>1, <2>3, <3>1, GateTypes, GateNumbers DEF Sender, Overdue
    <3>3. sending[r].phone \notin gate'.late => HoldsWindow(r)'
      BY <1>1, <3>1, <3>2 DEF Sender, HoldsWindow, InFlight
    <3> QED  BY <1>1, <3>1, <3>2, <3>3 DEF Sender
  <2> QED  BY <2>1, <2>2, <2>3
<1>6. LastAsked'
  <2>1. \A o \in Requests : Admitted(o) => Admitted(o)'
    BY <1>1 DEF Admitted, InFlight
  <2>2. \A p \in Phones : gate.last[p] \in Requests \cup {None}
    BY GateTypes
  <2> QED  BY <1>1, <1>2, <2>1, <2>2 DEF LastAsked
<1>7. SendsAreLimited'
  BY <1>1, <1>2 DEF SendsAreLimited
<1>8. ~ mix.form => Silent'
  BY <1>1, <1>2 DEF Silent
<1> QED  BY <1>3, <1>4, <1>5, <1>6, <1>7, <1>8, SendFromParts

\* Requests that do not send, on their own way or not yet there, or that wait for a
\* connection to send with.
LEMMA CalmKeeps ==
    ASSUME FormTypeOK, SendInv, mix' = mix,
           gate'.now = gate.now, gate'.windows = gate.windows, gate'.last = gate.last,
           gate'.broken = gate.broken, gate'.late = gate.late, sent' = sent,
           ~ mix.form => call' = call /\ form' = form,
           \A o \in Requests : Admitted(o) =>
              /\ sending'[o] = sending[o] /\ request'[o].kind = request[o].kind
              /\ \/ request'[o].pc = request[o].pc
                 \/ request[o].pc = "reserved" /\ request'[o].pc = "issuing",
           \A o \in Requests : InFlight(o)' => InFlight(o),
           mix.form => \A o \in Requests : PhoneKnown(o)'
    PROVE  SendInv'
<1>1. /\ SendsAreLimited /\ Windows /\ Codes /\ LastAsked
      /\ mix.form => Holders
      /\ ~ mix.form => Silent
  BY SendParts
<1>2. /\ \A o \in Requests : InFlight(o) =>
            /\ InFlight(o)' /\ sending'[o] = sending[o] /\ request'[o].kind = request[o].kind
            /\ request'[o].pc = "issued" <=> request[o].pc = "issued"
      /\ \A o \in Requests : Admitted(o) => Admitted(o)'
  BY DEF InFlight, Admitted
<1>3. Windows'
  BY <1>1, <1>2, OtherWindow DEF Windows
<1>4. Codes'
  <2> SUFFICES ASSUME NEW s \in sent PROVE CodeCounts(s)'
    BY DEF Codes
  <2>1. /\ CodeCounts(s) /\ s.by \in Requests /\ s.phone \in Phones
        /\ request[s.by].pc \in {"issued", "ended"}
    BY <1>1, GateTypes DEF Codes, CodeCounts
  <2>2. request'[s.by].pc \in {"issued", "ended"} /\ sending'[s.by] = sending[s.by]
        /\ \A t \in sent' : s.by = t.by => s = t
    BY <2>1 DEF CodeCounts, Admitted, InFlight
  <2> QED  BY <1>2, <2>1, <2>2, OtherCode
<1>5. LastAsked'
  BY <1>1, <1>2, GateTypes DEF LastAsked, Admitted
<1>6. mix.form => Holders'
  <2> SUFFICES ASSUME mix.form, NEW o \in Requests, InFlight(o)' PROVE Sender(o)'
    BY DEF Holders
  <2>1. InFlight(o) /\ Sender(o) /\ sending'[o] = sending[o] /\ request'[o].kind = request[o].kind
        /\ (request'[o].pc = "issued" <=> request[o].pc = "issued")
    BY <1>1, <1>2 DEF Holders
  <2>2. sending[o].phone \notin gate.late =>
           \A x \in Requests : InFlight(x)' /\ sending'[x].phone = sending[o].phone => x = o
    BY <1>2, <2>1 DEF Sender, HoldsWindow
  <2> QED  BY <2>1, <2>2, OtherSender
<1>7. SendsAreLimited' /\ (~ mix.form => Silent')
  BY <1>1 DEF SendsAreLimited, Silent
<1> QED  BY <1>3, <1>4, <1>5, <1>6, <1>7, SendFromParts

-----------------------------------------------------------------------------
(* The form and its captchas                                                *)

Item == [purpose : Purposes, phase : {"waiting", "made", "refused"}, captcha : Captcha \cup {NoCaptcha}]

\* A request for a captcha that has just been queued.
Asked(f) == [purpose |-> Purpose(f), phase |-> "waiting", captcha |-> NoCaptcha]

Pending(c) == c # NoCall /\ (c.kind = "password" \/ Sends(c.kind))

Known(c, captchas, now) == c.expires > now => c \in captchas

\* What CaptchasAreServed says of the requests for captchas ...
Serves(f, captchas, now) ==
    /\ f.loading <=> f.queue # << >>
    /\ \A i \in 2..Len(f.queue) : f.queue[i].phase = "waiting" /\ f.queue[i].captcha = NoCaptcha
    /\ f.queue # << >> =>
          /\ f.queue[1].phase # "made" => f.queue[1].captcha = NoCaptcha
          /\ f.queue[1].phase = "made" =>
                LET c == f.queue[1].captcha IN
                /\ c # NoCaptcha /\ c.purpose = f.queue[1].purpose /\ Known(c, captchas, now)
                /\ f.cookie \in {0, c.context}

\* ... and of the captcha that is shown.
Shows(f, pending, captchas, now) ==
    /\ pending => ~ f.loading
    /\ f.loading => f.captcha = NoCaptcha /\ f.queue[Len(f.queue)].purpose = Purpose(f)
    /\ f.captcha # NoCaptcha =>
          /\ f.captcha.context = f.cookie /\ f.captcha.purpose = Purpose(f)
          /\ pending \/ f.done \/ Known(f.captcha, captchas, now)

\* What the form shows and waits for, part by part.
LEMMA CaptchaParts ==
    CaptchasAreServed <=>
        /\ form.busy <=> call # NoCall
        /\ Serves(form, gate.captchas, gate.now)
        /\ Shows(form, Pending(call), gate.captchas, gate.now)
BY DEF CaptchasAreServed, Serves, Shows, Pending, Known

LEMMA CaptchaFromParts ==
    /\ form'.busy <=> call' # NoCall
    /\ Serves(form', gate'.captchas, gate'.now)
    /\ Shows(form', Pending(call'), gate'.captchas, gate'.now)
    => CaptchasAreServed'
BY DEF CaptchasAreServed, Serves, Shows, Pending, Known

LEMMA FormTypes ==
    ASSUME NEW f \in FormState
    PROVE  /\ f.view \in {"login", "reset-password"} /\ f.method \in {"password", "sms"}
           /\ f.phone \in Phones \cup {None} /\ f.captcha \in Captcha \cup {NoCaptcha}
           /\ f.loading \in BOOLEAN /\ f.busy \in BOOLEAN /\ f.done \in BOOLEAN
           /\ f.queue \in Seq(Item) /\ f.cookie \in Nat
           /\ f.cooldown \in [Phones -> Nat] /\ f.told \in [Phones -> Requests \cup {None}]
BY DEF FormState, Item

LEMMA PurposeType == \A f : Purpose(f) \in Purposes
BY DEF Purpose, Purposes

\* loadCaptcha adds a request for the purpose of the form to the queue.
LEMMA LoadFacts ==
    ASSUME NEW f \in FormState
    PROVE  LET g == LoadCaptcha(f) IN
           /\ g \in FormState /\ g.captcha = NoCaptcha /\ g.loading = TRUE /\ g.done = FALSE
           /\ g.queue = Append(f.queue, Asked(f)) /\ Purpose(g) = Purpose(f)
           /\ g.busy = f.busy /\ g.cookie = f.cookie /\ g.cooldown = f.cooldown /\ g.told = f.told
<1> DEFINE g == LoadCaptcha(f)
<1>1. PICK item \in Item : item = Asked(f)
  BY PurposeType DEF Asked, Item
<1>2. PICK queue \in Seq(Item) : queue = Append(f.queue, item)
  <2>1. f.queue \in Seq(Item)
    BY FormTypes
  <2>2. Append(f.queue, item) \in Seq(Item)
    BY ONLY <1>1, <2>1
  <2> QED  BY <2>2
<1>3. g = [f EXCEPT !.captcha = NoCaptcha, !.loading = TRUE, !.done = FALSE, !.queue = queue]
  BY <1>1, <1>2 DEF LoadCaptcha, Asked
<1>4. g \in FormState
  BY <1>3 DEF FormState, Item
<1>5. /\ g.captcha = NoCaptcha /\ g.queue = queue /\ g.cookie = f.cookie /\ g.view = f.view
      /\ g.method = f.method /\ g.cooldown = f.cooldown /\ g.told = f.told
  BY <1>3 DEF FormState
<1>6. g.loading = TRUE
  BY <1>3 DEF FormState
<1>7. g.done = FALSE
  BY <1>3 DEF FormState
<1>8. g.busy = f.busy
  BY <1>3 DEF FormState
<1>9. Purpose(g) = Purpose(f)
  BY <1>5 DEF Purpose
<1> QED  BY <1>1, <1>2, <1>4, <1>5, <1>6, <1>7, <1>8, <1>9

\* Asking for another captcha takes away the one that is shown.
LEMMA LoadServes ==
    ASSUME NEW f \in FormState, NEW captchas, NEW now, Serves(f, captchas, now)
    PROVE  /\ Serves(LoadCaptcha(f), captchas, now)
           /\ Shows(LoadCaptcha(f), FALSE, captchas, now)
<1>1. PICK g : g = LoadCaptcha(f)
  OBVIOUS
<1>2. PICK item \in Item : item = Asked(f)
  BY PurposeType DEF Asked, Item
<1>3. PICK queue \in Seq(Item) : queue = f.queue
  BY FormTypes
<1>4. /\ g.captcha = NoCaptcha /\ g.loading = TRUE /\ g.queue = Append(queue, item)
      /\ Purpose(g) = Purpose(f) /\ g.cookie = f.cookie
  BY <1>1, <1>2, <1>3, LoadFacts
<1>5. item.phase = "waiting" /\ item.captcha = NoCaptcha /\ item.purpose = Purpose(f)
  BY <1>2 DEF Asked
<1>6. /\ Len(queue) \in Nat /\ Len(g.queue) = Len(queue) + 1 /\ g.queue # << >>
      /\ \A i \in 1..Len(queue) : g.queue[i] = queue[i]
      /\ g.queue[Len(queue) + 1] = item
      /\ queue # << >> <=> Len(queue) # 0
  BY <1>4
<1>7. g.queue[1] = IF queue = << >> THEN item ELSE queue[1]
  BY <1>6
<1>8. /\ \A i \in 2..Len(queue) : queue[i].phase = "waiting" /\ queue[i].captcha = NoCaptcha
      /\ queue # << >> =>
          /\ queue[1].phase # "made" => queue[1].captcha = NoCaptcha
          /\ queue[1].phase = "made" =>
                LET c == queue[1].captcha IN
                /\ c # NoCaptcha /\ c.purpose = queue[1].purpose /\ Known(c, captchas, now)
                /\ f.cookie \in {0, c.context}
  BY <1>3 DEF Serves
<1>9. \A i \in 2..Len(g.queue) : g.queue[i].phase = "waiting" /\ g.queue[i].captcha = NoCaptcha
  BY <1>5, <1>6, <1>8
<1>10. Serves(g, captchas, now)
  BY <1>4, <1>5, <1>6, <1>7, <1>8, <1>9 DEF Serves
<1>11. Shows(g, FALSE, captchas, now)
  BY <1>4, <1>5, <1>6 DEF Shows
<1> QED  BY <1>1, <1>10, <1>11

\* Serves and Shows only look at these.
LEMMA SameServes ==
    ASSUME NEW f, NEW g, NEW captchas, NEW now, Serves(f, captchas, now),
           g.loading = f.loading, g.queue = f.queue, g.cookie = f.cookie
    PROVE  Serves(g, captchas, now)
BY DEF Serves

\* What the form shows depends on these parts of its state only.
LEMMA SameShows ==
    ASSUME NEW f, NEW g, NEW pending, NEW captchas, NEW now, Shows(f, pending, captchas, now),
           g.loading = f.loading, g.queue = f.queue, g.cookie = f.cookie, g.captcha = f.captcha,
           g.done = f.done, Purpose(g) = Purpose(f)
    PROVE  Shows(g, pending, captchas, now)
BY DEF Shows

\* Fewer captchas, but none that still counts is gone.
LEMMA LessServes ==
    ASSUME NEW f \in FormState, NEW pending, NEW captchas, NEW now, NEW fewer, NEW later,
           Serves(f, captchas, now), Shows(f, pending, captchas, now),
           \A c \in Captcha : Known(c, captchas, now) => Known(c, fewer, later)
    PROVE  Serves(f, fewer, later) /\ Shows(f, pending, fewer, later)
<1>1. f.captcha \in Captcha \cup {NoCaptcha} /\ f.queue \in Seq(Item)
  BY FormTypes
<1>2. f.queue # << >> => f.queue[1] \in Item
  BY <1>1, EmptySeq, ElementOfSeq
<1>3. f.queue # << >> => f.queue[1].captcha \in Captcha \cup {NoCaptcha}
  BY <1>2 DEF Item
<1>4. Serves(f, fewer, later)
  BY <1>3 DEF Serves
<1>5. Shows(f, pending, fewer, later)
  BY <1>1 DEF Shows
<1> QED  BY <1>4, <1>5

-----------------------------------------------------------------------------
(* What the form has been told                                              *)

\* The parts of AnswersOpen.
CallOpens ==
    /\ call \in FormCall =>
          /\ call.phase = "sent" => call.request = None /\ call.retryAt = 0
          /\ call.since <= gate.now
    /\ call \in FormCall /\ call.retryAt # 0 /\ call.request # None =>
          /\ request[call.request].pc = "ended" /\ call.serverTime <= gate.now
          /\ gate.last[call.phone] = call.request =>
                Opens(gate.windows[call.phone], call.retryAt)

ToldOpens(p) ==
    form.told[p] # None =>
          /\ request[form.told[p]].pc = "ended" /\ form.cooldown[p] >= Skew
          /\ form.told[p] = gate.last[p] =>
                Opens(gate.windows[p], form.cooldown[p] - Skew)

\* What the form has been told, part by part.
LEMMA AnswerParts == AnswersOpen <=> CallOpens /\ \A p \in Phones : ToldOpens(p)
BY DEF AnswersOpen, CallOpens, ToldOpens

LEMMA AnswersFromParts == CallOpens' /\ (\A p \in Phones : ToldOpens(p))' => AnswersOpen'
BY AnswerParts, PTL

LEMMA CallTypes ==
    ASSUME NEW c \in FormCall
    PROVE  /\ c.kind \in FormKinds /\ c.purpose \in Purposes /\ c.phone \in Phones /\ c.captcha \in Nat
           /\ c.right \in BOOLEAN /\ c.code \in Requests \cup {None}
           /\ c.request \in Requests \cup {None} /\ c.phase \in {"sent", "answered", "served"}
           /\ c.since \in Nat /\ c.result \in {"none", "limited", "captcha"}
           /\ c.retryAt \in Nat /\ c.serverTime \in Nat /\ c # NoCall
<1>1. c # NoCall
  <2>1. NoCall.kind = "none" /\ c.kind # "none"
    BY DEF NoCall, FormCall, FormKinds
  <2> QED  BY <2>1
<1> QED  BY <1>1 DEF FormCall

\* A window only changes for a request that has not ended.
Undisturbed ==
    /\ \A o \in Requests : request[o].pc = "ended" => request'[o].pc = "ended"
    /\ gate'.now \in Nat /\ gate.now <= gate'.now
    /\ \A p \in Phones :
          \/ gate'.windows[p] = gate.windows[p] /\ gate'.last[p] = gate.last[p]
          \/ gate'.last[p] \in Requests /\ request[gate'.last[p]].pc # "ended"

\* What the form has been told stays true where nobody disturbs it ...
LEMMA ToldStays ==
    ASSUME FormTypeOK, AnswersOpen, Undisturbed, NEW p \in Phones,
           form'.told[p] = form.told[p], form'.cooldown[p] = form.cooldown[p]
    PROVE  ToldOpens(p)'
<1>1. ToldOpens(p) /\ form.told[p] \in Requests \cup {None}
  BY AnswerParts, FormTypes DEF FormTypeOK
<1> SUFFICES ASSUME form.told[p] # None PROVE ToldOpens(p)'
  BY DEF ToldOpens
<1>2. request[form.told[p]].pc = "ended" /\ form.told[p] \in Requests
  BY <1>1 DEF ToldOpens
<1> QED  BY <1>1, <1>2 DEF ToldOpens, Undisturbed

\* ... and so does what the call will be answered.
LEMMA CallStays ==
    ASSUME FormTypeOK, AnswersOpen, Undisturbed, call' = call
    PROVE  CallOpens'
<1>1. CallOpens
  BY AnswerParts
<1>2. CASE call \in FormCall
  <2>1. /\ call.phone \in Phones /\ call.request \in Requests \cup {None} /\ call.since \in Nat
        /\ call.serverTime \in Nat /\ gate.now \in Nat /\ gate'.now \in Nat /\ gate.now <= gate'.now
    BY <1>2, CallTypes, GateTypes DEF Undisturbed
  <2>2. /\ call.phase = "sent" => call.request = None /\ call.retryAt = 0
        /\ call.since <= gate'.now
    BY <1>1, <1>2, <2>1 DEF CallOpens
  <2>3. ASSUME call.retryAt # 0, call.request # None
        PROVE  /\ request'[call.request].pc = "ended" /\ call.serverTime <= gate'.now
               /\ gate'.last[call.phone] = call.request =>
                     Opens(gate'.windows[call.phone], call.retryAt)
    <3>1. /\ request[call.request].pc = "ended" /\ call.serverTime <= gate.now
          /\ gate.last[call.phone] = call.request =>
                Opens(gate.windows[call.phone], call.retryAt)
      BY <1>1, <1>2, <2>3 DEF CallOpens
    <3> QED  BY <2>1, <2>3, <3>1 DEF Undisturbed
  <2> QED  BY <2>2, <2>3 DEF CallOpens
<1>3. CASE call \notin FormCall
  BY <1>3 DEF CallOpens
<1> QED  BY <1>2, <1>3

\* A call that was just made, or one that knows no time yet, promises nothing.
LEMMA NewCallOpens ==
    ASSUME gate'.now \in Nat,
           \/ call' = NoCall
           \/ /\ call' \in FormCall /\ (call'.request = None \/ call'.retryAt = 0)
              /\ call'.phase = "sent" => call'.request = None /\ call'.retryAt = 0
              /\ call'.since <= gate'.now
    PROVE  CallOpens'
BY CallTypes DEF CallOpens

LEMMA AnswersStay ==
    ASSUME FormTypeOK, AnswersOpen, Undisturbed, CallOpens',
           form'.told = form.told, form'.cooldown = form.cooldown
    PROVE  AnswersOpen'
BY ToldStays, AnswersFromParts

\* When the countdown is over the window lets a send in.
LEMMA CooldownIsEnough ==
    ASSUME FormTypeOK, AnswersOpen, SendInv
    PROVE  CooldownSuffices
<1> SUFFICES ASSUME NEW p \in Phones, form.told[p] # None, form.told[p] = gate.last[p],
                    gate.now + Skew >= form.cooldown[p]
             PROVE  Reserve(gate.windows[p], form.told[p], gate.now).allowed
  BY DEF CooldownSuffices, LocalTime
<1>1. form.cooldown[p] \in Nat /\ gate.now \in Nat /\ Skew \in Nat
  BY FormTypes, GateTypes, GateNumbers DEF FormTypeOK
<1>2. form.cooldown[p] >= Skew /\ Opens(gate.windows[p], form.cooldown[p] - Skew)
  BY AnswerParts DEF ToldOpens
<1>3. PICK t \in Nat : t = form.cooldown[p] - Skew
  BY <1>1, <1>2
<1>4. t <= gate.now
  BY <1>1, <1>3
<1>5. Sound(gate.windows[p], gate.now)
  BY SendParts, WindowSound DEF Windows
<1>6. Opens(gate.windows[p], gate.now)
  BY <1>1, <1>2, <1>3, <1>4, <1>5, OpenLater
<1> QED  BY <1>1, <1>5, <1>6, OpenLetsIn

\* Between two calls the captcha that is shown can be handed in.
LEMMA CaptchaCounts ==
    ASSUME FormTypeOK, CaptchasAreServed
    PROVE  ShownCaptchaCounts
BY CaptchaParts DEF Shows, Pending, Known, ShownCaptchaCounts

-----------------------------------------------------------------------------
(* Every step of the form                                                   *)

Core == FormTypeOK /\ CaptchasAreServed /\ AnswersOpen /\ SendInv

\* The core says all that the runs check.
LEMMA CoreSuffices == Core => FormInv /\ SendInv
BY CooldownIsEnough, CaptchaCounts DEF Core, FormInv

LEMMA CoreParts ==
    ASSUME Core
    PROVE  /\ FormTypeOK /\ CaptchasAreServed /\ AnswersOpen /\ SendInv
           /\ form \in FormState /\ call \in FormCall \cup {NoCall} /\ gate \in Gate
           /\ mix \in Mixes
           /\ form.busy <=> call # NoCall
           /\ Serves(form, gate.captchas, gate.now)
           /\ Shows(form, Pending(call), gate.captchas, gate.now)
BY CaptchaParts DEF Core, FormTypeOK

\* The user and the browser do not touch the server.
LEMMA ClientKeeps ==
    ASSUME Core, mix.form, mix' = mix, UNCHANGED vars, UNCHANGED gateVars,
           form' \in FormState, call' \in FormCall \cup {NoCall},
           form'.busy <=> call' # NoCall,
           Serves(form', gate.captchas, gate.now),
           Shows(form', Pending(call'), gate.captchas, gate.now),
           AnswersOpen'
    PROVE  Core'
<1>1. request' = request /\ gate' = gate /\ sending' = sending /\ sent' = sent
  BY DEF vars, gateVars
<1>2. FormTypeOK'
  BY <1>1, CoreParts DEF FormTypeOK
<1>3. CaptchasAreServed'
  BY <1>1, CaptchaFromParts
<1>4. \A o \in Requests : PhoneKnown(o)' <=> PhoneKnown(o)
  BY <1>1 DEF PhoneKnown
<1>5. mix.form => \A o \in Requests : PhoneKnown(o)'
  BY <1>4, CoreParts, SendParts DEF Holders
<1>6. \A o \in Requests : InFlight(o)' => InFlight(o)
  BY <1>1 DEF InFlight
<1>7. SendInv'
  BY <1>1, <1>5, <1>6, CoreParts, CalmKeeps
<1> QED  BY <1>2, <1>3, <1>7 DEF Core

\* A step of the form alone disturbs nothing behind it.
LEMMA StillUndisturbed ==
    ASSUME FormTypeOK, UNCHANGED vars, UNCHANGED gateVars
    PROVE  Undisturbed
BY GateTypes DEF Undisturbed, vars, gateVars

LEMMA BusyFacts ==
    ASSUME NEW f \in FormState, NEW b \in BOOLEAN
    PROVE  LET g == [f EXCEPT !.busy = b] IN
           /\ g \in FormState /\ g.busy = b /\ Purpose(g) = Purpose(f)
           /\ g.captcha = f.captcha /\ g.loading = f.loading /\ g.done = f.done /\ g.queue = f.queue
           /\ g.cookie = f.cookie /\ g.cooldown = f.cooldown /\ g.told = f.told
<1> DEFINE g == [f EXCEPT !.busy = b]
<1>1. g \in FormState
  BY DEF FormState
<1>2. g.captcha = f.captcha /\ g.queue = f.queue /\ g.cookie = f.cookie /\ g.cooldown = f.cooldown
      /\ g.told = f.told /\ g.view = f.view /\ g.method = f.method
  BY DEF FormState
<1>3. g.loading = f.loading
  BY DEF FormState
<1>4. g.done = f.done
  BY DEF FormState
<1>5. g.busy = b
  BY DEF FormState
<1>6. Purpose(g) = Purpose(f)
  BY <1>2 DEF Purpose
<1> QED  BY <1>1, <1>2, <1>3, <1>4, <1>5, <1>6

\* Between two calls the form asks for another captcha.
LEMMA LoadKeeps ==
    ASSUME Core, mix.form, mix' = mix, UNCHANGED vars, UNCHANGED gateVars,
           NEW f \in FormState, form' = LoadCaptcha(f), call' = NoCall, f.busy = FALSE,
           f.queue = form.queue, f.loading = form.loading, f.cookie = form.cookie, AnswersOpen'
    PROVE  Core'
<1>1. Serves(form, gate.captchas, gate.now)
  BY CoreParts
<1>2. Serves(f, gate.captchas, gate.now)
  BY <1>1, SameServes
<1>3. Serves(form', gate.captchas, gate.now) /\ Shows(form', FALSE, gate.captchas, gate.now)
  BY <1>2, LoadServes
<1>4. form' \in FormState /\ form'.busy = FALSE
  BY LoadFacts
<1>5. Pending(call') = FALSE
  BY DEF Pending
<1>6. (form'.busy <=> call' # NoCall) /\ call' \in FormCall \cup {NoCall}
  BY <1>4
<1> QED  BY <1>3, <1>4, <1>5, <1>6, ClientKeeps

\* The user acts when no call is under way, and on the form only.
LEMMA MoveFacts ==
    ASSUME Core, NEW f, NEW c, Move(f, c)
    PROVE  /\ form.busy = FALSE /\ call = NoCall /\ form' = f /\ call' = c
           /\ UNCHANGED vars /\ UNCHANGED gateVars
<1>1. ~ form.busy /\ form.busy \in BOOLEAN /\ (form.busy <=> call # NoCall)
  BY CoreParts, FormTypes DEF Move
<1> QED  BY <1>1 DEF Move

LEMMA TypePhoneKeeps ==
    ASSUME Core, mix.form, mix' = mix, TypePhone
    PROVE  Core'
<1>1. PICK p \in Phones : Move([form EXCEPT !.phone = p], call)
  BY DEF TypePhone
<1>2. PICK f \in FormState : f = form
  BY CoreParts
<1> DEFINE g == [f EXCEPT !.phone = p]
<1>3. g \in FormState
  BY DEF FormState
<1>4. g.captcha = f.captcha /\ g.queue = f.queue /\ g.cookie = f.cookie /\ g.cooldown = f.cooldown
      /\ g.told = f.told /\ g.view = f.view /\ g.method = f.method
  BY DEF FormState
<1>5. g.loading = f.loading
  BY DEF FormState
<1>6. g.done = f.done
  BY DEF FormState
<1>7. g.busy = f.busy
  BY DEF FormState
<1>8. Purpose(g) = Purpose(f)
  BY <1>4 DEF Purpose
<1>9. form' = g /\ call' = call /\ UNCHANGED vars /\ UNCHANGED gateVars
  BY <1>1, <1>2, MoveFacts
<1> HIDE DEF g
<1>10. Serves(g, gate.captchas, gate.now)
  BY <1>2, <1>4, <1>5, CoreParts, SameServes
<1>11. Shows(g, Pending(call), gate.captchas, gate.now)
  BY <1>2, <1>4, <1>5, <1>6, <1>8, CoreParts, SameShows
<1>12. AnswersOpen'
  BY <1>2, <1>4, <1>9, CoreParts, StillUndisturbed, CallStays, AnswersStay
<1>13. form'.busy <=> call' # NoCall
  BY <1>2, <1>7, <1>9, CoreParts
<1>14. call' \in FormCall \cup {NoCall} /\ Pending(call') = Pending(call)
  BY <1>9, CoreParts
<1> QED  BY <1>3, <1>9, <1>10, <1>11, <1>12, <1>13, <1>14, ClientKeeps

LEMMA SwitchKeeps ==
    ASSUME Core, mix.form, mix' = mix, Switch
    PROVE  Core'
<1>1. PICK view \in {"login", "reset-password"}, method \in {"password", "sms"} :
         Move(LoadCaptcha([form EXCEPT !.view = view, !.method = method]), call)
  BY DEF Switch
<1>2. PICK f \in FormState : f = form
  BY CoreParts
<1> DEFINE g == [f EXCEPT !.view = view, !.method = method]
<1>3. g \in FormState
  BY DEF FormState
<1>4. g.queue = f.queue /\ g.cookie = f.cookie /\ g.cooldown = f.cooldown /\ g.told = f.told
  BY DEF FormState
<1>5. g.loading = f.loading
  BY DEF FormState
<1>6. g.busy = f.busy
  BY DEF FormState
<1>7. form' = LoadCaptcha(g) /\ call' = call /\ call = NoCall /\ form.busy = FALSE
      /\ UNCHANGED vars /\ UNCHANGED gateVars
  BY <1>1, <1>2, MoveFacts
<1> HIDE DEF g
<1>8. form'.told = form.told /\ form'.cooldown = form.cooldown
  BY <1>2, <1>3, <1>4, <1>7, LoadFacts
<1>9. AnswersOpen'
  BY <1>7, <1>8, CoreParts, StillUndisturbed, CallStays, AnswersStay
<1> QED  BY <1>2, <1>3, <1>4, <1>5, <1>6, <1>7, <1>9, LoadKeeps

LEMMA RefreshKeeps ==
    ASSUME Core, mix.form, mix' = mix, Refresh
    PROVE  Core'
<1>1. form' = LoadCaptcha(form) /\ call' = call /\ call = NoCall /\ form.busy = FALSE
      /\ UNCHANGED vars /\ UNCHANGED gateVars
  BY MoveFacts DEF Refresh
<1>2. form \in FormState
  BY CoreParts
<1>3. form'.told = form.told /\ form'.cooldown = form.cooldown
  BY <1>1, <1>2, LoadFacts
<1>4. AnswersOpen'
  BY <1>1, <1>3, CoreParts, StillUndisturbed, CallStays, AnswersStay
<1> QED  BY <1>1, <1>2, <1>4, LoadKeeps

\* A call begins; one that hands in a captcha has one to hand in.
LEMMA CallKeeps ==
    ASSUME Core, mix.form, mix' = mix, NEW kind \in FormKinds, NEW right \in BOOLEAN,
           NEW code \in Requests \cup {None},
           Move([form EXCEPT !.busy = TRUE], Call(kind, right, code)), form.phone # None,
           kind = "password" \/ Sends(kind) => form.captcha # NoCaptcha
    PROVE  Core'
<1>1. PICK f \in FormState : f = form
  BY CoreParts
<1>2. PICK c : c = Call(kind, right, code)
  OBVIOUS
<1>3. PICK g : g = [f EXCEPT !.busy = TRUE]
  OBVIOUS
<1>4. form' = g /\ call' = c /\ call = NoCall /\ UNCHANGED vars /\ UNCHANGED gateVars
  BY <1>1, <1>2, <1>3, MoveFacts
<1>5. /\ g \in FormState /\ g.busy = TRUE /\ Purpose(g) = Purpose(f)
      /\ g.captcha = f.captcha /\ g.loading = f.loading /\ g.done = f.done /\ g.queue = f.queue
      /\ g.cookie = f.cookie /\ g.cooldown = f.cooldown /\ g.told = f.told
  BY <1>3, BusyFacts
<1>6. f.phone \in Phones /\ f.captcha.id \in Nat
  BY <1>1, FormTypes DEF Captcha, NoCaptcha
<1>7. c \in FormCall
  BY <1>1, <1>2, <1>6, PurposeType DEF Call, FormCall
<1>8. c.kind = kind /\ c.phase = "sent" /\ c.request = None /\ c.retryAt = 0 /\ c.since = 0
      /\ c # NoCall
  BY <1>2, <1>7, CallTypes DEF Call
<1>9. Serves(f, gate.captchas, gate.now) /\ Shows(f, FALSE, gate.captchas, gate.now)
  BY <1>1, <1>4, CoreParts DEF Pending
<1>10. Serves(g, gate.captchas, gate.now) /\ Shows(g, FALSE, gate.captchas, gate.now)
  BY <1>5, <1>9, SameServes, SameShows
<1>11. Pending(c) => ~ g.loading
  BY <1>1, <1>5, <1>8, <1>10 DEF Pending, Shows
<1>12. Shows(g, Pending(c), gate.captchas, gate.now)
  BY <1>10, <1>11 DEF Shows
<1>13. gate'.now \in Nat /\ gate' = gate
  BY <1>4, CoreParts, GateTypes DEF gateVars
<1>14. CallOpens'
  BY <1>4, <1>7, <1>8, <1>13, NewCallOpens
<1>15. AnswersOpen'
  BY <1>1, <1>4, <1>5, <1>14, CoreParts, StillUndisturbed, AnswersStay
<1>16. form'.busy <=> call' # NoCall
  BY <1>4, <1>5, <1>8
<1> QED  BY <1>4, <1>5, <1>7, <1>10, <1>12, <1>15, <1>16, ClientKeeps

LEMMA CallsKeep ==
    ASSUME Core, mix.form, mix' = mix, SendCode \/ SubmitPassword \/ SubmitCode
    PROVE  Core'
<1>1. CASE SendCode
  <2>1. PICK right \in BOOLEAN :
           Move([form EXCEPT !.busy = TRUE],
                Call(IF Purpose(form) = "sms-login" THEN "send-login" ELSE "send-reset", right, None))
    BY <1>1 DEF SendCode
  <2>2. PICK kind \in FormKinds : kind = IF Purpose(form) = "sms-login" THEN "send-login" ELSE "send-reset"
    BY DEF FormKinds
  <2>3. form.phone # None /\ form.captcha # NoCaptcha
    BY <1>1 DEF SendCode
  <2> QED  BY <2>1, <2>2, <2>3, CallKeeps
<1>2. CASE SubmitPassword
  <2>1. PICK right \in BOOLEAN : Move([form EXCEPT !.busy = TRUE], Call("password", right, None))
    BY <1>2 DEF SubmitPassword
  <2>2. form.phone # None /\ form.captcha # NoCaptcha
    BY <1>2 DEF SubmitPassword
  <2>3. "password" \in FormKinds
    BY DEF FormKinds
  <2> QED  BY <2>1, <2>2, <2>3, CallKeeps
<1>3. CASE SubmitCode
  <2>1. PICK kind : kind = IF Purpose(form) = "sms-login" THEN "sms" ELSE "reset"
    OBVIOUS
  <2>2. PICK code \in Requests : Move([form EXCEPT !.busy = TRUE], Call(kind, FALSE, code))
    BY <1>3, <2>1, Zenon DEF SubmitCode
  <2>3. form.phone # None
    BY <1>3 DEF SubmitCode
  <2>4. kind \in FormKinds /\ ~ (kind = "password" \/ Sends(kind))
    BY <2>1 DEF FormKinds, Sends
  <2> QED  BY <2>2, <2>3, <2>4, CallKeeps
<1> QED  BY <1>1, <1>2, <1>3

\* The oldest request for a captcha leaves the queue.
LEMMA WithoutFirst ==
    ASSUME NEW queue \in Seq(Item), queue # << >>
    PROVE  /\ Without(queue, 1) \in Seq(Item) /\ Len(queue) \in Nat \ {0}
           /\ Len(Without(queue, 1)) = Len(queue) - 1
           /\ \A i \in 1..(Len(queue) - 1) : Without(queue, 1)[i] = queue[i + 1]
           /\ Without(queue, 1) = << >> <=> Len(queue) = 1
<1>1. Len(queue) \in Nat \ {0}
  BY EmptySeq
<1>2. SubSeq(queue, 1, 0) = << >>
  BY SubSeqEmpty
<1>3. PICK rest : rest = SubSeq(queue, 2, Len(queue))
  OBVIOUS
<1>4. /\ rest \in Seq(Item) /\ Len(rest) = Len(queue) - 1
      /\ \A i \in 1..(Len(queue) - 1) : rest[i] = queue[i + 1]
  <2>1. \A i \in 2..Len(queue) : queue[i] \in Item
    BY <1>1, ElementOfSeq
  <2>2. /\ rest \in Seq(Item) /\ Len(rest) = IF 2 <= Len(queue) THEN Len(queue) - 2 + 1 ELSE 0
        /\ \A i \in 1..(Len(queue) - 2 + 1) : rest[i] = queue[2 + i - 1]
    BY <1>1, <1>3, <2>1, SubSeqProperties
  <2>3. Len(queue) - 2 + 1 = Len(queue) - 1 /\ (2 <= Len(queue) \/ Len(queue) - 1 = 0)
    <3>1. PICK n \in Nat : n = Len(queue) /\ n # 0
      BY <1>1
    <3>2. n - 2 + 1 = n - 1 /\ (2 <= n \/ n - 1 = 0)
      BY ONLY <3>1, n \in Nat
    <3> QED  BY <3>1, <3>2
  <2>4. ASSUME NEW i \in 1..(Len(queue) - 1) PROVE rest[i] = queue[i + 1]
    <3>1. 2 + i - 1 = i + 1
      BY <1>1
    <3> QED  BY <2>2, <2>3, <3>1
  <2> QED  BY <2>2, <2>3, <2>4
<1>5. Without(queue, 1) = << >> \o rest
  BY <1>2, <1>3 DEF Without
<1>6. Without(queue, 1) = rest
  BY <1>4, <1>5, ConcatEmptySeq
<1>7. rest = << >> <=> Len(rest) = 0
  BY <1>4, EmptySeq
<1> QED  BY <1>1, <1>4, <1>6, <1>7

\* The first request for a captcha is over.
LEMMA NextServes ==
    ASSUME NEW f \in FormState, NEW captchas, NEW now, Serves(f, captchas, now), f.queue # << >>,
           NEW g, g.queue = Without(f.queue, 1), g.loading <=> f.loading /\ Len(f.queue) # 1
    PROVE  Serves(g, captchas, now)
<1>1. PICK queue \in Seq(Item) : queue = f.queue
  BY FormTypes
<1>2. /\ Len(queue) \in Nat \ {0} /\ Len(g.queue) = Len(queue) - 1
      /\ \A i \in 1..(Len(queue) - 1) : g.queue[i] = queue[i + 1]
      /\ g.queue = << >> <=> Len(queue) = 1
  BY <1>1, WithoutFirst
<1>3. \A i \in 2..Len(queue) : queue[i].phase = "waiting" /\ queue[i].captcha = NoCaptcha
  BY <1>1 DEF Serves
<1>4. \A i \in 1..Len(g.queue) : g.queue[i].phase = "waiting" /\ g.queue[i].captcha = NoCaptcha
  BY <1>2, <1>3
<1>5. g.queue # << >> => g.queue[1].phase = "waiting" /\ g.queue[1].captcha = NoCaptcha
  BY <1>2, <1>4
<1>6. g.loading <=> g.queue # << >>
  BY <1>1, <1>2 DEF Serves
<1> QED  BY <1>2, <1>4, <1>5, <1>6 DEF Serves

\* While a captcha is asked for the form shows none and hands none in.
LEMMA QueueFacts ==
    ASSUME Core, form.queue # << >>
    PROVE  /\ form.queue \in Seq(Item) /\ Len(form.queue) \in Nat \ {0} /\ form.queue[1] \in Item
           /\ form.loading = TRUE /\ form.captcha = NoCaptcha /\ Pending(call) = FALSE
           /\ form.queue[Len(form.queue)].purpose = Purpose(form)
<1>1. form.queue \in Seq(Item) /\ form.loading \in BOOLEAN
  BY CoreParts, FormTypes
<1>2. Len(form.queue) \in Nat \ {0}
  BY <1>1, EmptySeq
<1>3. form.queue[1] \in Item
  BY <1>1, <1>2, ElementOfSeq
<1>4. form.loading = TRUE
  BY <1>1, CoreParts DEF Serves
<1>5. Pending(call) \in BOOLEAN
  BY DEF Pending
<1> QED  BY <1>1, <1>2, <1>3, <1>4, <1>5, CoreParts DEF Shows

LEMMA ReceiveKeeps ==
    ASSUME Core, mix.form, mix' = mix, ReceiveCaptcha
    PROVE  Core'
<1>1. form.queue # << >> /\ UNCHANGED vars /\ UNCHANGED gateVars /\ call' = call
  BY DEF ReceiveCaptcha, UnderWay
<1>2. PICK f \in FormState : f = form
  BY CoreParts
<1>3. PICK answer \in Item : answer = form.queue[1]
  BY <1>1, QueueFacts
<1>4. PICK last \in BOOLEAN : last = (1 = Len(form.queue))
  OBVIOUS
<1>5. PICK cookie : cookie = IF answer.phase = "made" THEN answer.captcha.context ELSE f.cookie
  OBVIOUS
<1>6. PICK captcha : captcha = IF last THEN answer.captcha ELSE f.captcha
  OBVIOUS
<1>7. PICK queue : queue = Without(f.queue, 1)
  OBVIOUS
<1> DEFINE g == [f EXCEPT !.queue = queue, !.loading = @ /\ ~ last, !.cookie = cookie, !.captcha = captcha]
<1>8. /\ f.loading = TRUE /\ f.captcha = NoCaptcha /\ Pending(call) = FALSE /\ f.queue # << >>
      /\ f.queue \in Seq(Item) /\ Len(f.queue) \in Nat \ {0}
      /\ f.queue[Len(f.queue)].purpose = Purpose(f)
  BY <1>1, <1>2, QueueFacts
<1>9. answer.phase # "waiting" /\ form' = g
  <2>1. PICK i \in UnderWay(form.queue) :
           /\ form.queue[i].phase # "waiting"
           /\ form' = [form EXCEPT
                !.queue = Without(@, i), !.loading = @ /\ ~ (form.loading /\ i = Len(form.queue)),
                !.cookie = IF form.queue[i].phase = "made" THEN form.queue[i].captcha.context ELSE @,
                !.captcha = IF form.loading /\ i = Len(form.queue) THEN form.queue[i].captcha ELSE @]
    BY DEF ReceiveCaptcha
  <2>2. i = 1
    BY DEF UnderWay
  <2> QED  BY <1>2, <1>3, <1>4, <1>5, <1>6, <1>7, <1>8, <2>1, <2>2
<1>10. /\ answer.captcha \in Captcha \cup {NoCaptcha}
       /\ answer.phase # "made" => answer.captcha = NoCaptcha
       /\ answer.phase = "made" =>
             /\ answer.captcha \in Captcha /\ answer.captcha.purpose = answer.purpose
             /\ Known(answer.captcha, gate.captchas, gate.now)
  BY <1>2, <1>3, <1>8, CoreParts DEF Serves, Item
<1>11. cookie \in Nat /\ captcha \in Captcha \cup {NoCaptcha} /\ queue \in Seq(Item)
  BY <1>5, <1>6, <1>7, <1>8, <1>10, FormTypes, WithoutFirst DEF Captcha
<1>12. g \in FormState
  BY <1>11 DEF FormState, Item
<1>13. /\ g.queue = queue /\ g.cookie = cookie /\ g.captcha = captcha /\ g.view = f.view
       /\ g.method = f.method /\ g.told = f.told /\ g.cooldown = f.cooldown
  BY DEF FormState
<1>14. g.loading = ~ last
  BY <1>8 DEF FormState
<1>15. g.busy = f.busy
  BY DEF FormState
<1>16. Purpose(g) = Purpose(f)
  BY <1>13 DEF Purpose
<1> HIDE DEF g
<1>17. Serves(g, gate.captchas, gate.now)
  BY <1>2, <1>4, <1>7, <1>8, <1>13, <1>14, CoreParts, NextServes
<1>18. Shows(g, Pending(call), gate.captchas, gate.now)
  <2>1. CASE last
    <3>1. g.loading = FALSE /\ g.captcha = answer.captcha /\ answer.purpose = Purpose(f)
      BY <1>2, <1>3, <1>4, <1>6, <1>8, <1>13, <1>14, <2>1
    <3>2. g.captcha # NoCaptcha => answer.phase = "made" /\ g.cookie = answer.captcha.context
      BY <1>5, <1>10, <1>13, <3>1
    <3> QED  BY <1>8, <1>10, <1>16, <3>1, <3>2 DEF Shows
  <2>2. CASE ~ last
    <3>1. g.captcha = NoCaptcha
      BY <1>6, <1>8, <1>13, <2>2
    <3>2. Len(g.queue) = Len(f.queue) - 1 /\ g.queue[Len(f.queue) - 1] = f.queue[Len(f.queue)]
      <4>1. Len(f.queue) - 1 \in 1..(Len(f.queue) - 1) /\ (Len(f.queue) - 1) + 1 = Len(f.queue)
        <5>1. PICK n \in Nat : n = Len(f.queue) /\ 1 < n
          <6>1. ~ (1 = Len(f.queue))
            BY ONLY <1>2, <1>4, <2>2, Zenon
          <6>2. PICK n \in Nat : n = Len(f.queue) /\ n # 0
            BY <1>8
          <6>3. n # 0 /\ n # 1
            BY <6>1, <6>2, Zenon
          <6>4. 1 < n
            BY ONLY n \in Nat, <6>3
          <6> QED  BY <6>2, <6>4
        <5>2. 1 <= n - 1 /\ n - 1 \in Int /\ (n - 1) + 1 = n
          BY <5>1
        <5> QED  BY <5>1, <5>2
      <4>2. \A i \in 1..(Len(f.queue) - 1) : g.queue[i] = f.queue[i + 1]
        BY <1>7, <1>8, <1>13, WithoutFirst
      <4>3. Len(g.queue) = Len(f.queue) - 1
        BY <1>7, <1>8, <1>13, WithoutFirst
      <4> QED  BY <4>1, <4>2, <4>3
    <3> QED  BY <1>8, <1>16, <3>1, <3>2 DEF Shows
  <2> QED  BY <2>1, <2>2
<1>19. AnswersOpen'
  BY <1>1, <1>2, <1>9, <1>13, CoreParts, StillUndisturbed, CallStays, AnswersStay
<1>20. (form'.busy <=> call' # NoCall) /\ call' \in FormCall \cup {NoCall}
  BY <1>1, <1>2, <1>9, <1>15, CoreParts
<1>21. Pending(call') = Pending(call)
  BY <1>1
<1> QED  BY <1>1, <1>9, <1>12, <1>17, <1>18, <1>19, <1>20, <1>21, ClientKeeps

LEMMA LoseCaptchaKeeps ==
    ASSUME Core, mix.form, mix' = mix, LoseCaptcha
    PROVE  Core'
<1>1. form.queue # << >> /\ UNCHANGED vars /\ UNCHANGED gateVars /\ call' = call
  BY DEF LoseCaptcha, UnderWay
<1>2. PICK f \in FormState : f = form
  BY CoreParts
<1>3. PICK last \in BOOLEAN : last = (1 = Len(form.queue))
  OBVIOUS
<1>4. PICK queue : queue = Without(f.queue, 1)
  OBVIOUS
<1> DEFINE g == [f EXCEPT !.queue = queue, !.loading = @ /\ ~ last]
<1>5. /\ f.loading = TRUE /\ f.captcha = NoCaptcha /\ Pending(call) = FALSE /\ f.queue # << >>
      /\ f.queue \in Seq(Item) /\ Len(f.queue) \in Nat \ {0}
      /\ f.queue[Len(f.queue)].purpose = Purpose(f)
  BY <1>1, <1>2, QueueFacts
<1>6. form' = g
  <2>1. PICK i \in UnderWay(form.queue) :
           form' = [form EXCEPT !.queue = Without(@, i), !.loading = @ /\ i # Len(form.queue)]
    BY DEF LoseCaptcha
  <2>2. i = 1
    BY DEF UnderWay
  <2> QED  BY <1>2, <1>3, <1>4, <2>1, <2>2
<1>7. queue \in Seq(Item)
  BY <1>4, <1>5, WithoutFirst
<1>8. g \in FormState
  BY <1>7 DEF FormState, Item
<1>9. /\ g.queue = queue /\ g.cookie = f.cookie /\ g.captcha = f.captcha /\ g.view = f.view
      /\ g.method = f.method /\ g.told = f.told /\ g.cooldown = f.cooldown
  BY DEF FormState
<1>10. g.loading = ~ last
  BY <1>5 DEF FormState
<1>11. g.busy = f.busy
  BY DEF FormState
<1>12. Purpose(g) = Purpose(f)
  BY <1>9 DEF Purpose
<1> HIDE DEF g
<1>13. Serves(g, gate.captchas, gate.now)
  BY <1>2, <1>3, <1>4, <1>5, <1>9, <1>10, CoreParts, NextServes
<1>14. ~ last => Len(g.queue) = Len(f.queue) - 1 /\ g.queue[Len(f.queue) - 1] = f.queue[Len(f.queue)]
  <2> SUFFICES ASSUME ~ last
               PROVE  Len(g.queue) = Len(f.queue) - 1
                      /\ g.queue[Len(f.queue) - 1] = f.queue[Len(f.queue)]
    OBVIOUS
  <2>1. Len(f.queue) - 1 \in 1..(Len(f.queue) - 1) /\ (Len(f.queue) - 1) + 1 = Len(f.queue)
    <3>1. PICK n \in Nat : n = Len(f.queue) /\ 1 < n
      <4>1. ~ (1 = Len(f.queue))
        BY <1>2, <1>3, Zenon
      <4>2. PICK n \in Nat : n = Len(f.queue) /\ n # 0
        BY <1>5
      <4>3. n # 0 /\ n # 1
        BY <4>1, <4>2, Zenon
      <4>4. 1 < n
        BY ONLY n \in Nat, <4>3
      <4> QED  BY <4>2, <4>4
    <3>2. 1 <= n - 1 /\ n - 1 \in Int /\ (n - 1) + 1 = n
      BY <3>1
    <3> QED  BY <3>1, <3>2
  <2>2. \A i \in 1..(Len(f.queue) - 1) : g.queue[i] = f.queue[i + 1]
    BY <1>4, <1>5, <1>9, WithoutFirst
  <2>3. Len(g.queue) = Len(f.queue) - 1
    BY <1>4, <1>5, <1>9, WithoutFirst
  <2> QED  BY <2>1, <2>2, <2>3
<1>15. Shows(g, Pending(call), gate.captchas, gate.now)
  BY <1>5, <1>9, <1>10, <1>12, <1>14 DEF Shows
<1>16. AnswersOpen'
  BY <1>1, <1>2, <1>6, <1>9, CoreParts, StillUndisturbed, CallStays, AnswersStay
<1>17. (form'.busy <=> call' # NoCall) /\ call' \in FormCall \cup {NoCall}
  BY <1>1, <1>2, <1>6, <1>11, CoreParts
<1>18. Pending(call') = Pending(call)
  BY <1>1
<1> QED  BY <1>1, <1>6, <1>8, <1>13, <1>15, <1>16, <1>17, <1>18, ClientKeeps

-----------------------------------------------------------------------------
(* The gate and the requests                                                *)

\* A step of the server leaves the form waiting for the same call.
LEMMA ServerKeeps ==
    ASSUME Core, mix' = mix, form' = form, call' \in FormCall \cup {NoCall},
           call' # NoCall <=> call # NoCall, Pending(call') = Pending(call),
           gate' \in Gate, gate'.captchas = gate.captchas, gate'.now = gate.now,
           sending' \in [Requests -> [phone : Phones \cup {None}, since : Nat]],
           sent' \subseteq [by : Requests, phone : Phones, at : Nat],
           Undisturbed, CallOpens', SendInv'
    PROVE  Core'
<1>1. FormTypeOK'
  BY CoreParts DEF FormTypeOK
<1>2. CaptchasAreServed'
  BY CoreParts, CaptchaFromParts
<1>3. AnswersOpen'
  BY CoreParts, AnswersStay
<1> QED  BY <1>1, <1>2, <1>3 DEF Core

\* A request that has not passed its window goes its way.
LEMMA RequestKeeps ==
    ASSUME Core, mix.form, mix' = mix, form' = form, call' = call, gate' = gate, sent' = sent,
           NEW r \in Requests,
           \A o \in Requests : o # r => request'[o] = request[o] /\ sending'[o] = sending[o],
           ~ Admitted(r), ~ InFlight(r)',
           sending' \in [Requests -> [phone : Phones \cup {None}, since : Nat]],
           PhoneKnown(r)'
    PROVE  Core'
<1>1. \A o \in Requests : PhoneKnown(o)
  BY CoreParts, SendParts DEF Holders
<1>2. \A o \in Requests : PhoneKnown(o)'
  BY <1>1 DEF PhoneKnown
<1>3. \A o \in Requests : InFlight(o)' => InFlight(o)
  BY DEF InFlight
<1>4. SendInv'
  <2>1. \A o \in Requests : Admitted(o) => request'[o] = request[o] /\ sending'[o] = sending[o]
    OBVIOUS
  <2> QED  BY <1>2, <1>3, <2>1, CoreParts, CalmKeeps
<1>5. Undisturbed
  BY CoreParts, GateTypes DEF Undisturbed, Admitted
<1>6. CallOpens'
  BY <1>5, CoreParts, CallStays
<1>7. sent' \subseteq [by : Requests, phone : Phones, at : Nat]
  BY CoreParts, GateTypes
<1> QED  BY <1>4, <1>5, <1>6, <1>7, CoreParts, ServerKeeps

LEMMA EndMoves ==
    ASSUME TypeOK, NEW r \in Requests, NEW result \in {"none", "ok", "refused", "error"},
           End(r, result)
    PROVE  /\ request'[r].pc = "ended"
           /\ \A o \in Requests : o # r => request'[o] = request[o]
<1>1. Ended(result) \in Request /\ Ended(result).pc = "ended"
  BY RequestTypes
<1> QED  BY <1>1 DEF End, TypeOK

LEMMA PcMoves ==
    ASSUME TypeOK, NEW r \in Requests,
           NEW pc \in {"verified", "reserved", "issuing", "issued"}, request' = [request EXCEPT ![r].pc = pc]
    PROVE  /\ request'[r].pc = pc /\ request'[r].kind = request[r].kind
           /\ \A o \in Requests : o # r => request'[o] = request[o]
<1>1. request[r] \in Request
  BY DEF TypeOK
<1>2. request'[r] = [request[r] EXCEPT !.pc = pc]
  BY DEF TypeOK
<1> QED  BY <1>1, <1>2 DEF Request, TypeOK

\* The steps of a request that have nothing to do with sending.
LEMMA PlainMoves ==
    ASSUME TypeOK, NEW r \in Requests,
           Resolve(r) \/ Refuse(r) \/ CheckPassword(r) \/ SignIn(r) \/ CommitChange(r) \/ SignOut(r)
             \/ Choose(r) \/ TakeCode(r) \/ RefuseCode(r)
    PROVE  /\ \A o \in Requests : o # r => request'[o] = request[o]
           /\ request[r].pc \in {"started", "locked", "verified", "chosen"}
           /\ request'[r].pc \in {"resolved", "verified", "chosen", "ended"}
           /\ request'[r].pc = "resolved" => request[r].pc = "started"
                 /\ request'[r].kind = request[r].kind /\ request'[r].phone = request[r].phone
<1>1. request[r] \in Request /\ request \in [Requests -> Request]
  BY DEF TypeOK
<1>2. CASE Resolve(r)
  <2>1. request[r].pc = "started"
        /\ \/ \E result \in {"ok", "refused"} : End(r, result)
           \/ \E user : request' = [request EXCEPT ![r].pc = "resolved", ![r].user = user]
    BY <1>2 DEF Resolve
  <2>2. CASE \E result \in {"ok", "refused"} : End(r, result)
    BY <2>1, <2>2, EndMoves
  <2>3. CASE \E user : request' = [request EXCEPT ![r].pc = "resolved", ![r].user = user]
    <3>1. PICK user : request' = [request EXCEPT ![r].pc = "resolved", ![r].user = user]
      BY <2>3
    <3>2. PICK old \in Request : old = request[r]
      BY <1>1
    <3>3. request'[r] = [old EXCEPT !.pc = "resolved", !.user = user]
          /\ \A o \in Requests : o # r => request'[o] = request[o]
      BY <1>1, <3>1, <3>2
    <3> QED  BY <2>1, <3>2, <3>3 DEF Request
  <2> QED  BY <2>1, <2>2, <2>3
<1>3. CASE CheckPassword(r)
  <2>1. request[r].pc = "locked"
        /\ (request' = [request EXCEPT ![r].pc = "verified"] \/ End(r, "refused"))
    BY <1>3 DEF CheckPassword
  <2> QED  BY <2>1, EndMoves, PcMoves
<1>4. CASE Choose(r)
  <2>1. request[r].pc = "locked"
        /\ \/ End(r, "refused")
           \/ \E c : request' = [request EXCEPT ![r].pc = "chosen", ![r].chosen = c]
    BY <1>4 DEF Choose
  <2>2. ASSUME NEW c, request' = [request EXCEPT ![r].pc = "chosen", ![r].chosen = c]
        PROVE  request'[r].pc = "chosen" /\ \A o \in Requests : o # r => request'[o] = request[o]
    <3>1. PICK old \in Request : old = request[r]
      BY <1>1
    <3>2. request'[r] = [old EXCEPT !.pc = "chosen", !.chosen = c]
          /\ \A o \in Requests : o # r => request'[o] = request[o]
      BY <1>1, <2>2, <3>1
    <3> QED  BY <3>1, <3>2 DEF Request
  <2> QED  BY <2>1, <2>2, EndMoves
<1>5. CASE Refuse(r) \/ SignOut(r)
  BY <1>5, EndMoves DEF Refuse, SignOut
<1>6. CASE SignIn(r) \/ CommitChange(r)
  BY <1>6, EndMoves DEF SignIn, CommitChange
<1>7. CASE TakeCode(r) \/ RefuseCode(r)
  BY <1>7, EndMoves DEF TakeCode, RefuseCode
<1> QED  BY <1>2, <1>3, <1>4, <1>5, <1>6, <1>7

LEMMA PlainStepKeeps ==
    ASSUME Core, SessionInv, mix.form, mix' = mix, NEW r \in Requests, PlainStep(r)
    PROVE  Core'
<1>1. /\ form' = form /\ call' = call /\ gate' = gate /\ sending' = sending /\ sent' = sent
      /\ Resolve(r) \/ Refuse(r) \/ CheckPassword(r) \/ SignIn(r) \/ CommitChange(r) \/ SignOut(r)
           \/ Choose(r) \/ TakeCode(r) \/ RefuseCode(r)
  BY DEF PlainStep, formVars, gateVars
<1>2. /\ \A o \in Requests : o # r => request'[o] = request[o]
      /\ request[r].pc \in {"started", "locked", "verified", "chosen"}
      /\ request'[r].pc \in {"resolved", "verified", "chosen", "ended"}
      /\ request'[r].pc = "resolved" => request[r].pc = "started"
            /\ request'[r].kind = request[r].kind /\ request'[r].phone = request[r].phone
  BY <1>1, InvParts, PlainMoves
<1>3. PhoneKnown(r)
  BY CoreParts, SendParts DEF Holders
<1>4. PhoneKnown(r)'
  BY <1>2, <1>3 DEF PhoneKnown
<1>5. sending' \in [Requests -> [phone : Phones \cup {None}, since : Nat]]
  BY <1>1, CoreParts DEF FormTypeOK
<1>6. ~ Admitted(r) /\ ~ InFlight(r)'
  BY <1>2 DEF Admitted, InFlight
<1> QED  BY <1>1, <1>2, <1>4, <1>5, <1>6, RequestKeeps

\* Whose window it will be is settled when the user is locked.
LEMMA LockPhoneKeeps ==
    ASSUME Core, SessionInv, mix.form, mix' = mix, NEW r \in Requests, LockPhone(r)
    PROVE  Core'
<1>1. PICK old \in Request : old = request[r]
  BY InvParts
<1>2. PICK phone : phone = IF old.user # None /\ bound[old.user] # None THEN bound[old.user]
                           ELSE old.phone
  OBVIOUS
<1>3. /\ form' = form /\ call' = call /\ gate' = gate /\ sent' = sent /\ old.pc = "resolved"
      /\ sending' = IF Sends(old.kind) THEN [sending EXCEPT ![r].phone = phone] ELSE sending
  BY <1>1, <1>2 DEF LockPhone, Lock, formVars
<1>4. PICK can : request' = [request EXCEPT ![r].pc = "locked", ![r].can = can]
  BY DEF LockPhone, Lock
<1>5. /\ request'[r] = [old EXCEPT !.pc = "locked", !.can = can]
      /\ \A o \in Requests : o # r => request'[o] = request[o]
  BY <1>1, <1>4, InvParts
<1>6. request'[r].pc = "locked" /\ request'[r].kind = old.kind
  BY <1>5 DEF Request
<1>7. PhoneKnown(r)
  BY CoreParts, SendParts DEF Holders
<1>8. phone \in Phones \cup {None} /\ (Sends(old.kind) => phone # None)
  <2>1. old.phone \in Phones \cup {None} /\ old.user \in Users \cup {None}
    BY DEF Request
  <2>2. old.user # None => bound[old.user] \in Phones \cup {None}
    BY <2>1, InvParts
  <2> QED  BY <1>1, <1>2, <1>3, <1>7, <2>1, <2>2 DEF PhoneKnown
<1>9. sending \in [Requests -> [phone : Phones \cup {None}, since : Nat]]
  BY CoreParts DEF FormTypeOK
<1>10. /\ sending' \in [Requests -> [phone : Phones \cup {None}, since : Nat]]
       /\ \A o \in Requests : o # r => sending'[o] = sending[o]
       /\ Sends(old.kind) => sending'[r].phone = phone
  BY <1>3, <1>8, <1>9
<1>11. PhoneKnown(r)'
  BY <1>6, <1>8, <1>10 DEF PhoneKnown
<1>12. ~ Admitted(r) /\ ~ InFlight(r)'
  BY <1>1, <1>3, <1>6 DEF Admitted, InFlight
<1> QED  BY <1>3, <1>5, <1>10, <1>11, <1>12, RequestKeeps

\* A step of a request that has the window of its number.
LEMMA CodeSentKeeps ==
    ASSUME Core, mix.form, mix' = mix, NEW r \in Requests, InFlight(r),
           form' = form, call' = call, sending' = sending,
           \A o \in Requests : o # r => request'[o] = request[o],
           \/ /\ request[r].pc = "issuing" /\ request'[r].pc = "issued"
              /\ request'[r].kind = request[r].kind /\ gate' = gate /\ sent' = CodeSent(r)
           \/ /\ request'[r].pc = "ended"
              /\ gate' = [gate EXCEPT !.broken = @ \cup {sending[r].phone}]
              /\ sent' = sent \/ (request[r].pc = "issuing" /\ sent' = CodeSent(r))
    PROVE  Core'
<1>1. sending[r].phone \in Phones
  BY CoreParts, SendParts DEF Holders, Sender
<1>2. PICK p \in Phones : p = sending[r].phone
  BY <1>1
<1>3. gate \in Gate /\ gate.now \in Nat
  BY CoreParts, GateTypes
<1>4. /\ gate' \in Gate /\ gate'.windows = gate.windows /\ gate'.last = gate.last
      /\ gate'.now = gate.now /\ gate'.captchas = gate.captchas /\ gate'.late = gate.late
      /\ gate' = gate \/ gate'.broken = gate.broken \cup {p}
  <2>1. [gate EXCEPT !.broken = @ \cup {p}] \in Gate
    BY <1>3 DEF Gate
  <2>2. LET g == [gate EXCEPT !.broken = @ \cup {p}] IN
        /\ g.windows = gate.windows /\ g.last = gate.last /\ g.now = gate.now
        /\ g.captchas = gate.captchas /\ g.late = gate.late /\ g.broken = gate.broken \cup {p}
    BY <1>3 DEF Gate
  <2> QED  BY <1>2, <1>3, <2>1, <2>2
<1>5. gate'.broken = gate.broken \cup {p} \/ request'[r].pc = "issued"
  BY <1>2, <1>3 DEF Gate
<1>6. SendInv'
  <2>1. CASE request'[r].pc = "issued" /\ gate' = gate
    BY <2>1, CoreParts, SendingKeeps
  <2>2. CASE request'[r].pc = "ended" /\ gate' = [gate EXCEPT !.broken = @ \cup {sending[r].phone}]
    <3>1. gate'.broken = gate.broken \cup {sending[r].phone}
      BY <1>3, <2>2 DEF Gate
    <3> QED  BY <1>4, <2>2, <3>1, CoreParts, SendingKeeps
  <2> QED  BY <2>1, <2>2
<1>7. sent' \subseteq [by : Requests, phone : Phones, at : Nat]
  <2>1. sent \subseteq [by : Requests, phone : Phones, at : Nat]
    BY CoreParts, GateTypes
  <2>2. [by |-> r, phone |-> p, at |-> gate.now] \in [by : Requests, phone : Phones, at : Nat]
    BY <1>3
  <2>3. CodeSent(r) = sent \cup {[by |-> r, phone |-> p, at |-> gate.now]}
    BY <1>2 DEF CodeSent
  <2> QED  BY <2>1, <2>2, <2>3
<1>8. Undisturbed
  BY <1>3, <1>4 DEF Undisturbed, InFlight
<1>9. CallOpens'
  BY <1>8, CoreParts, CallStays
<1>10. sending' \in [Requests -> [phone : Phones \cup {None}, since : Nat]]
  BY CoreParts DEF FormTypeOK
<1> QED  BY <1>4, <1>6, <1>7, <1>8, <1>9, <1>10, CoreParts, ServerKeeps

\* A code is sent, or it is not; either way the request keeps others out until it ends.
LEMMA IssueCodeKeeps ==
    ASSUME Core, SessionInv, mix.form, mix' = mix, NEW r \in Requests, IssueCode(r)
    PROVE  Core'
<1>1. /\ form' = form /\ call' = call /\ sending' = sending /\ request[r].pc = "issuing"
      /\ \/ request' = [request EXCEPT ![r].pc = "issued"]
         \/ End(r, "error")
      /\ \/ request'[r].pc = "issued" /\ sent' = CodeSent(r) /\ gate' = gate
         \/ /\ request'[r].pc # "issued" /\ sent' = sent
            /\ gate' = [gate EXCEPT !.broken = @ \cup {sending[r].phone}]
  BY DEF IssueCode, Issue, formVars
<1>2. /\ \A o \in Requests : o # r => request'[o] = request[o]
      /\ \/ request'[r].pc = "issued" /\ request'[r].kind = request[r].kind
         \/ request'[r].pc = "ended"
  BY <1>1, InvParts, EndMoves, PcMoves
<1> QED  BY <1>1, <1>2, CodeSentKeeps DEF InFlight

\* What the form will be told of a request that ends.
LEMMA ReplyKeeps ==
    ASSUME Core, Undisturbed, NEW r \in Requests, NEW retryAt \in Nat, NEW t,
           call # NoCall /\ call.request = r => t \in Nat /\ t <= gate'.now,
           call' = Reply(r, retryAt, t), request'[r].pc = "ended",
           \A p \in Phones : gate'.last[p] = r => Opens(gate'.windows[p], retryAt)
    PROVE  /\ CallOpens' /\ call' \in FormCall \cup {NoCall}
           /\ call' # NoCall <=> call # NoCall
           /\ Pending(call') = Pending(call)
<1>1. CASE ~ (call # NoCall /\ call.request = r)
  <2>1. call' = call
    BY <1>1 DEF Reply
  <2> QED  BY <2>1, CoreParts, CallStays
<1>2. CASE call # NoCall /\ call.request = r
  <2>1. PICK c \in FormCall : c = call
    BY <1>2, CoreParts
  <2>2. PICK d : d = [c EXCEPT !.retryAt = retryAt, !.serverTime = t]
    OBVIOUS
  <2>3. call' = d
    BY <1>2, <2>1, <2>2 DEF Reply
  <2>4. /\ d \in FormCall /\ d.kind = c.kind /\ d.phone = c.phone /\ d.phase = c.phase
        /\ d.request = r /\ d.since = c.since /\ d.retryAt = retryAt /\ d.serverTime = t
    BY <1>2, <2>1, <2>2 DEF FormCall
  <2>5. c.since \in Nat /\ gate.now \in Nat /\ gate'.now \in Nat /\ gate.now <= gate'.now
        /\ d # NoCall /\ c # NoCall /\ d.phone \in Phones
    BY <2>1, <2>4, CallTypes, CoreParts, GateTypes DEF Undisturbed
  <2>6. c.phase # "sent" /\ c.since <= gate.now
    BY <1>2, <2>1, CoreParts, AnswerParts, AuthKitConstants DEF CallOpens
  <2>7. CallOpens'
    <3>1. call' \in FormCall /\ call'.phase # "sent" /\ call'.since <= gate'.now
      BY <2>3, <2>4, <2>5, <2>6
    <3>2. request'[call'.request].pc = "ended" /\ call'.serverTime <= gate'.now
      BY <1>2, <2>3, <2>4
    <3>3. gate'.last[call'.phone] = call'.request =>
             Opens(gate'.windows[call'.phone], call'.retryAt)
      BY <2>3, <2>4, <2>5
    <3> QED  BY <3>1, <3>2, <3>3 DEF CallOpens
  <2>8. Pending(call') = Pending(call)
    BY <2>1, <2>3, <2>4, <2>5 DEF Pending
  <2> QED  BY <1>2, <2>3, <2>4, <2>5, <2>7, <2>8
<1> QED  BY <1>1, <1>2

\* The window of one number changes for a request on its way.
LEMMA WindowMoves ==
    ASSUME Core, NEW p \in Phones, NEW w \in Window, NEW r \in Requests, request[r].pc # "ended",
           gate' = [gate EXCEPT !.windows[p] = w, !.last[p] = r],
           \A o \in Requests : o # r => request'[o] = request[o]
    PROVE  /\ Undisturbed
           /\ gate' \in Gate /\ gate'.captchas = gate.captchas /\ gate'.now = gate.now
           /\ gate.now \in Nat /\ gate'.windows[p] = w
           /\ \A q \in Phones : q # p => gate'.last[q] = gate.last[q]
<1>1. gate \in Gate /\ gate.now \in Nat
  BY CoreParts, GateTypes
<1>2. /\ gate' \in Gate /\ gate'.now = gate.now /\ gate'.captchas = gate.captchas
      /\ gate'.windows[p] = w /\ gate'.last[p] = r
      /\ \A q \in Phones : q # p => gate'.windows[q] = gate.windows[q] /\ gate'.last[q] = gate.last[q]
  <2>1. gate' = [gate EXCEPT !.windows[p] = w, !.last[p] = r]
    OBVIOUS
  <2>2. p \in Phones /\ w \in Window /\ r \in Requests
    OBVIOUS
  <2> QED  BY ONLY <1>1, <2>1, <2>2, GateMoves
<1>3. Undisturbed
  BY <1>1, <1>2 DEF Undisturbed
<1> QED  BY <1>1, <1>2, <1>3

\* A request whose window is that of one number was not the last to ask for another one.
LEMMA LastOfOne ==
    ASSUME Core, NEW r \in Requests, NEW p \in Phones, sending[r].phone = p,
           \A q \in Phones : q # p => gate'.last[q] = gate.last[q],
           NEW t, Opens(gate'.windows[p], t)
    PROVE  \A q \in Phones : gate'.last[q] = r => Opens(gate'.windows[q], t)
<1>1. LastAsked
  BY CoreParts, SendParts
<1> SUFFICES ASSUME NEW q \in Phones, gate'.last[q] = r, q # p PROVE FALSE
  OBVIOUS
<1>2. gate.last[q] = r /\ r # None
  BY AuthKitConstants
<1> QED  BY <1>1, <1>2 DEF LastAsked

LEMMA FinishSendKeeps ==
    ASSUME Core, SessionInv, mix.form, mix' = mix, NEW r \in Requests, FinishSend(r)
    PROVE  Core'
<1>1. PICK p : p = sending[r].phone
  OBVIOUS
<1>2. PICK done : done = Finish(gate.windows[p], r, gate.now)
  OBVIOUS
<1>3. /\ form' = form /\ sending' = sending /\ sent' = sent /\ request[r].pc = "issued"
      /\ End(r, "ok") /\ gate' = [gate EXCEPT !.windows[p] = done.window, !.last[p] = r]
      /\ call' = Reply(r, done.retryAt, gate.now)
  BY <1>1, <1>2 DEF FinishSend, Remember
<1>4. request'[r].pc = "ended" /\ \A o \in Requests : o # r => request'[o] = request[o]
  BY <1>3, InvParts, EndMoves
<1>5. /\ SendInv' /\ p \in Phones
      /\ done.window \in Window /\ done.retryAt \in Nat /\ Opens(done.window, done.retryAt)
  BY <1>1, <1>2, <1>3, <1>4, CoreParts, FinishKeeps
<1>6. PICK w \in Window : w = done.window
  BY <1>5
<1>7. /\ Undisturbed /\ gate' \in Gate /\ gate'.captchas = gate.captchas /\ gate'.now = gate.now
      /\ gate.now \in Nat /\ gate'.windows[p] = w
      /\ \A q \in Phones : q # p => gate'.last[q] = gate.last[q]
  <2>1. gate' = [gate EXCEPT !.windows[p] = w, !.last[p] = r] /\ request[r].pc # "ended"
    BY <1>3, <1>6
  <2>2. p \in Phones
    BY <1>5
  <2> QED  BY ONLY Core, <1>4, <2>1, <2>2, r \in Requests, w \in Window, WindowMoves, ZenonT(60)
<1>8. \A q \in Phones : gate'.last[q] = r => Opens(gate'.windows[q], done.retryAt)
  BY <1>1, <1>5, <1>6, <1>7, LastOfOne
<1>9. /\ CallOpens' /\ call' \in FormCall \cup {NoCall} /\ (call' # NoCall <=> call # NoCall)
      /\ Pending(call') = Pending(call)
  BY <1>3, <1>4, <1>5, <1>7, <1>8, ReplyKeeps
<1>10. /\ sending' \in [Requests -> [phone : Phones \cup {None}, since : Nat]]
       /\ sent' \subseteq [by : Requests, phone : Phones, at : Nat]
  BY <1>3, CoreParts DEF FormTypeOK
<1> QED  BY <1>3, <1>5, <1>7, <1>9, <1>10, ServerKeeps

LEMMA BreakRequestKeeps ==
    ASSUME Core, SessionInv, mix.form, mix' = mix, NEW r \in Requests, BreakRequest(r)
    PROVE  Core'
<1>1. /\ form' = form /\ call' = call /\ sending' = sending /\ request[r].pc \notin {"new", "ended"}
      /\ End(r, "error")
  BY DEF BreakRequest, Break
<1>2. request'[r].pc = "ended" /\ \A o \in Requests : o # r => request'[o] = request[o]
  BY <1>1, InvParts, EndMoves
<1>3. CASE InFlight(r)
  <2>1. /\ gate' = [gate EXCEPT !.broken = @ \cup {sending[r].phone}]
        /\ sent' = sent \/ (request[r].pc = "issuing" /\ sent' = CodeSent(r))
    BY <1>3 DEF BreakRequest
  <2> QED  BY <1>1, <1>2, <1>3, <2>1, CodeSentKeeps
<1>4. CASE ~ InFlight(r)
  <2>1. gate' = gate /\ sent' = sent
    BY <1>4 DEF BreakRequest
  <2>2. PhoneKnown(r)'
    BY <1>2 DEF PhoneKnown
  <2>3. sending' \in [Requests -> [phone : Phones \cup {None}, since : Nat]]
    BY <1>1, CoreParts DEF FormTypeOK
  <2>4. ~ Admitted(r) /\ ~ InFlight(r)'
    BY <1>1, <1>2, <1>4 DEF Admitted, InFlight
  <2> QED  BY <1>1, <1>2, <2>1, <2>2, <2>3, <2>4, RequestKeeps
<1> QED  BY <1>3, <1>4

\* A request in its window gets the connection it waits for.
LEMMA ConnectSendKeeps ==
    ASSUME Core, SessionInv, mix.form, mix' = mix, NEW r \in Requests, ConnectSend(r)
    PROVE  Core'
<1>1. /\ form' = form /\ call' = call /\ gate' = gate /\ sending' = sending /\ sent' = sent
      /\ request[r].pc = "reserved" /\ request' = [request EXCEPT ![r].pc = "issuing"]
  BY DEF ConnectSend, BeginIssue, formVars, gateVars
<1>2. /\ request'[r].pc = "issuing" /\ request'[r].kind = request[r].kind
      /\ \A o \in Requests : o # r => request'[o] = request[o]
  BY <1>1, InvParts, PcMoves
<1>3. \A o \in Requests : PhoneKnown(o)
  BY CoreParts, SendParts DEF Holders
<1>4. \A o \in Requests : PhoneKnown(o)' /\ (InFlight(o)' => InFlight(o))
  BY <1>1, <1>2, <1>3 DEF PhoneKnown, InFlight
<1>5. \A o \in Requests :
         /\ sending'[o] = sending[o] /\ request'[o].kind = request[o].kind
         /\ \/ request'[o].pc = request[o].pc
            \/ request[o].pc = "reserved" /\ request'[o].pc = "issuing"
  BY <1>1, <1>2
<1>6. SendInv'
  BY <1>1, <1>4, <1>5, CoreParts, CalmKeeps
<1>7. Undisturbed
  BY <1>1, <1>2, CoreParts, GateTypes DEF Undisturbed
<1>8. CallOpens'
  BY <1>1, <1>7, CoreParts, CallStays
<1>9. /\ sending' \in [Requests -> [phone : Phones \cup {None}, since : Nat]]
      /\ sent' \subseteq [by : Requests, phone : Phones, at : Nat]
  BY <1>1, CoreParts DEF FormTypeOK
<1> QED  BY <1>1, <1>6, <1>7, <1>8, <1>9, CoreParts, ServerKeeps

LEMMA RebindKeepsForm ==
    ASSUME Core, mix.form, mix' = mix, RebindPhone
    PROVE  Core'
<1>1. /\ form' = form /\ call' = call /\ gate' = gate /\ sending' = sending /\ sent' = sent
      /\ request' = request
  BY DEF RebindPhone, Rebind, gateVars
<1>2. \A o \in Requests : PhoneKnown(o)
  BY CoreParts, SendParts DEF Holders
<1>3. \A o \in Requests : PhoneKnown(o)' /\ (InFlight(o)' => InFlight(o))
  BY <1>1, <1>2 DEF PhoneKnown, InFlight
<1>4. SendInv'
  BY <1>1, <1>3, CoreParts, CalmKeeps
<1>5. Undisturbed
  BY <1>1, CoreParts, GateTypes DEF Undisturbed
<1>6. CallOpens'
  BY <1>1, <1>5, CoreParts, CallStays
<1>7. /\ sending' \in [Requests -> [phone : Phones \cup {None}, since : Nat]]
      /\ sent' \subseteq [by : Requests, phone : Phones, at : Nat]
  BY <1>1, CoreParts DEF FormTypeOK
<1> QED  BY <1>1, <1>4, <1>5, <1>6, <1>7, CoreParts, ServerKeeps

\* Who asks for a code is turned away, answered as if it were sent, or let in.
LEMMA ReserveSendKeeps ==
    ASSUME Core, SessionInv, mix.form, mix' = mix, NEW r \in Requests, ReserveSend(r)
    PROVE  Core'
<1>1. PICK p : p = sending[r].phone
  OBVIOUS
<1>2. PICK asked : asked = Reserve(gate.windows[p], r, gate.now)
  OBVIOUS
<1>3. PICK done : done = Finish(asked.window, r, gate.now)
  OBVIOUS
<1>4. /\ form' = form /\ sent' = sent /\ request[r].pc = "locked" /\ Sends(request[r].kind)
      /\ \/ /\ ~ asked.allowed /\ End(r, "refused") /\ sending' = sending
            /\ gate' = [gate EXCEPT !.windows[p] = asked.window, !.last[p] = r]
            /\ call' = Reply(r, asked.retryAt, call.since)
         \/ /\ asked.allowed /\ End(r, "ok") /\ sending' = sending
            /\ gate' = [gate EXCEPT !.windows[p] = done.window, !.last[p] = r]
            /\ call' = Reply(r, done.retryAt, gate.now)
         \/ /\ asked.allowed /\ request' = [request EXCEPT ![r].pc = "reserved"]
            /\ gate' = [gate EXCEPT !.windows[p] = asked.window, !.last[p] = r]
            /\ sending' = [sending EXCEPT ![r].since = gate.now]
            /\ call' = call
  BY <1>1, <1>2, <1>3 DEF ReserveSend, RefuseSend, AnswerAlike, EnterWindow
<1>5. PhoneKnown(r) /\ p \in Phones
  <2>1. PhoneKnown(r)
    BY CoreParts, SendParts DEF Holders
  <2> QED  BY <1>1, <1>4, <2>1, CoreParts, GateTypes DEF PhoneKnown
<1>6. /\ sending \in [Requests -> [phone : Phones \cup {None}, since : Nat]]
      /\ sent \subseteq [by : Requests, phone : Phones, at : Nat] /\ gate.now \in Nat
  BY CoreParts, GateTypes DEF FormTypeOK
<1>7. ASSUME NEW answer, answer.window \in Window, answer.retryAt \in Nat,
             Opens(answer.window, answer.retryAt), SendInv', sending' = sending,
             \E result \in {"ok", "refused"} : End(r, result),
             gate' = [gate EXCEPT !.windows[p] = answer.window, !.last[p] = r],
             NEW t, call # NoCall /\ call.request = r => t \in Nat /\ t <= gate.now,
             call' = Reply(r, answer.retryAt, t)
      PROVE  Core'
  <2>1. request'[r].pc = "ended" /\ \A o \in Requests : o # r => request'[o] = request[o]
    BY <1>7, InvParts, EndMoves
  <2>2. PICK w \in Window : w = answer.window
    BY <1>7
  <2>3. /\ Undisturbed /\ gate' \in Gate /\ gate'.captchas = gate.captchas /\ gate'.now = gate.now
        /\ gate'.windows[p] = w /\ \A q \in Phones : q # p => gate'.last[q] = gate.last[q]
    <3>1. gate' = [gate EXCEPT !.windows[p] = w, !.last[p] = r] /\ request[r].pc # "ended"
      BY <1>4, <1>7, <2>2
    <3>2. p \in Phones
      BY <1>5
    <3> QED  BY ONLY Core, <2>1, <3>1, <3>2, r \in Requests, w \in Window, WindowMoves, ZenonT(60)
  <2>4. \A q \in Phones : gate'.last[q] = r => Opens(gate'.windows[q], answer.retryAt)
    BY <1>1, <1>5, <1>7, <2>2, <2>3, LastOfOne
  <2>5. call # NoCall /\ call.request = r => t \in Nat /\ t <= gate'.now
    BY <1>7, <2>3
  <2>6. /\ CallOpens' /\ call' \in FormCall \cup {NoCall} /\ (call' # NoCall <=> call # NoCall)
        /\ Pending(call') = Pending(call)
    BY <1>7, <2>1, <2>3, <2>4, <2>5, ReplyKeeps
  <2> QED  BY <1>4, <1>6, <1>7, <2>3, <2>6, ServerKeeps
<1>8. CASE /\ ~ asked.allowed /\ End(r, "refused") /\ sending' = sending
           /\ gate' = [gate EXCEPT !.windows[p] = asked.window, !.last[p] = r]
           /\ call' = Reply(r, asked.retryAt, call.since)
  <2>1. request'[r].pc = "ended" /\ \A o \in Requests : o # r => request'[o] = request[o]
    BY <1>8, InvParts, EndMoves
  <2>2. /\ SendInv' /\ asked.window \in Window /\ asked.retryAt \in Nat
        /\ Opens(asked.window, asked.retryAt)
    BY <1>1, <1>2, <1>4, <1>5, <1>8, <2>1, CoreParts, RefusalKeeps
  <2>3. call # NoCall /\ call.request = r => call.since \in Nat /\ call.since <= gate.now
    BY CoreParts, CallTypes, AnswerParts DEF CallOpens
  <2> QED  BY <1>7, <1>8, <2>2, <2>3
<1>9. CASE /\ asked.allowed /\ End(r, "ok") /\ sending' = sending
           /\ gate' = [gate EXCEPT !.windows[p] = done.window, !.last[p] = r]
           /\ call' = Reply(r, done.retryAt, gate.now)
  <2>1. request'[r].pc = "ended" /\ \A o \in Requests : o # r => request'[o] = request[o]
    BY <1>9, InvParts, EndMoves
  <2>2. /\ SendInv' /\ done.window \in Window /\ done.retryAt \in Nat
        /\ Opens(done.window, done.retryAt)
    <3>1. FormTypeOK /\ SendInv
      BY CoreParts
    <3>2. /\ asked = Reserve(gate.windows[p], r, gate.now) /\ asked.allowed
          /\ done = Finish(asked.window, r, gate.now)
          /\ gate' = [gate EXCEPT !.windows[p] = done.window, !.last[p] = r]
      BY <1>2, <1>3, <1>9
    <3>3. /\ request[r].pc = "locked" /\ sending[r].phone = p /\ sending' = sending /\ sent' = sent
          /\ mix.form /\ mix' = mix /\ p \in Phones /\ r \in Requests
      BY <1>1, <1>4, <1>5, <1>9
    <3> QED  BY ONLY <2>1, <3>1, <3>2, <3>3, AlikeKeeps, ZenonT(60)
  <2>3. gate.now \in Nat /\ gate.now <= gate.now
    BY <1>6
  <2> QED  BY <1>7, <1>9, <2>2, <2>3
<1>10. CASE /\ asked.allowed /\ request' = [request EXCEPT ![r].pc = "reserved"]
            /\ gate' = [gate EXCEPT !.windows[p] = asked.window, !.last[p] = r]
            /\ sending' = [sending EXCEPT ![r].since = gate.now]
            /\ call' = call
  <2>1. /\ request'[r].pc = "reserved" /\ request'[r].kind = request[r].kind
        /\ \A o \in Requests : o # r => request'[o] = request[o]
    BY <1>10, InvParts, PcMoves
  <2>2. /\ sending' \in [Requests -> [phone : Phones \cup {None}, since : Nat]]
        /\ sending'[r].phone = p /\ sending'[r].since = gate.now
        /\ \A o \in Requests : o # r => sending'[o] = sending[o]
    BY <1>1, <1>6, <1>10
  <2>3. SendInv'
    <3>1. FormTypeOK /\ SendInv
      BY CoreParts
    <3>2. /\ Reserve(gate.windows[p], r, gate.now).allowed
          /\ gate' = [gate EXCEPT !.windows[p] = Reserve(gate.windows[p], r, gate.now).window,
                                  !.last[p] = r]
      BY <1>2, <1>10
    <3>3. /\ request[r].pc = "locked" /\ Sends(request[r].kind) /\ sending[r].phone = p
          /\ sent' = sent /\ mix.form /\ mix' = mix /\ p \in Phones /\ r \in Requests
          /\ sending'[r].phone = p /\ sending'[r].since = gate.now
          /\ \A o \in Requests : o # r => request'[o] = request[o] /\ sending'[o] = sending[o]
      BY <1>1, <1>4, <1>5, <2>1, <2>2
    <3> QED  BY ONLY <2>1, <3>1, <3>2, <3>3, BeginKeeps, ZenonT(60)
  <2>4. PICK w \in Window : w = asked.window
    <3>1. Sound(gate.windows[p], gate.now)
      BY <1>5, CoreParts, SendParts, WindowSound DEF Windows
    <3>2. Sound(asked.window, gate.now)
      BY <1>2, <1>6, <1>10, <3>1, Allowed
    <3> QED  BY <3>2 DEF Sound
  <2>5. /\ Undisturbed /\ gate' \in Gate /\ gate'.captchas = gate.captchas /\ gate'.now = gate.now
    <3>1. gate' = [gate EXCEPT !.windows[p] = w, !.last[p] = r] /\ request[r].pc # "ended"
      BY <1>4, <1>10, <2>4
    <3>2. p \in Phones
      BY <1>5
    <3> QED  BY ONLY Core, <2>1, <3>1, <3>2, r \in Requests, w \in Window, WindowMoves, ZenonT(60)
  <2>6. CallOpens'
    BY <1>10, <2>5, CoreParts, CallStays
  <2> QED  BY <1>4, <1>6, <1>10, <2>2, <2>3, <2>5, <2>6, CoreParts, ServerKeeps
<1> QED  BY <1>4, <1>8, <1>9, <1>10

-----------------------------------------------------------------------------
(* New requests, captchas and time                                          *)

\* A new request that sends says to which number.
LEMMA StartMoves ==
    ASSUME TypeOK, NEW r \in Requests, NEW kind, Start(r, kind)
    PROVE  /\ request[r].pc = "new" /\ request'[r].pc = "started" /\ request'[r].kind = kind
           /\ Sends(kind) => request'[r].phone # None
           /\ \A o \in Requests : o # r => request'[o] = request[o]
<1>1. PICK u \in Users \cup {None}, p \in Phones \cup {None},
           s \in {t.id : t \in sessions} \cup {None},
           secret \in {password[v] : v \in Users} \cup {0},
           code \in {c \in Requests : challenge[c].status # "absent"} \cup {None} :
        /\ Sends(kind) => p # None
        /\ request' = [request EXCEPT ![r] = Started(kind, u, p, s, secret, code)]
  <2>1. PICK u \in Users \cup {None}, p \in Phones \cup {None},
             s \in {t.id : t \in sessions} \cup {None},
             secret \in {password[v] : v \in Users} \cup {0},
             code \in {c \in Requests : challenge[c].status # "absent"} \cup {None} :
          /\ Names(kind, u, p, s)
          /\ request' = [request EXCEPT ![r] = Started(kind, u, p, s, secret, code)]
    BY Zenon DEF Start
  <2>2. Sends(kind) => p # None
    BY <2>1 DEF Sends, Names
  <2> QED  BY <2>1, <2>2, Zenon
<1>3. PICK new \in Request : new = NewRequest
  BY RequestTypes
<1>4. /\ request'[r] = [new EXCEPT !.pc = "started", !.kind = kind, !.user = u, !.phone = p,
                                   !.session = s, !.secret = secret, !.code = code]
      /\ \A o \in Requests : o # r => request'[o] = request[o]
  BY <1>1, <1>3 DEF Started, TypeOK
<1>5. request'[r].pc = "started" /\ request'[r].kind = kind /\ request'[r].phone = p
  BY <1>3, <1>4 DEF Request
<1>6. request[r].pc = "new"
  BY DEF Start
<1> QED  BY <1>1, <1>4, <1>5, <1>6

LEMMA StartKeepsSends ==
    ASSUME Core, SessionInv, mix.form, mix' = mix, NEW r \in Requests, NEW kind, Start(r, kind),
           gate'.now = gate.now, gate'.windows = gate.windows, gate'.last = gate.last,
           gate'.broken = gate.broken, gate'.late = gate.late, sending' = sending, sent' = sent
    PROVE  SendInv' /\ Undisturbed
<1>1. /\ request[r].pc = "new" /\ request'[r].pc = "started" /\ request'[r].kind = kind
      /\ Sends(kind) => request'[r].phone # None
      /\ \A o \in Requests : o # r => request'[o] = request[o]
  BY InvParts, StartMoves
<1>2. \A o \in Requests : PhoneKnown(o)
  BY CoreParts, SendParts DEF Holders
<1>3. \A o \in Requests : PhoneKnown(o)' /\ (InFlight(o)' => InFlight(o))
  BY <1>1, <1>2 DEF PhoneKnown, InFlight
<1>4. SendInv'
  <2>1. \A o \in Requests : Admitted(o) => request'[o] = request[o]
    BY <1>1 DEF Admitted, InFlight
  <2> QED  BY <1>3, <2>1, CoreParts, CalmKeeps
<1>5. Undisturbed
  BY <1>1, CoreParts, GateTypes DEF Undisturbed
<1> QED  BY <1>4, <1>5

LEMMA OtherStartKeeps ==
    ASSUME Core, SessionInv, mix.form, mix' = mix, NEW r \in Requests, OtherStart(r)
    PROVE  Core'
<1>1. PICK kind : Start(r, kind)
  BY DEF OtherStart
<1>2. form' = form /\ call' = call /\ gate' = gate /\ sending' = sending /\ sent' = sent
  BY DEF OtherStart, gateVars
<1>3. SendInv' /\ Undisturbed
  BY <1>1, <1>2, StartKeepsSends
<1>4. CallOpens'
  BY <1>2, <1>3, CoreParts, CallStays
<1>5. /\ sending' \in [Requests -> [phone : Phones \cup {None}, since : Nat]]
      /\ sent' \subseteq [by : Requests, phone : Phones, at : Nat]
  BY <1>2, CoreParts DEF FormTypeOK
<1> QED  BY <1>2, <1>3, <1>4, <1>5, CoreParts, ServerKeeps

\* Any step, from what it makes of the parts of Core.
LEMMA StepKeeps ==
    ASSUME Core, mix' = mix, form' \in FormState, call' \in FormCall \cup {NoCall},
           form'.busy <=> call' # NoCall, gate' \in Gate, sending' = sending, sent' = sent,
           Serves(form', gate'.captchas, gate'.now),
           Shows(form', Pending(call'), gate'.captchas, gate'.now),
           AnswersOpen', SendInv'
    PROVE  Core'
<1>1. FormTypeOK'
  BY CoreParts DEF FormTypeOK
<1>2. CaptchasAreServed'
  BY CaptchaFromParts
<1> QED  BY <1>1, <1>2 DEF Core

\* The call is answered by the gate, or goes on as a request.
LEMMA CallMoves ==
    ASSUME Core, NEW c \in FormCall, c = call,
           NEW d, \/ \E result \in {"limited", "captcha"}, retryAt \in Nat, t \in Nat :
                        d = [c EXCEPT !.phase = "answered", !.result = result,
                                      !.retryAt = retryAt, !.serverTime = t]
                  \/ \E r \in Requests :
                        d = [c EXCEPT !.phase = "served", !.request = r, !.since = gate.now]
    PROVE  /\ d \in FormCall /\ d # NoCall /\ d.phase # "sent" /\ Pending(d) = Pending(c)
           /\ d.since = c.since \/ d.since = gate.now
           /\ \/ d.request = c.request
              \/ d.retryAt = c.retryAt
<1>1. gate.now \in Nat
  BY CoreParts, GateTypes
<1>2. d \in FormCall /\ d.kind = c.kind /\ d.phase # "sent"
      /\ (d.since = c.since \/ d.since = gate.now) /\ (d.request = c.request \/ d.retryAt = c.retryAt)
  <2>1. CASE \E result \in {"limited", "captcha"}, retryAt \in Nat, t \in Nat :
                d = [c EXCEPT !.phase = "answered", !.result = result,
                              !.retryAt = retryAt, !.serverTime = t]
    BY <2>1 DEF FormCall
  <2>2. CASE \E r \in Requests :
                d = [c EXCEPT !.phase = "served", !.request = r, !.since = gate.now]
    BY <1>1, <2>2 DEF FormCall
  <2> QED  BY <2>1, <2>2
<1>3. d # NoCall /\ c # NoCall
  BY <1>2, CallTypes
<1> QED  BY <1>2, <1>3 DEF Pending

LEMMA TurnAwayKeeps ==
    ASSUME Core, mix.form, mix' = mix, TurnAway
    PROVE  Core'
<1>1. /\ form' = form /\ gate' = gate /\ sending' = sending /\ sent' = sent /\ request' = request
      /\ call # NoCall /\ call.phase = "sent"
      /\ call' = Answered("limited", gate.now + SendInterval, gate.now)
  BY DEF TurnAway, vars, gateVars
<1>2. PICK c \in FormCall : c = call
  BY <1>1, CoreParts
<1>3. PICK d : d = call'
  OBVIOUS
<1>4. gate.now \in Nat /\ gate.now + SendInterval \in Nat
  BY CoreParts, GateTypes, GateNumbers
<1>5. d = [c EXCEPT !.phase = "answered", !.result = "limited",
                    !.retryAt = gate.now + SendInterval, !.serverTime = gate.now]
  BY <1>1, <1>2, <1>3 DEF Answered
<1>6. /\ d \in FormCall /\ d # NoCall /\ d.phase # "sent" /\ Pending(d) = Pending(c)
      /\ d.since = c.since \/ d.since = gate.now
  <2>1. \E result \in {"limited", "captcha"}, retryAt \in Nat, t \in Nat :
           d = [c EXCEPT !.phase = "answered", !.result = result,
                         !.retryAt = retryAt, !.serverTime = t]
    BY <1>4, <1>5
  <2> QED  BY ONLY Core, c \in FormCall, <1>2, <2>1, CallMoves, ZenonT(60)
<1>7. d.request = c.request
  BY <1>5 DEF FormCall
<1>8. c.request = None /\ c.since <= gate.now
  BY <1>1, <1>2, CoreParts, AnswerParts DEF CallOpens
<1>9. CallOpens'
  BY <1>1, <1>3, <1>4, <1>6, <1>7, <1>8, NewCallOpens
<1>10. Undisturbed
  BY <1>1, <1>4 DEF Undisturbed
<1>11. \A o \in Requests : PhoneKnown(o)
  BY CoreParts, SendParts DEF Holders
<1>12. \A o \in Requests : PhoneKnown(o)' /\ (InFlight(o)' => InFlight(o))
  BY <1>1, <1>11 DEF PhoneKnown, InFlight
<1>13. SendInv'
  BY <1>1, <1>12, CoreParts, CalmKeeps
<1>14. /\ sending' \in [Requests -> [phone : Phones \cup {None}, since : Nat]]
       /\ sent' \subseteq [by : Requests, phone : Phones, at : Nat]
  BY <1>1, CoreParts DEF FormTypeOK
<1>15. call' \in FormCall \cup {NoCall} /\ (call' # NoCall <=> call # NoCall)
       /\ Pending(call') = Pending(call)
  BY <1>1, <1>2, <1>3, <1>6
<1> QED  BY <1>1, <1>9, <1>10, <1>13, <1>14, <1>15, CoreParts, ServerKeeps

\* While a call hands in a captcha, no other one is under way.
LEMMA NothingUnderWay ==
    ASSUME Core, Pending(call), NEW captchas, NEW now
    PROVE  Serves(form, captchas, now) /\ Shows(form, TRUE, captchas, now)
<1>1. PICK f \in FormState : f = form
  BY CoreParts
<1>2. Serves(f, gate.captchas, gate.now) /\ Shows(f, TRUE, gate.captchas, gate.now)
  BY <1>1, CoreParts DEF Shows
<1>3. f.queue = << >>
  BY <1>2 DEF Serves, Shows
<1>4. Serves(f, captchas, now)
  BY <1>2, <1>3 DEF Serves
<1>5. Shows(f, TRUE, captchas, now)
  BY <1>2 DEF Shows
<1> QED  BY <1>1, <1>4, <1>5

LEMMA AdmitKeeps ==
    ASSUME Core, SessionInv, mix.form, mix' = mix, Admit
    PROVE  Core'
<1>1. PICK taken : taken = Consume(gate.captchas, form.cookie, call.purpose, call.captcha,
                                   call.right, gate.now)
  OBVIOUS
<1>2. /\ form' = form /\ sending' = sending /\ sent' = sent
      /\ call # NoCall /\ call.phase = "sent"
      /\ gate' = IF Pending(call) THEN [gate EXCEPT !.captchas = taken.captchas] ELSE gate
      /\ \/ call' = Answered("captcha", 0, gate.now) /\ UNCHANGED vars
         \/ \E r \in Requests :
              /\ Start(r, call.kind)
              /\ call' = [call EXCEPT !.phase = "served", !.request = r, !.since = gate.now]
  BY <1>1 DEF Admit, Pending
<1>3. PICK c \in FormCall : c = call
  BY <1>2, CoreParts
<1>4. PICK d : d = call'
  OBVIOUS
<1>5. gate \in Gate /\ gate.now \in Nat
  BY CoreParts, GateTypes
<1>6. /\ gate' \in Gate /\ gate'.now = gate.now /\ gate'.windows = gate.windows
      /\ gate'.last = gate.last /\ gate'.broken = gate.broken /\ gate'.late = gate.late
      /\ Pending(call) \/ gate'.captchas = gate.captchas
  <2>1. PICK some \in SUBSET Captcha : some = taken.captchas
    BY <1>1, <1>5 DEF Consume, Gate
  <2>2. LET g == [gate EXCEPT !.captchas = some] IN
        /\ g \in Gate /\ g.now = gate.now /\ g.windows = gate.windows
        /\ g.last = gate.last /\ g.broken = gate.broken /\ g.late = gate.late
    BY <1>5 DEF Gate
  <2> QED  BY <1>2, <1>5, <2>1, <2>2
<1>7. \/ \E result \in {"limited", "captcha"}, retryAt \in Nat, t \in Nat :
            d = [c EXCEPT !.phase = "answered", !.result = result,
                          !.retryAt = retryAt, !.serverTime = t]
      \/ \E r \in Requests : d = [c EXCEPT !.phase = "served", !.request = r, !.since = gate.now]
  <2>1. CASE call' = Answered("captcha", 0, gate.now)
    BY <1>3, <1>4, <1>5, <2>1 DEF Answered
  <2>2. ASSUME NEW r \in Requests,
               call' = [call EXCEPT !.phase = "served", !.request = r, !.since = gate.now]
        PROVE  d = [c EXCEPT !.phase = "served", !.request = r, !.since = gate.now]
    BY <1>3, <1>4, <2>2
  <2> QED  BY <1>2, <2>1, <2>2
<1>8. /\ d \in FormCall /\ d # NoCall /\ d.phase # "sent" /\ Pending(d) = Pending(c)
      /\ d.since = c.since \/ d.since = gate.now
      /\ d.request = c.request \/ d.retryAt = c.retryAt
  BY ONLY Core, c \in FormCall, <1>3, <1>7, CallMoves, ZenonT(60)
<1>9. c.request = None /\ c.retryAt = 0 /\ c.since <= gate.now
  BY <1>2, <1>3, CoreParts, AnswerParts DEF CallOpens
<1>10. CallOpens'
  BY <1>4, <1>5, <1>6, <1>8, <1>9, NewCallOpens
<1>11. SendInv' /\ Undisturbed
  <2>1. CASE UNCHANGED vars
    <3>1. request' = request
      BY <2>1 DEF vars
    <3>2. \A o \in Requests : PhoneKnown(o)
      BY CoreParts, SendParts DEF Holders
    <3>3. \A o \in Requests : PhoneKnown(o)' /\ (InFlight(o)' => InFlight(o))
      BY <1>2, <3>1, <3>2 DEF PhoneKnown, InFlight
    <3>4. SendInv'
      BY <1>2, <1>6, <3>1, <3>3, CoreParts, CalmKeeps
    <3> QED  BY <1>5, <1>6, <3>1, <3>4 DEF Undisturbed
  <2>2. ASSUME NEW r \in Requests, Start(r, call.kind) PROVE SendInv' /\ Undisturbed
    BY <1>2, <1>6, <2>2, StartKeepsSends
  <2> QED  BY <1>2, <2>1, <2>2
<1>12. AnswersOpen'
  BY <1>2, <1>10, <1>11, CoreParts, AnswersStay
<1>13. Serves(form', gate'.captchas, gate'.now) /\ Shows(form', Pending(call'), gate'.captchas, gate'.now)
  <2>1. Pending(call') = Pending(call)
    BY <1>3, <1>4, <1>8
  <2>2. CASE Pending(call)
    <3>1. Pending(call) = TRUE
      BY <2>2 DEF Pending
    <3>2. Serves(form, gate'.captchas, gate'.now) /\ Shows(form, TRUE, gate'.captchas, gate'.now)
      BY <2>2, NothingUnderWay
    <3> QED  BY <1>2, <2>1, <3>1, <3>2
  <2>3. CASE ~ Pending(call)
    BY <1>2, <1>6, <2>1, <2>3, CoreParts
  <2> QED  BY <2>2, <2>3
<1>14. form' \in FormState /\ call' \in FormCall \cup {NoCall} /\ (form'.busy <=> call' # NoCall)
  BY <1>2, <1>4, <1>8, CoreParts
<1> QED  BY <1>2, <1>6, <1>11, <1>12, <1>13, <1>14, StepKeeps

\* Time passes: codes, captchas, fences and windows grow old together.
LEMMA TimeKeeps ==
    ASSUME Core, mix' = mix, Tick
    PROVE  Core'
<1>1. /\ request' = request /\ sending' = sending /\ sent' = sent /\ call' = call /\ form' = form
      /\ gate' = [gate EXCEPT !.now = @ + 1,
                              !.captchas = {c \in @ : c.expires > gate.now + 1},
                              !.late = @ \cup Overdue(gate.now + 1)]
  BY DEF Tick, vars, formVars
<1>2. gate \in Gate /\ gate.now \in Nat
  BY CoreParts, GateTypes
<1>3. /\ gate' \in Gate /\ gate'.now = gate.now + 1 /\ gate'.windows = gate.windows
      /\ gate'.last = gate.last /\ gate'.captchas = {c \in gate.captchas : c.expires > gate.now + 1}
  <2>1. PICK some \in SUBSET Captcha : some = {c \in gate.captchas : c.expires > gate.now + 1}
    BY <1>2 DEF Gate
  <2>2. PICK later \in Nat : later = gate.now + 1
    BY <1>2
  <2>3. PICK late \in SUBSET Phones : late = gate.late \cup Overdue(gate.now + 1)
    BY <1>2 DEF Gate, Overdue
  <2>4. gate' = [gate EXCEPT !.now = later, !.captchas = some, !.late = late]
    BY <1>1, <2>1, <2>2, <2>3
  <2>5. LET g == [gate EXCEPT !.now = later, !.captchas = some, !.late = late] IN
        /\ g \in Gate /\ g.now = later /\ g.windows = gate.windows /\ g.last = gate.last
        /\ g.captchas = some
    BY <1>2 DEF Gate
  <2> QED  BY <2>1, <2>2, <2>4, <2>5
<1>4. \A c \in Captcha : Known(c, gate.captchas, gate.now) => Known(c, gate'.captchas, gate'.now)
  BY <1>2, <1>3 DEF Known, Captcha
<1>5. Serves(form, gate'.captchas, gate'.now) /\ Shows(form, Pending(call), gate'.captchas, gate'.now)
  BY <1>4, CoreParts, LessServes
<1>6. Undisturbed
  BY <1>1, <1>2, <1>3 DEF Undisturbed
<1>7. AnswersOpen'
  BY <1>1, <1>6, CoreParts, CallStays, AnswersStay
<1>8. SendInv'
  BY CoreParts, TickKeeps
<1>9. Pending(call') = Pending(call)
  BY <1>1
<1> QED  BY <1>1, <1>3, <1>5, <1>7, <1>8, <1>9, CoreParts, StepKeeps

\* A captcha is made for the first request under way, or refused.
LEMMA MakeCaptchaKeeps ==
    ASSUME Core, mix.form, mix' = mix, MakeCaptcha
    PROVE  Core'
<1>1. form.queue # << >> /\ UNCHANGED vars /\ call' = call /\ sending' = sending /\ sent' = sent
  BY DEF MakeCaptcha, UnderWay
<1>2. PICK f \in FormState : f = form
  BY CoreParts
<1>3. gate \in Gate /\ gate.now \in Nat
  BY CoreParts, GateTypes
<1>4. /\ f.loading = TRUE /\ f.captcha = NoCaptcha /\ Pending(call) = FALSE
      /\ f.queue \in Seq(Item) /\ Len(f.queue) \in Nat \ {0} /\ f.queue # << >>
      /\ f.queue[Len(f.queue)].purpose = Purpose(f) /\ f.queue[1] \in Item
  BY <1>1, <1>2, QueueFacts
<1>5. PICK asked \in Item : asked = f.queue[1]
  BY <1>4
<1>6. PICK id : id = gate.made + 1
  OBVIOUS
<1>7. PICK captcha : captcha = [id |-> id, context |-> IF f.cookie = 0 THEN id ELSE f.cookie,
                                purpose |-> asked.purpose, expires |-> gate.now + CaptchaLife]
  OBVIOUS
<1>8. PICK item : /\ form' = [form EXCEPT !.queue[1] = item]
                  /\ \/ /\ item = [asked EXCEPT !.phase = "made", !.captcha = captcha]
                        /\ gate' = [gate EXCEPT !.captchas = Save(@, captcha), !.made = id]
                     \/ /\ item = [asked EXCEPT !.phase = "refused"]
                        /\ gate' = gate
                  /\ asked.phase = "waiting"
  <2>1. PICK i \in UnderWay(form.queue), admitted \in BOOLEAN :
           /\ form.queue[i].phase = "waiting"
           /\ gate' = IF admitted
                      THEN [gate EXCEPT !.captchas = Save(@, [id |-> gate.made + 1,
                              context |-> IF form.cookie = 0 THEN gate.made + 1 ELSE form.cookie,
                              purpose |-> form.queue[i].purpose, expires |-> gate.now + CaptchaLife]),
                            !.made = gate.made + 1] ELSE gate
           /\ form' = [form EXCEPT !.queue[i] =
                         IF admitted
                         THEN [form.queue[i] EXCEPT !.phase = "made",
                                 !.captcha = [id |-> gate.made + 1,
                              context |-> IF form.cookie = 0 THEN gate.made + 1 ELSE form.cookie,
                              purpose |-> form.queue[i].purpose, expires |-> gate.now + CaptchaLife]]
                         ELSE [form.queue[i] EXCEPT !.phase = "refused"]]
    BY Zenon DEF MakeCaptcha
  <2>2. i = 1
    BY <2>1 DEF UnderWay
  <2> QED  BY <1>2, <1>5, <1>6, <1>7, <2>1, <2>2
<1>9. id \in Nat \ {0} /\ captcha \in Captcha /\ captcha.purpose = asked.purpose
      /\ f.cookie \in {0, captcha.context} /\ captcha # NoCaptcha
  <2>1. gate.made \in Nat /\ f.cookie \in Nat /\ asked.purpose \in Purposes
    BY <1>3, FormTypes DEF Gate, Item
  <2>2. id \in Nat \ {0} /\ gate.now + CaptchaLife \in Nat
    BY <1>3, <1>6, <2>1, GateNumbers
  <2>3. captcha \in Captcha /\ captcha.purpose = asked.purpose /\ f.cookie \in {0, captcha.context}
    BY <1>7, <2>1, <2>2 DEF Captcha
  <2>4. captcha.id # NoCaptcha.id
    BY <2>2, <1>7 DEF NoCaptcha
  <2> QED  BY <2>2, <2>3, <2>4
<1>10. /\ gate' \in Gate /\ gate'.now = gate.now /\ gate'.windows = gate.windows
       /\ gate'.last = gate.last /\ gate'.broken = gate.broken /\ gate'.late = gate.late
       /\ \/ item = [asked EXCEPT !.phase = "made", !.captcha = captcha] /\ captcha \in gate'.captchas
          \/ item = [asked EXCEPT !.phase = "refused"] /\ gate' = gate
  <2>1. PICK some \in SUBSET Captcha : some = Save(gate.captchas, captcha)
    BY <1>3, <1>9 DEF Save, Gate
  <2>2. captcha \in some
    BY <2>1 DEF Save
  <2>3. LET g == [gate EXCEPT !.captchas = some, !.made = id] IN
        /\ g \in Gate /\ g.now = gate.now /\ g.windows = gate.windows
        /\ g.last = gate.last /\ g.broken = gate.broken /\ g.late = gate.late /\ g.captchas = some
    BY <1>3, <1>9 DEF Gate
  <2> QED  BY <1>3, <1>8, <2>1, <2>2, <2>3
<1>11. /\ item \in Item /\ item.purpose = asked.purpose /\ item.phase # "waiting"
       /\ item.phase = "made" => item.captcha = captcha /\ captcha \in gate'.captchas
       /\ item.phase # "made" => item.captcha = NoCaptcha
  <2>1. asked.captcha = NoCaptcha
    BY <1>2, <1>4, <1>5, <1>8, CoreParts DEF Serves
  <2> QED  BY <1>9, <1>10, <2>1 DEF Item
<1>12. PICK queue : queue = [f.queue EXCEPT ![1] = item]
  OBVIOUS
<1>13. /\ queue \in Seq(Item) /\ Len(queue) = Len(f.queue) /\ queue[1] = item /\ queue # << >>
       /\ \A i \in 2..Len(f.queue) : queue[i] = f.queue[i]
  <2>1. 1 \in 1..Len(f.queue)
    BY <1>4
  <2>2. queue \in Seq(Item) /\ Len(queue) = Len(f.queue)
    BY <1>4, <1>11, <1>12, <2>1
  <2>3. queue[1] = item /\ \A i \in 2..Len(f.queue) : queue[i] = f.queue[i]
    BY <1>4, <1>12, <2>1
  <2> QED  BY <1>4, <2>2, <2>3
<1> DEFINE g == [f EXCEPT !.queue = queue]
<1>14. form' = g
  BY <1>2, <1>8, <1>12
<1>15. g \in FormState
  BY <1>13 DEF FormState, Item
<1>16. /\ g.queue = queue /\ g.cookie = f.cookie /\ g.captcha = f.captcha /\ g.view = f.view
       /\ g.method = f.method /\ g.told = f.told /\ g.cooldown = f.cooldown
  BY DEF FormState
<1>17. g.loading = TRUE
  BY <1>4 DEF FormState
<1>18. g.busy = f.busy
  BY DEF FormState
<1>19. Purpose(g) = Purpose(f)
  BY <1>16 DEF Purpose
<1> HIDE DEF g
<1>20. Serves(g, gate'.captchas, gate'.now)
  <2>1. \A i \in 2..Len(f.queue) : f.queue[i].phase = "waiting" /\ f.queue[i].captcha = NoCaptcha
    BY <1>2, CoreParts DEF Serves
  <2>2. \A i \in 2..Len(queue) : queue[i].phase = "waiting" /\ queue[i].captcha = NoCaptcha
    BY <1>13, <2>1
  <2>3. item.phase = "made" => Known(captcha, gate'.captchas, gate'.now)
    BY <1>11 DEF Known
  <2> QED  BY <1>9, <1>11, <1>13, <1>16, <1>17, <2>2, <2>3 DEF Serves
<1>21. Shows(g, FALSE, gate'.captchas, gate'.now)
  <2>1. queue[Len(queue)].purpose = Purpose(f)
    <3>1. CASE Len(f.queue) = 1
      BY <1>4, <1>5, <1>11, <1>13, <3>1
    <3>2. CASE Len(f.queue) # 1
      <4>1. Len(f.queue) \in 2..Len(f.queue)
        <5>1. PICK n \in Nat : n = Len(f.queue) /\ n # 0
          BY <1>4
        <5>2. n # 0 /\ n # 1
          BY <3>2, <5>1, Zenon
        <5>3. n \in 2..n
          BY ONLY n \in Nat, <5>2
        <5> QED  BY <5>1, <5>3, Zenon
      <4> QED  BY <1>4, <1>13, <4>1
    <3> QED  BY <3>1, <3>2
  <2> QED  BY <1>4, <1>13, <1>16, <1>17, <1>19, <2>1 DEF Shows
<1>22. request' = request
  BY <1>1 DEF vars
<1>23. AnswersOpen'
  <2>1. Undisturbed
    BY <1>3, <1>10, <1>22 DEF Undisturbed
  <2> QED  BY <1>1, <1>2, <1>14, <1>16, <2>1, CoreParts, CallStays, AnswersStay
<1>24. SendInv'
  <2>1. \A o \in Requests : PhoneKnown(o)
    BY CoreParts, SendParts DEF Holders
  <2>2. \A o \in Requests : PhoneKnown(o)' /\ (InFlight(o)' => InFlight(o))
    BY <1>1, <1>22, <2>1 DEF PhoneKnown, InFlight
  <2> QED  BY <1>1, <1>10, <1>22, <2>2, CoreParts, CalmKeeps
<1>25. /\ form' \in FormState /\ call' \in FormCall \cup {NoCall} /\ (form'.busy <=> call' # NoCall)
       /\ Pending(call') = FALSE
  BY <1>1, <1>2, <1>4, <1>14, <1>15, <1>18, CoreParts
<1> QED  BY <1>1, <1>10, <1>14, <1>20, <1>21, <1>23, <1>24, <1>25, StepKeeps

-----------------------------------------------------------------------------
(* Answers                                                                  *)

LEMMA ToldField ==
    ASSUME NEW f \in FormState, NEW told \in [Phones -> Requests \cup {None}]
    PROVE  LET g == [f EXCEPT !.told = told] IN
           /\ g \in FormState /\ g.told = told /\ g.cooldown = f.cooldown /\ g.view = f.view
           /\ g.method = f.method /\ g.captcha = f.captcha /\ g.queue = f.queue /\ g.cookie = f.cookie
           /\ g.loading = f.loading /\ g.busy = f.busy /\ g.done = f.done
<1> DEFINE g == [f EXCEPT !.told = told]
<1>1. g \in FormState
  BY DEF FormState
<1>2. /\ g.told = told /\ g.cooldown = f.cooldown /\ g.view = f.view /\ g.method = f.method
      /\ g.captcha = f.captcha /\ g.queue = f.queue /\ g.cookie = f.cookie
  BY DEF FormState
<1>3. g.loading = f.loading
  BY DEF FormState
<1>4. g.busy = f.busy
  BY DEF FormState
<1>5. g.done = f.done
  BY DEF FormState
<1> QED  BY <1>1, <1>2, <1>3, <1>4, <1>5

LEMMA CooldownField ==
    ASSUME NEW f \in FormState, NEW cooldown \in [Phones -> Nat]
    PROVE  LET g == [f EXCEPT !.cooldown = cooldown] IN
           /\ g \in FormState /\ g.told = f.told /\ g.cooldown = cooldown /\ g.view = f.view
           /\ g.method = f.method /\ g.captcha = f.captcha /\ g.queue = f.queue /\ g.cookie = f.cookie
           /\ g.loading = f.loading /\ g.busy = f.busy /\ g.done = f.done
<1> DEFINE g == [f EXCEPT !.cooldown = cooldown]
<1>1. g \in FormState
  BY DEF FormState
<1>2. /\ g.told = f.told /\ g.cooldown = cooldown /\ g.view = f.view /\ g.method = f.method
      /\ g.captcha = f.captcha /\ g.queue = f.queue /\ g.cookie = f.cookie
  BY DEF FormState
<1>3. g.loading = f.loading
  BY DEF FormState
<1>4. g.busy = f.busy
  BY DEF FormState
<1>5. g.done = f.done
  BY DEF FormState
<1> QED  BY <1>1, <1>2, <1>3, <1>4, <1>5

\* What a form says of the windows, and nothing else of it.
Says(f) ==
    \A p \in Phones : f.told[p] # None =>
        /\ request[f.told[p]].pc = "ended" /\ f.cooldown[p] >= Skew
        /\ f.told[p] = gate.last[p] => Opens(gate.windows[p], f.cooldown[p] - Skew)

Alike(f, g) ==
    /\ g.view = f.view /\ g.method = f.method /\ g.captcha = f.captcha /\ g.queue = f.queue
    /\ g.cookie = f.cookie /\ g.loading = f.loading /\ g.busy = f.busy /\ g.done = f.done

\* The countdown ends no earlier than the server's, however late the answer comes.
LEMMA ToldOpensLater ==
    ASSUME Core, NEW c \in FormCall, c = call, c.retryAt # 0, NEW f \in FormState, Says(f),
           NEW g, g = Told(f, c.retryAt, c.serverTime)
    PROVE  g \in FormState /\ Says(g) /\ Alike(f, g)
<1>1. /\ c.phone \in Phones /\ c.request \in Requests \cup {None} /\ c.retryAt \in Nat
      /\ c.serverTime \in Nat /\ f.told \in [Phones -> Requests \cup {None}]
      /\ f.cooldown \in [Phones -> Nat]
  BY CallTypes, FormTypes
<1>2. gate.now \in Nat /\ Skew \in Nat
  BY CoreParts, GateTypes, GateNumbers
<1>3. CASE ~ Sends(c.kind)
  BY <1>3 DEF Told, Alike
<1>4. CASE Sends(c.kind)
  <2>1. PICK least \in Nat : /\ least = LocalTime + Later(0, c.retryAt - c.serverTime)
                             /\ least >= Skew
                             /\ c.serverTime <= gate.now => c.retryAt <= least - Skew
    <3>1. PICK over \in Nat : /\ over = Later(0, c.retryAt - c.serverTime)
                              /\ c.retryAt <= c.serverTime + over
      BY <1>1 DEF Later
    <3>2. LocalTime + over \in Nat /\ LocalTime + over >= Skew
          /\ (c.serverTime <= gate.now => c.retryAt <= (LocalTime + over) - Skew)
      BY <1>1, <1>2, <3>1 DEF LocalTime
    <3> QED  BY <3>1, <3>2
  <2>2. PICK cooldown \in [Phones -> Nat] : cooldown = [f.cooldown EXCEPT ![c.phone] = least]
    BY <1>1
  <2>3. PICK told \in [Phones -> Requests \cup {None}] : told = [f.told EXCEPT ![c.phone] = c.request]
    BY <1>1
  <2>4. PICK h : h = [f EXCEPT !.cooldown = cooldown]
    OBVIOUS
  <2>5. h \in FormState /\ h.told = f.told /\ h.cooldown = cooldown /\ Alike(f, h)
    BY <2>4, CooldownField DEF Alike
  <2>6. h = Recorded(f, c.phone, c.retryAt, c.serverTime)
    BY <2>1, <2>2, <2>4 DEF Recorded
  <2>7. g = [h EXCEPT !.told = told]
    <3>1. g = [h EXCEPT !.told[c.phone] = c.request]
      BY <1>4, <2>6 DEF Told
    <3> QED  BY <2>3, <2>5, <3>1
  <2>8. g \in FormState /\ g.told = told /\ g.cooldown = cooldown /\ Alike(f, g)
    <3>1. g \in FormState /\ g.told = told /\ g.cooldown = h.cooldown /\ Alike(h, g)
      BY <2>5, <2>7, ToldField DEF Alike
    <3> QED  BY <2>5, <3>1 DEF Alike
  <2>9. Says(g)
    <3> SUFFICES ASSUME NEW p \in Phones, told[p] # None
                 PROVE  /\ request[told[p]].pc = "ended" /\ cooldown[p] >= Skew
                        /\ told[p] = gate.last[p] => Opens(gate.windows[p], cooldown[p] - Skew)
      BY <2>8 DEF Says
    <3>1. CASE p # c.phone
      <4>1. told[p] = f.told[p] /\ cooldown[p] = f.cooldown[p]
        BY <1>1, <2>2, <2>3, <3>1
      <4> QED  BY <4>1 DEF Says
    <3>2. CASE p = c.phone
      <4>1. told[p] = c.request /\ cooldown[p] = least
        BY <1>1, <2>2, <2>3, <3>2
      <4>2. /\ request[c.request].pc = "ended" /\ c.serverTime <= gate.now
            /\ gate.last[p] = c.request => Opens(gate.windows[p], c.retryAt)
        BY <3>2, <4>1, CoreParts, AnswerParts DEF CallOpens
      <4>3. PICK t \in Nat : t = least - Skew /\ c.retryAt <= t
        BY <1>2, <2>1, <4>2
      <4>4. Sound(gate.windows[p], gate.now)
        BY CoreParts, SendParts, WindowSound DEF Windows
      <4>5. gate.last[p] = c.request => Opens(gate.windows[p], t)
        BY <1>1, <1>2, <4>2, <4>3, <4>4, OpenLater
      <4> QED  BY <2>1, <4>1, <4>2, <4>3, <4>5
    <3> QED  BY <3>1, <3>2
  <2> QED  BY <2>8, <2>9
<1> QED  BY <1>3, <1>4

\* An answer that does not say when the window opens takes back what was said.
LEMMA ToldNothing ==
    ASSUME Core, NEW c \in FormCall, c = call, NEW f \in FormState, Says(f),
           NEW t, NEW g, g = Told(f, 0, t)
    PROVE  g \in FormState /\ Says(g) /\ Alike(f, g)
<1>1. c.phone \in Phones /\ f.told \in [Phones -> Requests \cup {None}]
  BY CallTypes, FormTypes
<1>2. CASE ~ Sends(c.kind)
  BY <1>2 DEF Told, Alike
<1>3. CASE Sends(c.kind)
  <2>1. PICK told \in [Phones -> Requests \cup {None}] : told = [f.told EXCEPT ![c.phone] = None]
    BY <1>1
  <2>2. g = [f EXCEPT !.told = told]
    <3>1. g = [f EXCEPT !.told[c.phone] = None]
      BY <1>3 DEF Told
    <3> QED  BY <2>1, <3>1
  <2>3. g \in FormState /\ g.told = told /\ g.cooldown = f.cooldown /\ Alike(f, g)
    BY ONLY f \in FormState, told \in [Phones -> Requests \cup {None}], <2>2, ToldField DEF Alike
  <2>4. \A p \in Phones : told[p] # None => told[p] = f.told[p]
    BY <1>1, <2>1
  <2>5. Says(g)
    BY <2>3, <2>4 DEF Says
  <2> QED  BY <2>3, <2>5
<1> QED  BY <1>2, <1>3

\* An answer, or its loss, sets the form free and may ask for another captcha.
LEMMA EndCallKeeps ==
    ASSUME Core, mix.form, mix' = mix, UNCHANGED vars, UNCHANGED gateVars,
           NEW c \in FormCall, c = call, call' = NoCall,
           NEW g \in FormState, Says(g), Alike([form EXCEPT !.busy = FALSE], g),
           NEW ok \in BOOLEAN, form' = After(g, c.kind, ok)
    PROVE  Core'
<1>1. PICK f \in FormState : f = form
  BY CoreParts
<1>2. PICK b : b = [f EXCEPT !.busy = FALSE]
  OBVIOUS
<1>3. /\ b.busy = FALSE /\ b.captcha = f.captcha /\ b.loading = f.loading /\ b.done = f.done
      /\ b.queue = f.queue /\ b.cookie = f.cookie /\ b.view = f.view /\ b.method = f.method
  <2>1. b.view = f.view /\ b.method = f.method
    BY <1>2 DEF FormState
  <2> QED  BY <1>2, <2>1, BusyFacts
<1>4. /\ g.busy = FALSE /\ g.captcha = f.captcha /\ g.loading = f.loading /\ g.done = f.done
      /\ g.queue = f.queue /\ g.cookie = f.cookie /\ g.view = f.view /\ g.method = f.method
  <2>1. Alike(b, g)
    BY <1>1, <1>2
  <2> QED  BY <1>3, <2>1 DEF Alike
<1>5. Purpose(g) = Purpose(f)
  BY <1>4 DEF Purpose
<1>6. request' = request /\ gate' = gate /\ gate.now \in Nat
  BY CoreParts, GateTypes DEF vars, gateVars
<1>7. CallOpens'
  BY <1>6, NewCallOpens
<1>8. ASSUME form'.told = g.told, form'.cooldown = g.cooldown PROVE AnswersOpen'
  <2>1. \A p \in Phones : ToldOpens(p)'
    BY <1>6, <1>8 DEF ToldOpens, Says
  <2> QED  BY <1>7, <2>1, AnswersFromParts
<1>9. Pending(call') = FALSE
  BY DEF Pending
<1>10. Serves(f, gate.captchas, gate.now) /\ Shows(f, Pending(call), gate.captchas, gate.now)
  BY <1>1, CoreParts
<1>11. Serves(g, gate.captchas, gate.now) /\ Shows(g, Pending(call), gate.captchas, gate.now)
  BY <1>4, <1>5, <1>10, SameServes, SameShows
<1>12. CASE ~ ok \/ Sends(c.kind)
  <2>1. form' = LoadCaptcha(g)
    BY <1>12 DEF After, Sends
  <2>2. AnswersOpen'
    BY <1>8, <2>1, LoadFacts
  <2> QED  BY <1>1, <1>4, <2>1, <2>2, LoadKeeps
<1>13. CASE ok /\ ~ Sends(c.kind) /\ c.kind = "reset"
  <2>1. PICK h : h = [g EXCEPT !.view = "login", !.method = "password"]
    OBVIOUS
  <2>2. form' = LoadCaptcha(h)
    BY <1>13, <2>1 DEF After
  <2>3. h \in FormState /\ h.queue = g.queue /\ h.cookie = g.cookie /\ h.told = g.told
        /\ h.cooldown = g.cooldown
    BY <2>1 DEF FormState
  <2>4. h.loading = g.loading
    BY <2>1 DEF FormState
  <2>5. h.busy = g.busy
    BY <2>1 DEF FormState
  <2>6. AnswersOpen'
    BY <1>8, <2>2, <2>3, LoadFacts
  <2> QED  BY <1>1, <1>4, <2>2, <2>3, <2>4, <2>5, <2>6, LoadKeeps
<1>14. CASE ok /\ ~ Sends(c.kind) /\ c.kind = "password"
  <2>1. form' = [g EXCEPT !.done = TRUE]
    BY <1>14 DEF After
  <2>2. PICK h : h = [g EXCEPT !.done = TRUE]
    OBVIOUS
  <2>3. /\ h \in FormState /\ h.queue = g.queue /\ h.cookie = g.cookie /\ h.told = g.told
        /\ h.cooldown = g.cooldown /\ h.captcha = g.captcha /\ h.view = g.view /\ h.method = g.method
    BY <2>2 DEF FormState
  <2>4. h.loading = g.loading
    BY <2>2 DEF FormState
  <2>5. h.busy = g.busy
    BY <2>2 DEF FormState
  <2>6. h.done = TRUE
    BY <2>2 DEF FormState
  <2>7. Purpose(h) = Purpose(g)
    BY <2>3 DEF Purpose
  <2>8. Serves(h, gate.captchas, gate.now)
    BY <1>11, <2>3, <2>4, SameServes
  <2>9. Shows(h, FALSE, gate.captchas, gate.now)
    BY <1>11, <2>3, <2>4, <2>6, <2>7 DEF Shows
  <2>10. AnswersOpen'
    BY <1>8, <2>1, <2>2, <2>3
  <2>11. form' = h /\ (form'.busy <=> call' # NoCall) /\ call' \in FormCall \cup {NoCall}
    BY <1>4, <2>1, <2>2, <2>5
  <2> QED  BY <1>9, <2>3, <2>8, <2>9, <2>10, <2>11, ClientKeeps
<1>15. CASE ok /\ ~ Sends(c.kind) /\ c.kind # "reset" /\ c.kind # "password"
  <2>1. form' = g
    BY <1>15 DEF After
  <2>2. Pending(call) = FALSE
    BY <1>15 DEF Pending
  <2>3. AnswersOpen'
    BY <1>8, <2>1
  <2>4. (form'.busy <=> call' # NoCall) /\ call' \in FormCall \cup {NoCall}
    BY <1>4, <2>1
  <2> QED  BY <1>9, <1>11, <2>1, <2>2, <2>3, <2>4, ClientKeeps
<1> QED  BY <1>12, <1>13, <1>14, <1>15

\* The form that perform leaves behind knows what it knew.
LEMMA SaidSoFar ==
    ASSUME Core
    PROVE  LET b == [form EXCEPT !.busy = FALSE] IN b \in FormState /\ Says(b)
<1>1. PICK f \in FormState : f = form
  BY CoreParts
<1>2. PICK b : b = [f EXCEPT !.busy = FALSE]
  OBVIOUS
<1>3. b \in FormState /\ b.cooldown = f.cooldown /\ b.told = f.told
  BY <1>2, BusyFacts
<1>4. \A p \in Phones : ToldOpens(p)
  BY CoreParts, AnswerParts
<1>5. Says(b)
  BY <1>1, <1>3, <1>4 DEF ToldOpens, Says
<1> QED  BY <1>1, <1>2, <1>3, <1>5

\* The end of perform, with the answer or without one.
LEMMA AnswersKeep ==
    ASSUME Core, mix.form, mix' = mix, Arrive \/ LoseAnswer
    PROVE  Core'
<1>1. call # NoCall /\ call' = NoCall /\ UNCHANGED vars /\ UNCHANGED gateVars
  BY DEF Arrive, LoseAnswer
<1>2. PICK c \in FormCall : c = call
  BY <1>1, CoreParts
<1>3. PICK b \in FormState : b = [form EXCEPT !.busy = FALSE] /\ Says(b)
  BY SaidSoFar
<1>4. CASE Arrive
  <2>1. PICK result : form' = After(Told(b, c.retryAt, c.serverTime), c.kind, result = "ok")
    BY <1>2, <1>3, <1>4 DEF Arrive
  <2>2. PICK g : g = Told(b, c.retryAt, c.serverTime)
    OBVIOUS
  <2>3. g \in FormState /\ Says(g) /\ Alike(b, g)
    <3>1. CASE c.retryAt = 0
      <4>1. g = Told(b, 0, c.serverTime)
        BY <2>2, <3>1
      <4> QED  BY <1>2, <1>3, <4>1, ToldNothing
    <3>2. CASE c.retryAt # 0
      BY <1>2, <1>3, <2>2, <3>2, ToldOpensLater
    <3> QED  BY <3>1, <3>2
  <2>4. PICK ok \in BOOLEAN : ok = (result = "ok")
    OBVIOUS
  <2>5. form' = After(g, c.kind, ok)
    BY <2>1, <2>2, <2>4
  <2> QED  BY <1>1, <1>2, <1>3, <2>3, <2>5, EndCallKeeps
<1>5. CASE LoseAnswer
  <2>1. PICK g : g = Told(b, 0, 0)
    OBVIOUS
  <2>2. form' = After(g, c.kind, FALSE)
    BY <1>2, <1>3, <1>5, <2>1 DEF LoseAnswer
  <2>3. g \in FormState /\ Says(g) /\ Alike(b, g)
    BY <1>2, <1>3, <2>1, ToldNothing
  <2> QED  BY <1>1, <1>2, <1>3, <2>2, <2>3, EndCallKeeps
<1> QED  BY <1>4, <1>5

-----------------------------------------------------------------------------
(* What the form shows can be relied on, and sends are limited              *)

\* Without a form to follow, nobody asks the gate.
LEMMA OthersKeep ==
    ASSUME Core, ~ mix.form, UNCHANGED formVars, UNCHANGED gateVars, UNCHANGED mix
    PROVE  Core'
<1>1. form' = form /\ call' = call /\ gate' = gate /\ sending' = sending /\ sent' = sent /\ mix' = mix
  BY DEF formVars, gateVars
<1>2. FormTypeOK'
  BY <1>1, CoreParts DEF FormTypeOK
<1>3. CaptchasAreServed'
  BY <1>1, CoreParts, CaptchaFromParts
<1>4. Silent /\ Windows
  BY CoreParts, SendParts
<1>5. AnswersOpen'
  <2>1. CallOpens'
    BY <1>1, <1>4, CoreParts, GateTypes, NewCallOpens DEF Silent
  <2>2. \A p \in Phones : ToldOpens(p)'
    BY <1>1, <1>4 DEF Silent, ToldOpens
  <2> QED  BY <2>1, <2>2, AnswersFromParts
<1>6. SendInv'
  <2>1. Silent' /\ Codes' /\ LastAsked' /\ SendsAreLimited'
    BY <1>1, <1>4 DEF Silent, Codes, LastAsked, SendsAreLimited
  <2>2. ASSUME NEW p \in Phones PROVE WindowHolds(p)'
    BY <1>1, <1>4 DEF Silent, Windows, WindowHolds
  <2> QED  BY <1>1, <2>1, <2>2, SendFromParts DEF Windows
<1> QED  BY <1>2, <1>3, <1>5, <1>6 DEF Core

LEMMA StutterKeeps ==
    ASSUME Core, UNCHANGED allVars
    PROVE  Core'
<1>1. UNCHANGED vars /\ UNCHANGED formVars /\ UNCHANGED gateVars /\ mix' = mix
  BY DEF allVars
<1>2. CASE mix.form
  <2>1. form' = form /\ call' = call
    BY <1>1 DEF formVars
  <2>2. AnswersOpen'
    BY <1>1, <2>1, CoreParts, StillUndisturbed, CallStays, AnswersStay
  <2>3. Pending(call') = Pending(call)
    BY <2>1
  <2> QED  BY <1>1, <1>2, <2>1, <2>2, <2>3, CoreParts, ClientKeeps
<1> QED  BY <1>1, <1>2, OthersKeep

LEMMA CoreInit ==
    ASSUME FormInit
    PROVE  Core
<1> DEFINE blank == [view |-> mix.view, method |-> "password", phone |-> None, captcha |-> NoCaptcha,
                     loading |-> FALSE, queue |-> << >>, busy |-> FALSE, done |-> FALSE, cookie |-> 0,
                     cooldown |-> [p \in Phones |-> 0], told |-> [p \in Phones |-> None]]
<1>1. /\ mix \in Mixes /\ form = LoadCaptcha(blank) /\ call = NoCall /\ gate = FirstGate /\ sent = {}
      /\ sending = [r \in Requests |-> NotSending]
      /\ request = [r \in Requests |-> NewRequest]
  BY DEF FormInit, FirstForm, Init
<1>2. blank \in FormState
  <2>1. mix.view \in {"login", "reset-password"}
    BY <1>1, AuthFormsConstants
  <2> QED  BY <2>1 DEF FormState
<1>3. PICK f \in FormState : f = blank
  BY <1>2
<1>4. /\ f.loading = FALSE /\ f.queue = << >> /\ f.busy = FALSE
      /\ \A p \in Phones : f.told[p] = None
  BY <1>3
<1> HIDE DEF blank
<1>5. NoWindow \in Window /\ NoWindow.sends = {} /\ NoWindow.pending = 0
      /\ Sound(NoWindow, 1)
  BY EmptyWindow DEF Sound
<1>6. /\ gate \in Gate /\ gate.now = 1 /\ \A p \in Phones : gate.windows[p] = NoWindow
      /\ \A p \in Phones : gate.last[p] = None
  BY <1>1, <1>5 DEF FirstGate, Gate, Window
<1>7. /\ form \in FormState /\ form.busy = FALSE
      /\ \A p \in Phones : form.told[p] = None
  BY <1>1, <1>3, <1>4, LoadFacts
<1>8. FormTypeOK
  BY <1>1, <1>6, <1>7 DEF FormTypeOK, NotSending
<1>9. CaptchasAreServed
  <2>1. Serves(f, gate.captchas, gate.now)
    BY <1>4 DEF Serves
  <2>2. Serves(form, gate.captchas, gate.now) /\ Shows(form, FALSE, gate.captchas, gate.now)
    BY <1>1, <1>3, <2>1, LoadServes
  <2>3. Pending(call) = FALSE
    BY <1>1 DEF Pending
  <2> QED  BY <1>1, <1>7, <2>2, <2>3, CaptchaParts
<1>10. AnswersOpen
  <2>1. call \notin FormCall
    BY <1>1, CallTypes
  <2> QED  BY <1>7, <2>1 DEF AnswersOpen
<1>11. SendInv
  <2>1. \A r \in Requests : request[r].pc = "new"
    BY <1>1, RequestTypes
  <2>2. SendsAreLimited /\ Codes /\ LastAsked
    BY <1>1, <1>6 DEF SendsAreLimited, Codes, LastAsked
  <2>3. Windows
    BY <1>5, <1>6 DEF Windows, WindowHolds, Sound, Fitting
  <2>4. Holders
    BY <2>1 DEF Holders, PhoneKnown, InFlight
  <2>5. Silent
    BY <1>1, <1>5, <1>6, <1>7 DEF Silent
  <2> QED  BY <2>2, <2>3, <2>4, <2>5, SendParts
<1> QED  BY <1>8, <1>9, <1>10, <1>11 DEF Core

\* One case per action.
LEMMA CoreStep ==
    ASSUME Core, SessionInv, [formNext]_allVars
    PROVE  Core'
<1>1. CASE UNCHANGED allVars
  BY <1>1, StutterKeeps
<1>2. CASE ~ mix.form /\ formNext
  BY <1>2, OthersKeep DEF formNext
<1>3. CASE mix.form /\ formNext
  <2>1. FormNext /\ mix' = mix
    BY <1>3 DEF formNext, FormNext
  <2>2. CASE TypePhone \/ Switch \/ Refresh
    BY <1>3, <2>1, <2>2, TypePhoneKeeps, SwitchKeeps, RefreshKeeps
  <2>3. CASE SendCode \/ SubmitPassword \/ SubmitCode
    BY <1>3, <2>1, <2>3, CallsKeep
  <2>4. CASE ReceiveCaptcha \/ LoseCaptcha \/ MakeCaptcha
    BY <1>3, <2>1, <2>4, ReceiveKeeps, LoseCaptchaKeeps, MakeCaptchaKeeps
  <2>5. CASE TurnAway \/ Admit
    BY <1>3, <2>1, <2>5, TurnAwayKeeps, AdmitKeeps
  <2>6. CASE Arrive \/ LoseAnswer
    BY <1>3, <2>1, <2>6, AnswersKeep
  <2>7. CASE RebindPhone \/ Tick
    BY <1>3, <2>1, <2>7, RebindKeepsForm, TimeKeeps
  <2>8. ASSUME NEW r \in Requests,
               \/ OtherStart(r) \/ PlainStep(r) \/ LockPhone(r) \/ ReserveSend(r) \/ ConnectSend(r)
               \/ IssueCode(r) \/ FinishSend(r) \/ BreakRequest(r)
        PROVE  Core'
    BY <1>3, <2>1, <2>8, OtherStartKeeps, PlainStepKeeps, LockPhoneKeeps, ReserveSendKeeps,
       ConnectSendKeeps, IssueCodeKeeps, FinishSendKeeps, BreakRequestKeeps
  <2> QED  BY <2>1, <2>2, <2>3, <2>4, <2>5, <2>6, <2>7, <2>8 DEF FormNext
<1> QED  BY <1>1, <1>2, <1>3

\* What the form knows, what the gate keeps and what has been sent always fit together.
THEOREM CoreHolds == FormSpec => []Core
<1>1. FormSpec => FormInit /\ [][formNext]_allVars
  BY DEF FormSpec, formNext, allVars
<1>2. FormInit => Core
  BY CoreInit
<1>3. Core /\ SessionInv /\ [formNext]_allVars => Core'
  BY CoreStep
<1> QED  BY <1>1, <1>2, <1>3, FormSessionsHold, PTL

\* The captcha that is shown is the one that counts, and when the countdown is over the
\* window of the number is open again.
THEOREM FormHolds == FormSpec => []FormInv
BY CoreHolds, CoreSuffices, PTL

\* Codes for a number are SendInterval apart and within its limit, whoever asks for them,
\* unless a send outlasts its fence or comes within SendInterval of its end.
THEOREM SendsHold == FormSpec => []SendInv
BY CoreHolds, CoreSuffices, PTL

=============================================================================
