-------------------------------- MODULE AuthKit --------------------------------
(***************************************************************************)
(* The requests of auth-kit that change who is signed in: password and SMS  *)
(* sign-in, sending a code, password reset and change, sign-out.  Each runs *)
(* on a connection of its own, under an advisory lock, over the tables of   *)
(* the host's database and a Redis cache.                                   *)
(*                                                                          *)
(* A request that its origin, its captcha or a rate window turns away never *)
(* starts.  What SystemAuthSmsService does with a code is SmsSystemAuth's   *)
(* subject: here a challenge is open, dead or used.  The host may bind a    *)
(* phone number to another user at any time, as its documentation tells it  *)
(* to: with the codes of the user and the sessions in one transaction.      *)
(***************************************************************************)
EXTENDS Integers, FiniteSets

CONSTANTS
    Requests, Kinds,
    Users, Phones, None,
    BoundAtFirst,           \* the phone of each user, or None
    PoolSize, SmsPoolSize   \* connections of auth-kit and of the SMS store

ASSUME AuthKitConstants ==
    /\ Kinds \subseteq {"password", "sms", "send-login", "send-reset", "reset", "change",
                        "sign-out"}
    /\ None \notin Users \cup Phones \cup Requests /\ Users \cap Phones = {}
    /\ BoundAtFirst \in [Users -> Phones \cup {None}]
    /\ PoolSize \in Nat \ {0} /\ SmsPoolSize \in Nat \ {0}

VARIABLES
    request,        \* what each request holds in memory
    bound,          \* user.phone_number
    password,       \* how often the credential of a user was replaced
    sessions,       \* session rows
    challenge,      \* otp_challenge rows, by the request that issued them
    active          \* Redis: the challenge a user would answer, by user and action

vars == <<request, bound, password, sessions, challenge, active>>

-----------------------------------------------------------------------------
Actions == {"login", "reset"}

\* The action whose code a request sends or answers.
ActionOf(kind) == IF kind \in {"send-login", "sms"} THEN "login" ELSE "reset"

Sends(kind) == kind \in {"send-login", "send-reset"}

Generation == Nat     \* how often a credential was replaced

\* code is the challenge whose code the client types; phone or session is how it
\* names the user, and neither when it uses an alias.
Request ==
    [pc      : {"new", "started", "resolved", "locked", "verified", "chosen",
                "reserved", "issuing", "issued", "ended"},
     kind    : Kinds \cup {"none"},
     user    : Users \cup {None},
     phone   : Phones \cup {None},
     session : Requests \cup {None},
     secret  : Generation,
     code    : Requests \cup {None},
     can     : BOOLEAN,
     chosen  : Requests \cup {None},
     result  : {"none", "ok", "refused", "error"}]

NewRequest ==
    [pc |-> "new", kind |-> "none", user |-> None, phone |-> None, session |-> None,
     secret |-> 0, code |-> None, can |-> FALSE, chosen |-> None, result |-> "none"]

Ended(result) == [NewRequest EXCEPT !.pc = "ended", !.result = result]

\* phone is the number an SMS sign-in was made with.
Session == [id : Requests, user : Users, secret : Generation, phone : Phones \cup {None}]

Challenge == [user : Users \cup {None}, action : Actions,
              status : {"absent", "open", "dead", "used"}]

TypeOK ==
    /\ request \in [Requests -> Request]
    /\ \A r \in Requests : request[r].can => request[r].user \in Users
    /\ bound \in [Users -> Phones \cup {None}]
    /\ password \in [Users -> Generation]
    /\ sessions \subseteq Session
    /\ challenge \in [Requests -> Challenge]
    /\ active \in [Users \X Actions -> Requests \cup {None}]

Init ==
    /\ request = [r \in Requests |-> NewRequest]
    /\ bound = BoundAtFirst
    /\ password = [u \in Users |-> 0]
    /\ sessions = {}
    /\ challenge = [r \in Requests |-> [user |-> None, action |-> "login",
                                        status |-> "absent"]]
    /\ active = [key \in Users \X Actions |-> None]

-----------------------------------------------------------------------------
End(r, result) == request' = [request EXCEPT ![r] = Ended(result)]

Started(kind, u, p, s, secret, code) ==
    [NewRequest EXCEPT !.pc = "started", !.kind = kind, !.user = u, !.phone = p,
                       !.session = s, !.secret = secret, !.code = code]

\* How a request names its user: by alias or number, by a session, or by a number.
Names(kind, u, p, s) ==
    CASE kind = "password" -> s = None /\ (u = None <=> p # None)
      [] kind \in {"change", "sign-out"} -> u = None /\ p = None /\ s # None
      [] OTHER -> u = None /\ p # None /\ s = None

\* The client's input.  A password or a code may be one that no longer counts.
Start(r, kind) ==
    /\ request[r].pc = "new"
    /\ \E u \in Users \cup {None}, p \in Phones \cup {None},
          s \in {t.id : t \in sessions} \cup {None},
          secret \in {password[v] : v \in Users} \cup {0},
          code \in {c \in Requests : challenge[c].status # "absent"} \cup {None} :
         /\ Names(kind, u, p, s)
         /\ (code # None) <=> (kind \in {"sms", "reset"})
         /\ IF kind \in {"password", "change"}
              THEN secret \in {password[v] : v \in Users} ELSE secret = 0
         /\ request' = [request EXCEPT ![r] = Started(kind, u, p, s, secret, code)]
    /\ UNCHANGED <<bound, password, sessions, challenge, active>>

Connected == {r \in Requests : request[r].pc \notin {"new", "started", "ended"}}

SessionUser(s) == {t.user : t \in {v \in sessions : v.id = s}}
Owner(p) == {u \in Users : bound[u] = p}

\* Whom the request is about, before any lock: by alias, by session or by phone.
Identity(r) ==
    CASE request[r].user # None    -> {request[r].user}
      [] request[r].session # None -> SessionUser(request[r].session)
      [] OTHER                     -> Owner(request[r].phone)

\* pool.connect() and the lookup of the identity; a dead session only signs out.
Resolve(r) ==
    /\ request[r].pc = "started"
    /\ Cardinality(Connected) < PoolSize
    /\ IF request[r].session # None /\ Identity(r) = {}
         THEN End(r, IF request[r].kind = "sign-out" THEN "ok" ELSE "refused")
         ELSE request' = [request EXCEPT
                ![r].pc = "resolved",
                ![r].user = IF Identity(r) = {} THEN None ELSE CHOOSE u \in Identity(r) : TRUE]
    /\ UNCHANGED <<bound, password, sessions, challenge, active>>

\* Mutation: the lock is that of the name the client used.
KeyOfName(r) == IF request[r].phone # None THEN request[r].phone ELSE request[r].user

\* Every alias of a user serializes on the stable user id.
LockKey(r) == IF request[r].user # None THEN request[r].user ELSE request[r].phone

Holding(r) ==
    request[r].pc \in {"locked", "verified", "chosen", "reserved", "issuing", "issued"}

\* The number must still be the user's now that the lock is held.
CanLogin(r) ==
    /\ request[r].user # None
    /\ request[r].phone # None => bound[request[r].user] = request[r].phone

\* pg_advisory_lock; the host may also find the user not allowed.
Lock(r) ==
    /\ request[r].pc = "resolved"
    /\ \A other \in Requests : Holding(other) => LockKey(other) # LockKey(r)
    /\ \E allowed \in BOOLEAN :
         request' = [request EXCEPT ![r].pc = "locked", ![r].can = allowed /\ CanLogin(r)]
    /\ UNCHANGED <<bound, password, sessions, challenge, active>>

\* Nobody may sign in as, or change the password of, a user that cannot log in.
Refuse(r) ==
    /\ request[r].pc = "locked" /\ ~request[r].can
    /\ request[r].kind \in {"password", "sms", "reset", "change"}
    /\ End(r, "refused")
    /\ UNCHANGED <<bound, password, sessions, challenge, active>>

-----------------------------------------------------------------------------
(* Passwords *)

\* The credential is read, and for a change the session again.
CheckPassword(r) ==
    /\ request[r].pc = "locked" /\ request[r].can
    /\ request[r].kind \in {"password", "change"}
    /\ IF /\ request[r].secret = password[request[r].user]
          /\ request[r].kind = "change" => request[r].user \in SessionUser(request[r].session)
         THEN request' = [request EXCEPT ![r].pc = "verified"]
         ELSE End(r, "refused")
    /\ UNCHANGED <<bound, password, sessions, challenge, active>>

SignIn(r) ==
    /\ request[r].pc = "verified" /\ request[r].kind = "password"
    /\ sessions' = sessions \cup {[id |-> r, user |-> request[r].user,
                                   secret |-> request[r].secret, phone |-> None]}
    /\ End(r, "ok")
    /\ UNCHANGED <<bound, password, challenge, active>>

SessionsWithout(u) == {s \in sessions : s.user # u}

\* One transaction writes the credential and revokes every session of the user.
CommitChange(r) ==
    /\ request[r].pc = "verified" /\ request[r].kind = "change"
    /\ password' = [password EXCEPT ![request[r].user] = @ + 1]
    /\ sessions' = SessionsWithout(request[r].user)
    /\ End(r, "ok")
    /\ UNCHANGED <<bound, challenge, active>>

SignOut(r) ==
    /\ request[r].pc = "locked" /\ request[r].kind = "sign-out"
    /\ sessions' = {s \in sessions : s.id # request[r].session}
    /\ End(r, "ok")
    /\ UNCHANGED <<bound, password, challenge, active>>

-----------------------------------------------------------------------------
(* Codes *)

Open(u, action) ==
    {c \in Requests : /\ challenge[c].status = "open"
                      /\ challenge[c].user = u /\ challenge[c].action = action}

\* Someone who cannot log in, or has no account, is answered as everybody else.
AnswerAlike(r) ==
    /\ request[r].pc = "locked" /\ Sends(request[r].kind) /\ ~request[r].can
    /\ End(r, "ok")
    /\ UNCHANGED <<bound, password, sessions, challenge, active>>

\* The window of the number has let the request in.
EnterWindow(r) ==
    /\ request[r].pc = "locked" /\ Sends(request[r].kind) /\ request[r].can
    /\ request' = [request EXCEPT ![r].pc = "reserved"]
    /\ UNCHANGED <<bound, password, sessions, challenge, active>>

\* Mutation: the SMS store draws its connections from the same pool.
BeginIssueFromPool(r) ==
    /\ request[r].pc = "reserved"
    /\ Cardinality(Connected) < PoolSize
    /\ request' = [request EXCEPT ![r].pc = "issuing"]
    /\ UNCHANGED <<bound, password, sessions, challenge, active>>

\* issue() opens transactions on connections of the SMS store.
BeginIssue(r) ==
    /\ request[r].pc = "reserved"
    /\ Cardinality({other \in Requests : request[other].pc = "issuing"}) < SmsPoolSize
    /\ request' = [request EXCEPT ![r].pc = "issuing"]
    /\ UNCHANGED <<bound, password, sessions, challenge, active>>

\* A new challenge supersedes the open ones, whether or not its code is accepted.
Issue(r) ==
    /\ request[r].pc = "issuing"
    /\ \E accepted \in BOOLEAN :
         LET u == request[r].user
             action == ActionOf(request[r].kind)
         IN /\ challenge' = [c \in Requests |->
                  CASE c = r -> [user |-> u, action |-> action,
                                 status |-> IF accepted THEN "open" ELSE "dead"]
                    [] c \in Open(u, action) -> [challenge[c] EXCEPT !.status = "dead"]
                    [] OTHER -> challenge[c]]
            /\ IF accepted THEN request' = [request EXCEPT ![r].pc = "issued"]
                           ELSE End(r, "error")
    /\ UNCHANGED <<bound, password, sessions, active>>

\* setActiveChallenge
Remember(r) ==
    /\ request[r].pc = "issued"
    /\ active' = [active EXCEPT ![<<request[r].user, ActionOf(request[r].kind)>>] = r]
    /\ End(r, "ok")
    /\ UNCHANGED <<bound, password, sessions, challenge>>

\* The challenge an answer is taken for: that of the cache, else the newest open row.
Choose(r) ==
    /\ request[r].pc = "locked" /\ request[r].kind \in {"sms", "reset"} /\ request[r].can
    /\ LET action == ActionOf(request[r].kind)
           cached == active[<<request[r].user, action>>]
           found  == IF cached # None THEN {cached} ELSE Open(request[r].user, action)
       IN IF found = {} THEN End(r, "refused")
          ELSE \E c \in found :
                 request' = [request EXCEPT ![r].pc = "chosen", ![r].chosen = c]
    /\ UNCHANGED <<bound, password, sessions, challenge, active>>

\* verifyAndConsume under the row lock of the challenge.
CodeIsRight(r) ==
    LET c == request[r].chosen IN
    /\ request[r].code = c
    /\ c \in Open(request[r].user, ActionOf(request[r].kind))

\* The code, the session or the credential, and the revocation commit together.
TakeCode(r) ==
    /\ request[r].pc = "chosen" /\ CodeIsRight(r)
    /\ challenge' = [challenge EXCEPT ![request[r].chosen].status = "used"]
    /\ IF request[r].kind = "sms"
         THEN /\ sessions' = sessions \cup
                   {[id |-> r, user |-> request[r].user,
                     secret |-> password[request[r].user], phone |-> request[r].phone]}
              /\ UNCHANGED password
         ELSE /\ password' = [password EXCEPT ![request[r].user] = @ + 1]
              /\ sessions' = SessionsWithout(request[r].user)
    /\ End(r, "ok")
    /\ UNCHANGED <<bound, active>>

\* A wrong code is counted, which SmsSystemAuth follows.
RefuseCode(r) ==
    /\ request[r].pc = "chosen" /\ ~CodeIsRight(r)
    /\ End(r, "refused")
    /\ UNCHANGED <<bound, password, sessions, challenge, active>>

-----------------------------------------------------------------------------
(* Failures, time and the host *)

\* A throw rolls the transaction back and a crash drops the connection; both give
\* up the lock.
Break(r) ==
    /\ request[r].pc \notin {"new", "ended"}
    /\ End(r, "error")
    /\ UNCHANGED <<bound, password, sessions, challenge, active>>

Expire(c) ==
    /\ challenge[c].status = "open"
    /\ challenge' = [challenge EXCEPT ![c].status = "dead"]
    /\ UNCHANGED <<request, bound, password, sessions, active>>

Forget(key) ==
    /\ active[key] # None
    /\ active' = [active EXCEPT ![key] = None]
    /\ UNCHANGED <<request, bound, password, sessions, challenge>>

\* The host gives a user another number: codes and sessions go with the old one.
\* It does not know auth-kit's lock.
Rebind(u, p) ==
    /\ p # bound[u] /\ (p = None \/ Owner(p) = {})
    /\ bound' = [bound EXCEPT ![u] = p]
    /\ challenge' = [c \in Requests |->
          IF challenge[c].status = "open" /\ challenge[c].user = u
            THEN [challenge[c] EXCEPT !.status = "dead"] ELSE challenge[c]]
    /\ sessions' = SessionsWithout(u)
    /\ UNCHANGED <<request, password, active>>

\* The window of the number is closed for a while, which AuthForms follows.
RefuseSend(r) ==
    /\ request[r].pc = "locked" /\ Sends(request[r].kind)
    /\ End(r, "refused")
    /\ UNCHANGED <<bound, password, sessions, challenge, active>>

-----------------------------------------------------------------------------
RequestStep(r) ==
    \/ Resolve(r) \/ Lock(r) \/ Refuse(r)
    \/ CheckPassword(r) \/ SignIn(r) \/ CommitChange(r) \/ SignOut(r)
    \/ AnswerAlike(r) \/ EnterWindow(r) \/ BeginIssue(r) \/ Issue(r) \/ Remember(r)
    \/ Choose(r) \/ TakeCode(r) \/ RefuseCode(r)

Next ==
    \/ \E r \in Requests : \/ \E kind \in Kinds : Start(r, kind)
                           \/ RequestStep(r) \/ RefuseSend(r) \/ Break(r)
    \/ \E c \in Requests : Expire(c)
    \/ \E key \in Users \X Actions : Forget(key)
    \/ \E u \in Users, p \in Phones \cup {None} : Rebind(u, p)

Spec == Init /\ [][Next]_vars

-----------------------------------------------------------------------------
(* Properties *)

\* No session outlives the password it was opened under: whatever name the user
\* signs in with, a sign-in that checked the old password cannot open a session
\* after a change or a reset has revoked them all.
SessionsFollowPassword == \A s \in sessions : s.secret = password[s.user]

\* A session that an SMS code opened belongs to the user the number is bound to,
\* although the host binds numbers without auth-kit's lock.
SmsSessionsFollowPhone == \A s \in sessions : s.phone # None => bound[s.user] = s.phone

\* One request at a time is about a user who can log in.  So the password it has
\* checked is still the user's, and if the host has bound another number since the
\* lock was taken, the codes it ended stay ended and nobody has sent another.
LocksProtect ==
    \A r \in Requests :
        /\ request[r].can => Holding(r)
        /\ request[r].pc \in {"verified", "chosen", "reserved", "issuing", "issued"} => request[r].can
        /\ \A other \in Requests :
              Holding(r) /\ Holding(other) /\ LockKey(r) = LockKey(other) => r = other
        /\ request[r].pc = "verified" => request[r].secret = password[request[r].user]
        /\ request[r].pc = "chosen" => request[r].chosen \in Requests
        /\ request[r].can /\ request[r].pc \in {"locked", "verified", "chosen"}
                          /\ request[r].phone # None =>
              \/ bound[request[r].user] = request[r].phone
              \/ \A action \in Actions : Open(request[r].user, action) = {}

\* A session is as good as what it was opened with.
SessionInv == TypeOK /\ SessionsFollowPassword /\ SmsSessionsFollowPhone /\ LocksProtect

Running == {r \in Requests : request[r].pc \notin {"new", "ended"}}

\* The requests that hold connections, the locks of users and the connections of
\* the SMS store never all wait for each other: as long as one is running, one
\* can go on without another one failing.
SomeoneGoesOn == Running # {} => \E r \in Running : ENABLED RequestStep(r)
=============================================================================
