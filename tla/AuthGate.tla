------------------------------- MODULE AuthGate -------------------------------
(***************************************************************************)
(* What auth-kit keeps in Redis to turn requests away: the window of the    *)
(* sends to a phone number and the captchas.  Each operator is one script,  *)
(* which Redis runs as a whole, with the time its caller read from Redis.   *)
(***************************************************************************)
EXTENDS Integers, FiniteSets

CONSTANTS
    SendInterval,   \* between two codes for a number, a minute
    SendWindow,     \* an hour, in which a number gets
    SendLimit,      \* five codes
    PendingFence,   \* how long a send that does not end keeps others away, six minutes
    CaptchaLife     \* two minutes

ASSUME AuthGateConstants ==
    /\ {SendInterval, SendWindow, SendLimit, PendingFence, CaptchaLife} \subseteq Nat \ {0}
    /\ SendInterval < PendingFence /\ PendingFence < SendWindow

\* The sorted set of a number: the sends, by whom and at what time; the member that
\* fences off others while one is under way; and when Redis drops the whole key.
NoWindow == [sends |-> {}, pending |-> 0, expires |-> 0]

Alive(window, now) == IF window.expires <= now THEN NoWindow ELSE window

Later(s, t) == IF s < t THEN t ELSE s

Oldest(sends) == CHOOSE s \in sends : \A t \in sends : s.at <= t.at
Latest(sends) == CHOOSE s \in sends : \A t \in sends : t.at <= s.at

\* When the next send is allowed.
RetryAt(sends, now) ==
    LET spaced == IF sends = {} THEN now ELSE Later(now, Latest(sends).at + SendInterval)
    IN IF Cardinality(sends) < SendLimit THEN spaced
       ELSE Later(spaced, Oldest(sends).at + SendWindow)

Recent(sends, now) == {s \in sends : s.at > now - SendWindow}

\* windowScript with pending: the key lives as long as the fence, so a send that is
\* never finished takes the earlier ones with it.
Reserve(window, who, now) ==
    LET live == Alive(window, now)
        sends == Recent(live.sends, now)
        added == sends \cup {[by |-> who, at |-> now]}
    IN IF live.pending > now
       THEN [allowed |-> FALSE, retryAt |-> live.pending, window |-> live]
       ELSE IF RetryAt(sends, now) > now
       THEN [allowed |-> FALSE, retryAt |-> RetryAt(sends, now),
             window |-> [live EXCEPT !.sends = sends, !.pending = 0]]
       ELSE [allowed |-> TRUE, retryAt |-> RetryAt(added, now),
             window |-> [sends |-> added, pending |-> now + PendingFence,
                         expires |-> now + PendingFence]]

\* Mutation: the send keeps the time it was reserved at.
FinishInPlace(window, who, now) ==
    LET sends == Alive(window, now).sends IN
    [retryAt |-> Later(now, RetryAt(sends, now)),
     window |-> [sends |-> sends, pending |-> 0, expires |-> now + SendWindow]]

\* finishSend: the last send counts from now on.
Finish(window, who, now) ==
    LET sends == Alive(window, now).sends
        moved == IF sends = {} THEN {[by |-> who, at |-> now]}
                 ELSE (sends \ {Latest(sends)}) \cup {[Latest(sends) EXCEPT !.at = now]}
    IN [retryAt |-> RetryAt(moved, now),
        window |-> [sends |-> moved, pending |-> 0, expires |-> now + SendWindow]]

-----------------------------------------------------------------------------
\* saveCaptcha: there is one for each browser and purpose.
Save(captchas, captcha) ==
    {c \in captchas : c.context # captcha.context \/ c.purpose # captcha.purpose} \cup {captcha}

\* consumeCaptcha: one that is asked for by its id is gone, be the answer right or
\* wrong.
Consume(captchas, context, purpose, id, right, now) ==
    LET asked == {c \in captchas : c.context = context /\ c.purpose = purpose /\ c.id = id}
    IN [ok |-> right /\ \E c \in asked : c.expires > now, captchas |-> captchas \ asked]
=============================================================================
