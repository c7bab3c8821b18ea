------------------------------- MODULE AuthForms -------------------------------
(***************************************************************************)
(* auth-kit's form in a browser, the gate its calls go through and the      *)
(* requests of AuthKit they become.  The form asks for captchas one after   *)
(* the other; a call hands one in, may be turned away, and else is a        *)
(* request among those of other clients.  Sending a code passes the window  *)
(* of the number, under the lock of the user.                               *)
(*                                                                          *)
(* Time passes in ticks.  The browser's clock is ahead of Redis.  The host  *)
(* does not unmount the form when a sign-in succeeds.                       *)
(***************************************************************************)
EXTENDS AuthKit, AuthGate, Sequences

CONSTANTS
    Mixes,          \* what happens in a behaviour; see Init
    Skew,           \* the browser's clock is ahead by
    Horizon         \* how long a behaviour lasts (bound)

FormKinds == {"password", "sms", "send-login", "send-reset", "reset"}

ASSUME AuthFormsConstants ==
    /\ {Skew, Horizon} \subseteq Nat
    /\ FormKinds \subseteq Kinds
    /\ \A m \in Mixes : /\ m.form \in BOOLEAN /\ m.kinds \subseteq Kinds
                        /\ m.view \in {"login", "reset-password"}

VARIABLES
    mix,        \* the choices of Init
    form,       \* the state of the form, and the challenge cookie of its browser
    call,       \* the call the form waits for
    gate,       \* Redis: its time, the windows and the captchas
    sending,    \* the number each request sends to, and since when
    sent,       \* the codes sent: by whom, to which number and when (history)
    left        \* what may still happen (bounds)

formVars == <<form, call, left>>
gateVars == <<gate, sending, sent>>

-----------------------------------------------------------------------------
(* The form *)

NoCaptcha == [id |-> 0]
NoCall == [kind |-> "none"]

Purposes == {"password-login", "sms-login", "password-reset"}

Captcha == [id : Nat \ {0}, context : Nat \ {0}, purpose : Purposes, expires : Nat]

FormState ==
    [view : {"login", "reset-password"}, method : {"password", "sms"}, phone : Phones \cup {None},
     captcha : Captcha \cup {NoCaptcha}, loading : BOOLEAN,
     queue : Seq([purpose : Purposes, phase : {"waiting", "made", "refused"},
                  captcha : Captcha \cup {NoCaptcha}]),
     busy : BOOLEAN, done : BOOLEAN, cookie : Nat,
     cooldown : [Phones -> Nat], told : [Phones -> Requests \cup {None}]]

FormCall ==
    [kind : FormKinds, purpose : Purposes, phone : Phones, captcha : Nat, right : BOOLEAN,
     code : Requests \cup {None}, request : Requests \cup {None},
     phase : {"sent", "answered", "served"}, since : Nat,
     result : {"none", "limited", "captcha"}, retryAt : Nat, serverTime : Nat]

Send == [by : Requests, at : Nat]

Gate ==
    [now : Nat, windows : [Phones -> [sends : SUBSET Send, pending : Nat, expires : Nat]],
     captchas : SUBSET Captcha, made : Nat, last : [Phones -> Requests \cup {None}],
     broken : SUBSET Phones, late : SUBSET Phones]

FormTypeOK ==
    /\ mix \in Mixes
    /\ form \in FormState
    /\ call \in FormCall \cup {NoCall}
    /\ gate \in Gate
    /\ sending \in [Requests -> [phone : Phones \cup {None}, since : Nat]]
    /\ sent \subseteq [by : Requests, phone : Phones, at : Nat]

\* purposeFor
Purpose(f) ==
    IF f.view = "reset-password" THEN "password-reset"
    ELSE IF f.method = "password" THEN "password-login" ELSE "sms-login"

\* loadCaptcha: what is shown goes, and the request for another one is queued.
LoadCaptcha(f) ==
    [f EXCEPT !.captcha = NoCaptcha, !.loading = TRUE, !.done = FALSE,
              !.queue = Append(@, [purpose |-> Purpose(f), phase |-> "waiting", captcha |-> NoCaptcha])]

FirstForm ==
    LoadCaptcha([view |-> mix.view, method |-> "password", phone |-> None, captcha |-> NoCaptcha,
                 loading |-> FALSE, queue |-> << >>, busy |-> FALSE, done |-> FALSE, cookie |-> 0,
                 cooldown |-> [p \in Phones |-> 0], told |-> [p \in Phones |-> None]])

FirstGate == [now |-> 1, windows |-> [p \in Phones |-> NoWindow], captchas |-> {}, made |-> 0,
              last |-> [p \in Phones |-> None], broken |-> {}, late |-> {}]

NotSending == [phone |-> None, since |-> 0]

FormInit ==
    /\ Init
    /\ mix \in Mixes
    /\ form = FirstForm /\ call = NoCall
    /\ gate = FirstGate
    /\ sending = [r \in Requests |-> NotSending]
    /\ sent = {}
    /\ left = [moves |-> mix.moves, others |-> mix.others, rebinds |-> mix.rebinds,
               breaks |-> mix.breaks, failures |-> mix.failures]

LocalTime == gate.now + Skew

\* The button to send a code counts down.
CoolingDown == LocalTime < form.cooldown[form.phone]

Move(newForm, newCall) ==
    /\ left.moves > 0 /\ left' = [left EXCEPT !.moves = @ - 1]
    /\ ~ form.busy
    /\ form' = newForm /\ call' = newCall
    /\ UNCHANGED vars /\ UNCHANGED gateVars

TypePhone ==
    \E p \in Phones : form.phone # p /\ Move([form EXCEPT !.phone = p], call)

\* showLogin and showReset; the effect on the purpose loads a captcha.
Switch ==
    \E view \in {"login", "reset-password"}, method \in {"password", "sms"} :
      /\ view = "login" \/ method = form.method
      /\ form.view = "reset-password" => view = "login" /\ method = "password"
      /\ <<view, method>> # <<form.view, form.method>>
      /\ Move(LoadCaptcha([form EXCEPT !.view = view, !.method = method]), call)

Refresh == ~ form.loading /\ Move(LoadCaptcha(form), call)

Call(kind, right, code) ==
    [kind |-> kind, purpose |-> Purpose(form), phone |-> form.phone, captcha |-> form.captcha.id,
     right |-> right, code |-> code, request |-> None, phase |-> "sent", since |-> 0,
     result |-> "none", retryAt |-> 0, serverTime |-> 0]

\* sendCode
SendCode ==
    /\ form.phone # None /\ ~ CoolingDown
    /\ ~ form.loading /\ form.captcha # NoCaptcha
    /\ Purpose(form) # "password-login"
    /\ \E right \in BOOLEAN :
         Move([form EXCEPT !.busy = TRUE],
              Call(IF Purpose(form) = "sms-login" THEN "send-login" ELSE "send-reset", right, None))

\* submit: with a captcha and a password, or with a code.
SubmitPassword ==
    /\ Purpose(form) = "password-login" /\ form.phone # None /\ form.captcha # NoCaptcha
    /\ \E right \in BOOLEAN :
         Move([form EXCEPT !.busy = TRUE], Call("password", right, None))

SubmitCode ==
    /\ Purpose(form) # "password-login" /\ form.phone # None
    /\ \E code \in {c \in Requests : challenge[c].status # "absent"} :
         Move([form EXCEPT !.busy = TRUE],
              Call(IF Purpose(form) = "sms-login" THEN "sms" ELSE "reset", FALSE, code))

\* Mutation: the requests for captchas are not queued.
EveryOne(queue) == DOMAIN queue

\* captchaQueue: which of the requests for captchas are under way.
UnderWay(queue) == IF queue = << >> THEN {} ELSE {1}

Without(queue, i) == SubSeq(queue, 1, i - 1) \o SubSeq(queue, i + 1, Len(queue))

\* The answer to the last request is shown; its cookie is the browser's in any case.
ReceiveCaptcha ==
    \E i \in UnderWay(form.queue) :
      LET answer == form.queue[i]
          current == form.loading /\ i = Len(form.queue)
      IN /\ answer.phase # "waiting"
         /\ form' = [form EXCEPT
              !.queue = Without(@, i), !.loading = @ /\ ~ current,
              !.cookie = IF answer.phase = "made" THEN answer.captcha.context ELSE @,
              !.captcha = IF current THEN answer.captcha ELSE @]
    /\ UNCHANGED vars /\ UNCHANGED gateVars /\ UNCHANGED <<call, left>>

\* The answer does not arrive, or the request never did.
LoseCaptcha ==
    /\ left.failures > 0 /\ left' = [left EXCEPT !.failures = @ - 1]
    /\ \E i \in UnderWay(form.queue) :
         form' = [form EXCEPT !.queue = Without(@, i),
                              !.loading = @ /\ i # Len(form.queue)]
    /\ UNCHANGED vars /\ UNCHANGED gateVars /\ UNCHANGED call

-----------------------------------------------------------------------------
(* The gate *)

\* /captcha: for the browser's cookie, or with a new one.  Windows that this form
\* shares with other clients may turn it away.
MakeCaptcha ==
    \E i \in UnderWay(form.queue), admitted \in BOOLEAN :
      LET asked == form.queue[i]
          id == gate.made + 1
          captcha == [id |-> id, context |-> IF form.cookie = 0 THEN id ELSE form.cookie,
                      purpose |-> asked.purpose, expires |-> gate.now + CaptchaLife]
      IN /\ asked.phase = "waiting"
         /\ admitted \/ left.failures > 0
         /\ left' = [left EXCEPT !.failures = IF admitted THEN @ ELSE @ - 1]
         /\ gate' = IF admitted
                    THEN [gate EXCEPT !.captchas = Save(@, captcha), !.made = id] ELSE gate
         /\ form' = [form EXCEPT !.queue[i] =
                       IF admitted THEN [asked EXCEPT !.phase = "made", !.captcha = captcha]
                       ELSE [asked EXCEPT !.phase = "refused"]]
         /\ UNCHANGED vars /\ UNCHANGED <<call, sending, sent>>

Answered(result, retryAt, serverTime) ==
    [call EXCEPT !.phase = "answered", !.result = result, !.retryAt = retryAt, !.serverTime = serverTime]

\* A window of the client's address or of the whole application is full.
TurnAway ==
    /\ left.failures > 0 /\ left' = [left EXCEPT !.failures = @ - 1]
    /\ call # NoCall /\ call.phase = "sent"
    /\ call' = Answered("limited", gate.now + SendInterval, gate.now)
    /\ UNCHANGED vars /\ UNCHANGED gateVars /\ UNCHANGED form

\* handle: the captcha is consumed, and the request goes on to the database.
Admit ==
    /\ call # NoCall /\ call.phase = "sent"
    /\ LET taken == Consume(gate.captchas, form.cookie, call.purpose, call.captcha, call.right, gate.now)
           takes == call.kind = "password" \/ Sends(call.kind)
       IN /\ gate' = IF takes THEN [gate EXCEPT !.captchas = taken.captchas] ELSE gate
          /\ IF takes /\ ~ taken.ok
             THEN call' = Answered("captcha", 0, gate.now) /\ UNCHANGED vars
             ELSE \E r \in Requests :
                    /\ Start(r, call.kind)
                    /\ request'[r].phone = call.phone /\ request'[r].code = call.code
                    /\ call' = [call EXCEPT !.phase = "served", !.request = r, !.since = gate.now]
    /\ UNCHANGED <<form, sending, sent, left>>

-----------------------------------------------------------------------------
(* The requests *)

\* One of another client, which has passed the gate.
OtherStart(r) ==
    /\ left.others > 0 /\ left' = [left EXCEPT !.others = @ - 1]
    /\ \E kind \in mix.kinds : Start(r, kind)
    /\ UNCHANGED gateVars /\ UNCHANGED <<form, call>>

PlainStep(r) ==
    /\ \/ Resolve(r) \/ Refuse(r) \/ CheckPassword(r) \/ SignIn(r) \/ CommitChange(r) \/ SignOut(r)
       \/ Choose(r) \/ TakeCode(r) \/ RefuseCode(r)
    /\ UNCHANGED formVars /\ UNCHANGED gateVars

\* activePhone: the number of the user, or else the one asked for.
LockPhone(r) ==
    /\ Lock(r)
    /\ LET user == request[r].user
           phone == IF user # None /\ bound[user] # None THEN bound[user] ELSE request[r].phone
       IN sending' = IF Sends(request[r].kind) THEN [sending EXCEPT ![r].phone = phone] ELSE sending
    /\ UNCHANGED formVars /\ UNCHANGED <<gate, sent>>

\* What the form will be told of a send.
Reply(r, retryAt, serverTime) ==
    IF call # NoCall /\ call.request = r
    THEN [call EXCEPT !.retryAt = retryAt, !.serverTime = serverTime] ELSE call

\* reserveSend; who may not log in is answered as if a code had been sent.
ReserveSend(r) ==
    /\ request[r].pc = "locked" /\ Sends(request[r].kind)
    /\ LET p == sending[r].phone
           asked == Reserve(gate.windows[p], r, gate.now)
           done == Finish(asked.window, r, gate.now)
       IN \/ /\ ~ asked.allowed
             /\ RefuseSend(r)
             /\ gate' = [gate EXCEPT !.windows[p] = asked.window, !.last[p] = r]
             /\ call' = Reply(r, asked.retryAt, call.since)
             /\ UNCHANGED sending
          \/ /\ asked.allowed /\ AnswerAlike(r)
             /\ gate' = [gate EXCEPT !.windows[p] = done.window, !.last[p] = r]
             /\ call' = Reply(r, done.retryAt, gate.now)
             /\ UNCHANGED sending
          \/ /\ asked.allowed /\ EnterWindow(r)
             /\ gate' = [gate EXCEPT !.windows[p] = asked.window, !.last[p] = r]
             /\ sending' = [sending EXCEPT ![r].since = gate.now]
             /\ UNCHANGED call
    /\ UNCHANGED <<form, sent, left>>

\* A connection of the SMS store, for which a send waits as long as it takes.
ConnectSend(r) == BeginIssue(r) /\ UNCHANGED formVars /\ UNCHANGED gateVars

\* It has passed the window of its number and has not ended.
InFlight(r) == request[r].pc \in {"reserved", "issuing", "issued"}

CodeSent(r) == sent \cup {[by |-> r, phone |-> sending[r].phone, at |-> gate.now]}

\* A send that fails leaves the fence in place.
IssueCode(r) ==
    /\ Issue(r)
    /\ IF request'[r].pc = "issued" THEN sent' = CodeSent(r) /\ UNCHANGED gate
       ELSE UNCHANGED sent /\ gate' = [gate EXCEPT !.broken = @ \cup {sending[r].phone}]
    /\ UNCHANGED formVars /\ UNCHANGED sending

FinishSend(r) ==
    /\ Remember(r)
    /\ LET p == sending[r].phone
           done == Finish(gate.windows[p], r, gate.now)
       IN /\ gate' = [gate EXCEPT !.windows[p] = done.window, !.last[p] = r]
          /\ call' = Reply(r, done.retryAt, gate.now)
    /\ UNCHANGED <<form, sending, sent, left>>

\* The process may end while the gateway already has the code.
BreakRequest(r) ==
    /\ left.breaks > 0 /\ left' = [left EXCEPT !.breaks = @ - 1]
    /\ Break(r)
    /\ IF InFlight(r)
       THEN /\ gate' = [gate EXCEPT !.broken = @ \cup {sending[r].phone}]
            /\ sent' \in {sent} \cup (IF request[r].pc = "issuing" THEN {CodeSent(r)} ELSE {})
       ELSE UNCHANGED <<gate, sent>>
    /\ UNCHANGED <<form, call, sending>>

RebindPhone ==
    /\ left.rebinds > 0 /\ left' = [left EXCEPT !.rebinds = @ - 1]
    /\ \E u \in Users, p \in Phones \cup {None} : Rebind(u, p)
    /\ UNCHANGED gateVars /\ UNCHANGED <<form, call>>

\* The numbers with a send that at this time has less than SendInterval left of its
\* fence, or none.
Overdue(time) ==
    {p \in Phones : \E r \in Requests :
        InFlight(r) /\ sending[r].phone = p /\ sending[r].since + PendingFence < time + SendInterval}

\* A send takes as long as it takes.
Tick ==
    /\ gate.now < Horizon
    /\ gate' = [gate EXCEPT !.now = @ + 1,
                            !.captchas = {c \in @ : c.expires > gate.now + 1},
                            !.late = @ \cup Overdue(gate.now + 1)]
    /\ UNCHANGED vars /\ UNCHANGED formVars /\ UNCHANGED <<sending, sent>>

-----------------------------------------------------------------------------
(* Answers *)

\* Mutation: the server's time is taken for the browser's.
RecordedByServer(f, phone, retryAt, serverTime) == [f EXCEPT !.cooldown[phone] = retryAt]

\* recordRetry: what is left on the server's clock is counted on the browser's.
Recorded(f, phone, retryAt, serverTime) ==
    [f EXCEPT !.cooldown[phone] = LocalTime + Later(0, retryAt - serverTime)]

\* What follows a call: a failed one and every send load another captcha, and so does
\* the way back to the sign-in after a reset.
After(f, kind, ok) ==
    CASE ~ ok \/ Sends(kind) -> LoadCaptcha(f)
      [] ok /\ kind = "reset" -> LoadCaptcha([f EXCEPT !.view = "login", !.method = "password"])
      [] ok /\ kind = "password" -> [f EXCEPT !.done = TRUE]
      [] OTHER -> f

Told(f, retryAt, serverTime) ==
    IF ~ Sends(call.kind) THEN f
    ELSE IF retryAt = 0 THEN [f EXCEPT !.told[call.phone] = None]
    ELSE [Recorded(f, call.phone, retryAt, serverTime) EXCEPT !.told[call.phone] = call.request]

Arrive ==
    /\ call # NoCall
    /\ \/ call.phase = "answered"
       \/ call.phase = "served" /\ request[call.request].pc = "ended"
    /\ LET result == IF call.phase = "answered" THEN call.result ELSE request[call.request].result
       IN form' = After(Told([form EXCEPT !.busy = FALSE], call.retryAt, call.serverTime),
                        call.kind, result = "ok")
    /\ call' = NoCall
    /\ UNCHANGED vars /\ UNCHANGED gateVars /\ UNCHANGED left

\* The answer gets lost, or the call never arrived.
LoseAnswer ==
    /\ left.failures > 0 /\ left' = [left EXCEPT !.failures = @ - 1]
    /\ call # NoCall
    /\ form' = After(Told([form EXCEPT !.busy = FALSE], 0, 0), call.kind, FALSE)
    /\ call' = NoCall
    /\ UNCHANGED vars /\ UNCHANGED gateVars

-----------------------------------------------------------------------------
FormNext ==
    /\ \/ TypePhone \/ Switch \/ Refresh \/ SendCode \/ SubmitPassword \/ SubmitCode
       \/ ReceiveCaptcha \/ LoseCaptcha \/ MakeCaptcha \/ TurnAway \/ Admit
       \/ Arrive \/ LoseAnswer \/ RebindPhone \/ Tick
       \/ \E r \in Requests :
            \/ OtherStart(r) \/ PlainStep(r) \/ LockPhone(r) \/ ReserveSend(r) \/ ConnectSend(r)
            \/ IssueCode(r) \/ FinishSend(r) \/ BreakRequest(r)
    /\ UNCHANGED mix

\* Either the form is followed, or the requests of any clients alone.
FormSpec ==
    FormInit /\ [][IF mix.form THEN FormNext
                   ELSE Next /\ UNCHANGED formVars /\ UNCHANGED gateVars /\ UNCHANGED mix]_<<vars, mix, formVars, gateVars>>

-----------------------------------------------------------------------------
(* Properties *)

\* The captcha the form shows, unless its life is over, is the one the server would
\* take from this browser for what the form is about to do, however the user
\* switches while earlier ones are on their way.  Only after a sign-in the one used
\* for it is still there.
ShownCaptchaCounts ==
    LET c == form.captcha IN
    c # NoCaptcha /\ c.expires > gate.now /\ ~ form.busy /\ ~ form.done =>
        c \in gate.captchas /\ c.context = form.cookie /\ c.purpose = Purpose(form)

\* When the countdown of the form is over, the window of the number is open again,
\* whichever clock the browser has and however long the send took, unless someone
\* else has asked for a code meanwhile.
CooldownSuffices ==
    \A p \in Phones :
      /\ form.told[p] # None /\ form.told[p] = gate.last[p]
      /\ LocalTime >= form.cooldown[p]
      => Reserve(gate.windows[p], form.told[p], gate.now).allowed

\* Purpose by purpose, the captchas arrive in the order they were asked for.  A call
\* that hands one in leaves no other one under way, and the form waits for it.
CaptchasAreServed ==
    LET queue == form.queue
        pending == call # NoCall /\ (call.kind = "password" \/ Sends(call.kind))
        Known(c) == c.expires > gate.now => c \in gate.captchas
    IN /\ form.loading <=> queue # << >>
       /\ form.busy <=> call # NoCall
       /\ pending => ~ form.loading
       /\ \A i \in 2..Len(queue) : queue[i].phase = "waiting" /\ queue[i].captcha = NoCaptcha
       /\ form.loading =>
             /\ form.captcha = NoCaptcha
             /\ queue[Len(queue)].purpose = Purpose(form)
             /\ queue[1].phase # "made" => queue[1].captcha = NoCaptcha
             /\ queue[1].phase = "made" =>
                   LET c == queue[1].captcha IN
                   /\ c # NoCaptcha /\ c.purpose = queue[1].purpose /\ Known(c)
                   /\ form.cookie \in {0, c.context}
       /\ form.captcha # NoCaptcha =>
             /\ form.captcha.context = form.cookie /\ form.captcha.purpose = Purpose(form)
             /\ pending \/ form.done \/ Known(form.captcha)

\* From t on the window is open, unless it is used.
Opens(window, t) ==
    \/ window.expires <= t
    \/ /\ window.pending <= t
       /\ \A s \in window.sends : s.at + SendInterval <= t
       /\ Cardinality(Recent(window.sends, t)) < SendLimit

\* Whom the form has been told about has ended; until someone else asks for the number
\* its window opens when the answer says, on the server's clock and on the browser's.
AnswersOpen ==
    /\ call \in FormCall =>
          /\ call.phase = "sent" => call.request = None /\ call.retryAt = 0
          /\ call.since <= gate.now
    /\ call \in FormCall /\ call.retryAt # 0 /\ call.request # None =>
          /\ request[call.request].pc = "ended" /\ call.serverTime <= gate.now
          /\ gate.last[call.phone] = call.request =>
                Opens(gate.windows[call.phone], call.retryAt)
    /\ \A p \in Phones : form.told[p] # None =>
          /\ request[form.told[p]].pc = "ended" /\ form.cooldown[p] >= Skew
          /\ form.told[p] = gate.last[p] =>
                Opens(gate.windows[p], form.cooldown[p] - Skew)

\* What the form shows can be relied on: its captcha and its countdown.
FormInv == FormTypeOK /\ ShownCaptchaCounts /\ CooldownSuffices /\ CaptchasAreServed /\ AnswersOpen

\* Two codes for a number are SendInterval apart, whoever asks for them, while the
\* number changes hands and although processes end between the code and its record;
\* and there are no more than SendLimit in a window, unless a send failed.  Only a send
\* that outlasts its fence, or comes within SendInterval of its end, lets another code
\* for its number follow sooner; nothing keeps it from waiting that long.
SendsAreLimited ==
    \A s \in {t \in sent : t.phone \notin gate.late} :
      LET earlier == {t \in sent \ {s} : t.phone = s.phone /\ t.at <= s.at} IN
      /\ \A t \in earlier : s.at - t.at >= SendInterval
      /\ s.phone \notin gate.broken =>
           Cardinality({t \in earlier : t.at > s.at - SendWindow}) < SendLimit

\* A request that sends in time has the window of its number for itself: the fence, and
\* a place SendInterval behind all the others.
HoldsWindow(r) ==
    LET p == sending[r].phone
        since == sending[r].since
        own == [by |-> r, at |-> since]
    IN /\ gate.now + SendInterval <= since + PendingFence
       /\ gate.windows[p].pending = since + PendingFence
       /\ gate.windows[p].expires = since + PendingFence
       /\ own \in gate.windows[p].sends
       /\ \A s \in gate.windows[p].sends \ {own} : s.by # r /\ s.at + SendInterval <= since
       /\ \A s \in sent : s.phone = p =>
             IF s.by = r THEN since <= s.at ELSE s.at + SendInterval <= since
       /\ \A o \in Requests : InFlight(o) /\ sending[o].phone = p => o = r

\* What is known of a request that sends, in time or not.
Sender(r) ==
    /\ Sends(request[r].kind)
    /\ sending[r].phone \in Phones /\ sending[r].since <= gate.now
    /\ \A s \in sent : s.by = r => request[r].pc = "issued"
    /\ sending[r].phone \notin gate.late => HoldsWindow(r)

\* Its window has let it in, or has turned it away.
Admitted(r) == InFlight(r) \/ request[r].pc = "ended"

\* The window of a number is never fuller than its limit, and unless a send failed or
\* took too long it lives as long as what is in it counts.
WindowHolds(p) ==
    LET window == gate.windows[p] IN
    /\ IsFiniteSet(window.sends) /\ Cardinality(window.sends) <= SendLimit
    /\ \A s \in window.sends :
          /\ s.at <= gate.now /\ Admitted(s.by)
          /\ \A t \in window.sends : s.by = t.by => s = t
    /\ window.pending > gate.now => window.pending = window.expires
    /\ p \notin gate.broken \cup gate.late =>
          \/ \E r \in Requests : InFlight(r) /\ sending[r].phone = p
          \/ \A s \in window.sends : s.at + SendWindow <= window.expires

\* A code keeps the window closed for SendInterval, and it is counted in it, unless a
\* send took too long.
CodeCounts(s) ==
    LET window == gate.windows[s.phone] IN
    /\ s.at <= gate.now /\ request[s.by].pc \in {"issued", "ended"} /\ sending[s.by].phone = s.phone
    /\ \A t \in sent : s.by = t.by => s = t
    /\ s.at + SendInterval > gate.now /\ s.phone \notin gate.late =>
          /\ s.at + SendInterval <= window.expires
          /\ \/ s.at + SendInterval <= window.pending
             \/ \E t \in window.sends : s.at <= t.at
    /\ s.at + SendWindow > gate.now /\ s.phone \notin gate.broken \cup gate.late =>
          \E t \in window.sends : t.by = s.by /\ (s.at <= t.at \/ InFlight(t.by))

WindowsHold ==
    /\ \A p \in Phones : WindowHolds(p)
    /\ \A s \in sent : CodeCounts(s)
    /\ \A p \in Phones : gate.last[p] # None =>
          Admitted(gate.last[p]) /\ sending[gate.last[p]].phone = p
    /\ mix.form => \A r \in Requests :
          /\ Sends(request[r].kind) /\ request[r].pc \in {"started", "resolved"} =>
                request[r].phone # None
          /\ Sends(request[r].kind) /\ request[r].pc = "locked" => sending[r].phone # None
          /\ InFlight(r) => Sender(r)
    /\ ~ mix.form => /\ call = NoCall /\ sent = {}
                     /\ \A p \in Phones : /\ form.told[p] = None /\ gate.last[p] = None
                                          /\ gate.windows[p].sends = {}

\* However the sends of a number meet.
SendInv == SendsAreLimited /\ WindowsHold
=============================================================================
