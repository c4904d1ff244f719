------------------------------- MODULE HttpProbe -------------------------------
(***************************************************************************)
(* The readiness probe of one Service: the thread that sends requests to   *)
(* it (spawn_probe_worker, http_probe and sleep_with_cancel in             *)
(* cmd/campd/src/runtime.rs), with the time that it takes, and the state   *)
(* that the supervisor keeps of its answers, ProbeState.  Each blocking    *)
(* call has what is left of the attempt's timeout as its own; between two  *)
(* calls the thread may be held up.  The Service answers in pieces,        *)
(* slowly, or not at all; of an answer only the length of its first line   *)
(* and what the line says count.                                           *)
(*                                                                         *)
(* Times are relative: left is the deadline less the present moment.  The  *)
(* channel between the two, and a Service that has exited before its last  *)
(* answers are read, are in Supervisor.                                    *)
(***************************************************************************)
EXTENDS ProbeState, Sequences

CONSTANTS
    Timeout, Period, Poll,  \* timeout_ms, period_ms and POLL_INTERVAL
    Buffer,                 \* the bytes of an answer that are read, 128
    Responses,              \* what Services answer: [line, version, status]; line is the
                            \* length of the first line with its end, 0 if it has none
    MaxHeld                 \* bound: how long a thread is held up in one round

ASSUME TimesAssumption == {Timeout, Period, Poll} \subseteq Nat \ {0} /\ MaxHeld \in Nat
ASSUME BufferAssumption == Buffer \in Nat \ {0}
ASSUME ResponsesAssumption == \A r \in Responses : r.line \in Nat

VARIABLES
    step,
    left,       \* to the deadline of the attempt, or to the end of the period
    timeout,    \* that of the next call
    wake,       \* to the end of the call that blocks
    held,       \* for how long the thread has been held up since its attempt began
    peer,       \* "none", "open", "closed" or "reset"
    response, arrived,      \* the answer, and how much of it has come
    size,       \* how much the thread has read
    answer,     \* "yes" or "no", what the attempt has come to
    state,      \* the supervisor's ProbeState of the Service
    cancel,     \* set by the supervisor
    receiver,   \* the supervisor still has its end of the channel
    since,      \* history: the time since the last event, up to Period
    waited,     \* history: the time since cancel was set, up to MaxWaited
    after,      \* history: the events since cancel was set
    intime,     \* history: the first line has arrived before the deadline
    results     \* history: the latest results, up to Window

supervisor == <<state, cancel, receiver, results>>
connection == <<peer, response, arrived, intime>>
vars == <<step, left, timeout, wake, held, size, answer, since, waited, after, supervisor, connection>>

Blocked == {"connecting", "reading", "napping"}
Attempt == {"connect", "enter", "connecting", "request", "read", "receive", "reading"}
Running == {"check", "connect", "enter", "request", "read", "receive", "send", "nap"}

AtMost(m, n) == IF n < m THEN n ELSE m
AtLeast(m, n) == IF n < m THEN m ELSE n

MaxWaited == AtLeast(Timeout, Poll) + MaxHeld + 1
Window == AtLeast(SuccessThreshold, FailureThreshold)

NoResponse == [line |-> 0, version |-> "", status |-> 0]

TypeOK ==
    /\ step \in Running \cup Blocked \cup {"ended"}
    /\ left \in Int /\ timeout \in Nat /\ wake \in Nat /\ held \in Nat
    /\ peer \in {"none", "open", "closed", "reset"}
    /\ response \in Responses \cup {NoResponse}
    /\ arrived \in 0..Buffer + 1 /\ size \in 0..Buffer
    /\ answer \in {"yes", "no"}
    /\ state \in ProbeStates
    /\ cancel \in BOOLEAN /\ receiver \in BOOLEAN /\ intime \in BOOLEAN
    /\ since \in 0..Period /\ waited \in 0..MaxWaited /\ after \in Nat
    /\ results \in Seq(BOOLEAN) /\ Len(results) <= Window

Init ==
    /\ step = "check"
    /\ left = 0 /\ timeout = 0 /\ wake = 0 /\ held = 0
    /\ peer = "none" /\ response = NoResponse /\ arrived = 0 /\ size = 0
    /\ answer = "no"
    /\ state = NewProbe
    /\ cancel = FALSE /\ receiver = TRUE
    /\ since = Period /\ waited = 0 /\ after = 0
    /\ intime = FALSE /\ results = <<>>

-----------------------------------------------------------------------------
(* Time, the supervisor and the Service. *)

\* Something has come that the blocking read returns with.
Readable == arrived > size \/ peer \in {"closed", "reset"}

HeldUp == step \in Running \/ (step = "reading" /\ Readable)

\* A blocked thread is woken when its time is over.
Tick ==
    /\ step # "ended"
    /\ step \in Blocked => wake > 0
    /\ HeldUp => held < MaxHeld
    /\ left' = left - 1
    /\ wake' = IF step \in Blocked THEN wake - 1 ELSE wake
    /\ held' = IF HeldUp THEN held + 1 ELSE held
    /\ since' = AtMost(Period, since + 1)
    /\ waited' = IF cancel THEN AtMost(MaxWaited, waited + 1) ELSE waited
    /\ UNCHANGED <<step, timeout, size, answer, after, supervisor, connection>>

\* The Service exits, or campd shuts down.
Cancel ==
    /\ ~cancel
    /\ cancel' = TRUE
    /\ UNCHANGED <<step, left, timeout, wake, held, size, answer, since, waited, after,
                   state, receiver, results, connection>>

\* run() returns, with an error even if no process is terminated.
DropReceiver ==
    /\ receiver
    /\ receiver' = FALSE
    /\ UNCHANGED <<step, left, timeout, wake, held, size, answer, since, waited, after,
                   state, cancel, results, connection>>

IsSuccess(r) == r.version \in {"HTTP/1.0", "HTTP/1.1"} /\ r.status \in 200..399

\* The Service sends; what does not fit into the buffer counts as one byte.
Arrive ==
    /\ peer = "open" /\ arrived <= Buffer
    /\ \E n \in arrived + 1..Buffer + 1 :
          /\ arrived' = n
          /\ intime' = (intime \/ (response.line \in 1..n /\ left > 0))
    /\ UNCHANGED <<step, left, timeout, wake, held, size, answer, since, waited, after, supervisor,
                   peer, response>>

\* A reset throws away what has not been read.
Leave(how) ==
    /\ peer = "open"
    /\ peer' = how
    /\ arrived' = IF how = "reset" THEN size ELSE arrived
    /\ intime' = (intime /\ how # "reset")
    /\ UNCHANGED <<step, left, timeout, wake, held, size, answer, since, waited, after, supervisor,
                   response>>

-----------------------------------------------------------------------------
(* The thread. *)

\* remaining_until(); a mutant allows each call the whole timeout.
Whole(deadline) == Timeout
Remaining(deadline) == deadline

Give(result) == answer' = result /\ step' = "send"

\* The loop of the thread.
Begin ==
    /\ step = "check"
    /\ IF cancel
       THEN step' = "ended" /\ UNCHANGED <<left, held>>
       ELSE step' = "connect" /\ left' = Timeout /\ held' = 0
    /\ UNCHANGED <<timeout, wake, size, answer, since, waited, after, supervisor, connection>>

\* The timeout of a call is taken before the call is made.
Measure(from, to) ==
    /\ step = from
    /\ IF Remaining(left) > 0 THEN timeout' = Remaining(left) /\ step' = to /\ UNCHANGED answer
       ELSE Give("no") /\ UNCHANGED timeout
    /\ UNCHANGED <<left, wake, held, size, since, waited, after, supervisor, connection>>

Enter(from, to) ==
    /\ step = from
    /\ step' = to
    /\ wake' = timeout /\ timeout' = 0
    /\ UNCHANGED <<left, held, size, answer, since, waited, after, supervisor, connection>>

\* TcpStream::connect_timeout(): a connection, or an error.
Connect ==
    /\ step = "connecting"
    /\ wake' = 0
    /\ \/ step' = "request" /\ peer' = "open" /\ response' \in Responses /\ UNCHANGED answer
       \/ Give("no") /\ UNCHANGED <<peer, response>>
    /\ UNCHANGED <<left, timeout, held, size, since, waited, after, supervisor, arrived, intime>>

\* The request, which fits into the buffer of a new socket, so that write_all() does
\* not block; it fails on a connection that has been reset.
Request ==
    /\ step = "request"
    /\ \/ Remaining(left) > 0 /\ peer # "reset" /\ step' = "read" /\ UNCHANGED answer
       \/ (Remaining(left) <= 0 \/ peer = "reset") /\ Give("no")
    /\ UNCHANGED <<left, timeout, wake, held, size, since, waited, after, supervisor, connection>>

\* What n bytes mean: there is a first line, or none can come, or more is needed; a
\* mutant takes a full buffer for a line.
Truncated(n) == IF response.line \in 1..n \/ n = Buffer
                THEN IF IsSuccess(response) THEN "yes" ELSE "no" ELSE "more"
Verdict(n) ==
    CASE response.line \in 1..n -> IF IsSuccess(response) THEN "yes" ELSE "no"
      [] response.line \notin 1..n /\ n = Buffer -> "no"
      [] response.line \notin 1..n /\ n # Buffer -> "more"

\* How much has been read then.
Taken == AtMost(Buffer, arrived)

\* read() returns what there is; nothing, when the Service has closed; or an error.
Read ==
    /\ step = "reading" /\ Readable
    /\ wake' = 0
    /\ IF arrived > size
       THEN /\ size' = Taken
            /\ IF Verdict(Taken) = "more" THEN step' = "read" /\ UNCHANGED answer
               ELSE Give(Verdict(Taken))
       ELSE Give("no") /\ UNCHANGED size
    /\ UNCHANGED <<left, timeout, held, since, waited, after, supervisor, connection>>

\* A call that has used up its time fails.
TimeOut ==
    /\ step \in {"connecting", "reading"} /\ wake = 0
    /\ Give("no")
    /\ UNCHANGED <<left, timeout, wake, held, size, since, waited, after, supervisor, connection>>

\* How long the thread then sleeps, and in a mutant from the start of the attempt.
SinceStart == Period + left - Timeout
Rest == Period

LastOf(n, s) == IF Len(s) <= n THEN s ELSE SubSeq(s, Len(s) - n + 1, Len(s))

\* The supervisor applies the event, unless the Service has exited.
Apply ==
    IF cancel THEN UNCHANGED <<state, results>>
    ELSE /\ state' = Observe(state, answer = "yes")
         /\ results' = LastOf(Window, Append(results, answer = "yes"))

\* send(), which fails without a receiver; the connection is closed by now.
Send ==
    /\ step = "send"
    /\ IF receiver
       THEN /\ step' = "nap" /\ left' = Rest
            /\ since' = 0 /\ after' = IF cancel THEN after + 1 ELSE after
            /\ Apply
       ELSE step' = "ended" /\ UNCHANGED <<left, since, after, state, results>>
    /\ size' = 0 /\ answer' = "no"
    /\ peer' = "none" /\ response' = NoResponse /\ arrived' = 0 /\ intime' = FALSE
    /\ UNCHANGED <<timeout, wake, held, waited, cancel, receiver>>

\* sleep_with_cancel(): in naps of POLL_INTERVAL, or in a mutant in one.
NapOn == left
NapTime == AtMost(Poll, left)

Nap ==
    /\ step = "nap"
    /\ IF cancel \/ left <= 0 THEN step' = "check" /\ UNCHANGED wake
       ELSE step' = "napping" /\ wake' = NapTime
    /\ UNCHANGED <<left, timeout, held, size, answer, since, waited, after, supervisor, connection>>

WakeUp ==
    /\ step = "napping" /\ wake = 0
    /\ step' = "nap"
    /\ UNCHANGED <<left, timeout, wake, held, size, answer, since, waited, after, supervisor, connection>>

Thread ==
    \/ Begin \/ Connect \/ Request \/ Read \/ TimeOut \/ Send \/ Nap \/ WakeUp
    \/ Measure("connect", "enter") \/ Enter("enter", "connecting")
    \/ Measure("read", "receive") \/ Enter("receive", "reading")

Next == Tick \/ Thread \/ Cancel \/ DropReceiver \/ Arrive \/ \E how \in {"closed", "reset"} : Leave(how)

Spec == Init /\ [][Next]_vars

\* Time passes, and a thread that can run does so at some time.  No Service has to
\* answer, and connect() may fail only by its timeout.
FairSpec == Spec /\ WF_vars(Tick) /\ WF_vars(step # "connecting" /\ Thread) /\ WF_vars(TimeOut)

-----------------------------------------------------------------------------
\* An attempt lasts no longer than its timeout and the time in which its thread was
\* held up, however slowly the Service sends.
AnswersInTime == step \in Attempt => left + held >= 0

\* A success has a whole first line of a good status in the bytes that were read; and
SuccessIsEarned == step = "send" /\ answer = "yes" =>
    response.line \in 1..size /\ size <= arrived /\ IsSuccess(response)

\* a good first line that fits the buffer and arrives before the deadline makes one.
TimelyAnswerCounts == step = "send" /\ held = 0 /\ intime /\ response.line \in 1..Buffer
        /\ IsSuccess(response) => answer = "yes"

\* The result of an attempt is what the Service answered, in however many pieces the
\* answer comes and whether the Service then closes or not.
AnswersAreRight == SuccessIsEarned /\ TimelyAnswerCounts

\* Two events are a period apart, whatever the Service does: this is what bounds the
\* channel to the supervisor, which has no bound of its own.
EventsArePaced == [][step = "send" /\ step' = "nap" => since = Period]_vars

\* Health changes only when the latest results are a run as long as the threshold,
\* and then it is what the run says: the attempts before it, and counters that stop at
\* CounterMax, make no difference.
Run(k, result) == Len(results) >= k /\ \A i \in 0..k - 1 : results[Len(results) - i] = result

HealthIsLastRun == [][state'.health =
    IF Run(SuccessThreshold, TRUE)' THEN "Ready"
    ELSE IF Run(FailureThreshold, FALSE)' THEN "Unready" ELSE state.health]_vars

\* A cancelled thread ends, after its attempt or its nap and not after its period, and
\* sends at most one more event.
EndsSoon == cancel /\ step # "ended" => waited <= AtLeast(Timeout, Poll) + held
CancelIsHeard == [](EndsSoon /\ after <= 1) /\ (cancel ~> step = "ended")
=============================================================================
