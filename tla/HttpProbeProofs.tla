---------------------------- MODULE HttpProbeProofs ----------------------------
(* A probe is in time, its events are paced, and it stops when it is told to. *)
EXTENDS HttpProbe, SequenceTheorems, TLAPS

\* No call ends later than the deadline of its attempt, but for the time in which the
\* thread was held up: a call is given no more than what is left.
TimeInv ==
    /\ step \in Attempt \cup {"send"} => left + held >= 0
    /\ step \in {"enter", "receive"} => left + held >= timeout
    /\ step \in {"connecting", "reading"} => left + held >= wake

\* An attempt begins a period after the last event, unless the thread is told to end.
PaceInv ==
    /\ step \in Attempt \cup {"send"} => since = Period
    /\ step = "check" => since = Period \/ cancel
    /\ step \in {"nap", "napping"} => since = Period \/ left + since >= Period

\* What a thread can still do once it is told to end: finish its attempt, or its nap.
Grace == AtLeast(Timeout, Poll)

CancelInv ==
    /\ ~cancel => waited = 0
    /\ step \in Attempt \cup {"send"} => waited + left <= Timeout
    /\ cancel /\ step \in {"nap", "check"} => waited <= Grace + held
    /\ step = "napping" => wake <= Poll
    /\ cancel /\ step = "napping" => waited + wake <= Poll

\* Its last event is followed by nothing else.
LastInv ==
    /\ after <= 1
    /\ ~cancel => after = 0
    /\ after = 1 => step \in {"nap", "check", "ended"}

LEMMA ObserveType == \A p \in ProbeStates : \A b \in BOOLEAN : Observe(p, b) \in ProbeStates
  BY ThresholdsAssumption DEF ProbeStates, Observe, Saturated

LEMMA LastOfType ==
  ASSUME NEW n \in Nat, NEW s \in Seq(BOOLEAN)
  PROVE  LastOf(n, s) \in Seq(BOOLEAN) /\ Len(LastOf(n, s)) <= n
  <1>1. CASE Len(s) <= n
    BY <1>1 DEF LastOf
  <1>2. CASE Len(s) > n
    <2> DEFINE k == Len(s)
    <2> HIDE DEF k
    <2>2. k \in Nat /\ k > n /\ k = Len(s)
      BY <1>2 DEF k
    <2>3. k - n + 1 \in Int /\ k \in Int /\ k - (k - n + 1) + 1 = n /\ (n = 0 \/ k - n + 1 <= k)
      BY <2>2
    <2>4. \A i \in k - n + 1..k : s[i] \in BOOLEAN
      <3>1. \A i \in k - n + 1..k : i \in 1..Len(s)
        BY <2>2
      <3> QED
        BY <3>1, ElementOfSeq
    <2>5. /\ SubSeq(s, k - n + 1, k) \in Seq(BOOLEAN)
          /\ Len(SubSeq(s, k - n + 1, k)) = IF k - n + 1 <= k THEN k - (k - n + 1) + 1 ELSE 0
      BY ONLY <2>3, <2>4, SubSeqProperties
    <2>6. LastOf(n, s) = SubSeq(s, k - n + 1, k)
      BY <2>2 DEF LastOf
    <2>7. Len(LastOf(n, s)) <= n
      BY <2>3, <2>5, <2>6
    <2> QED
      BY <2>5, <2>6, <2>7
  <1> QED
    BY <1>1, <1>2

LEMMA WindowType == Window \in Nat /\ MaxWaited \in Nat
  BY ThresholdsAssumption, TimesAssumption DEF Window, MaxWaited, AtLeast

LEMMA TypeInit == Init => TypeOK
  <1> SUFFICES ASSUME Init PROVE TypeOK
    OBVIOUS
  <1>1. NewProbe \in ProbeStates
    BY ThresholdsAssumption DEF NewProbe, ProbeStates
  <1>2. results \in Seq(BOOLEAN) /\ Len(results) <= Window
    BY WindowType DEF Init
  <1>3. cancel \in BOOLEAN /\ receiver \in BOOLEAN /\ intime \in BOOLEAN
    BY DEF Init
  <1>4. since \in 0..Period /\ waited \in 0..MaxWaited /\ arrived \in 0..Buffer + 1 /\ size \in 0..Buffer
    BY WindowType, TimesAssumption, BufferAssumption DEF Init
  <1>5. response \in Responses \cup {NoResponse} /\ state \in ProbeStates
    BY <1>1 DEF Init
  <1> QED
    BY <1>2, <1>3, <1>4, <1>5 DEF Init, TypeOK, Running

\* Every step keeps the types.
LEMMA TypeStep == TypeOK /\ [Next]_vars => TypeOK'
  <1> SUFFICES ASSUME TypeOK, [Next]_vars PROVE TypeOK'
    OBVIOUS
  <1> USE TimesAssumption, BufferAssumption, WindowType
      DEF TypeOK, supervisor, connection, Running, Blocked
  <1>1. CASE UNCHANGED vars
    BY <1>1 DEF vars
  <1>2. CASE Tick
    BY <1>2 DEF Tick, AtMost, HeldUp
  <1>3. CASE Cancel
    BY <1>3 DEF Cancel
  <1>4. CASE DropReceiver
    BY <1>4 DEF DropReceiver
  <1>5. CASE Arrive
    BY <1>5 DEF Arrive
  <1>6. ASSUME NEW how \in {"closed", "reset"}, Leave(how) PROVE TypeOK'
    BY <1>6 DEF Leave
  <1>7. CASE Begin
    BY <1>7 DEF Begin
  <1>8. ASSUME NEW from \in Running, NEW to \in Running, Measure(from, to) PROVE TypeOK'
    BY <1>8 DEF Measure, Remaining, Give
  <1>9. ASSUME NEW from \in Running, NEW to \in Blocked, Enter(from, to) PROVE TypeOK'
    BY <1>9 DEF Enter
  <1>10. CASE Connect
    BY <1>10 DEF Connect, Give
  <1>11. CASE Request
    BY <1>11 DEF Request, Give
  <1>12. CASE Read
    <2>1. Taken \in 0..Buffer
      BY DEF Taken, AtMost
    <2>2. Verdict(Taken) \in {"yes", "no", "more"}
      BY DEF Verdict
    <2> QED
      BY <1>12, <2>1, <2>2 DEF Read, Give
  <1>13. CASE TimeOut
    BY <1>13 DEF TimeOut, Give
  <1>14. CASE Send
    <2>1. Observe(state, answer = "yes") \in ProbeStates
      BY ObserveType
    <2>a. Append(results, answer = "yes") \in Seq(BOOLEAN)
      BY AppendProperties
    <2>2. LastOf(Window, Append(results, answer = "yes")) \in Seq(BOOLEAN)
          /\ Len(LastOf(Window, Append(results, answer = "yes"))) <= Window
      BY <2>a, LastOfType
    <2>3. state' \in ProbeStates /\ results' \in Seq(BOOLEAN) /\ Len(results') <= Window
      BY <1>14, <2>1, <2>2 DEF Send, Apply
    <2>4. since' \in 0..Period /\ after' \in Nat
      BY <1>14 DEF Send
    <2>5. UNCHANGED <<timeout, wake, held, waited, cancel, receiver>> /\ left' \in Int
      BY <1>14 DEF Send, Rest
    <2>6. /\ step' \in {"nap", "ended"} /\ size' = 0 /\ answer' = "no" /\ peer' = "none"
          /\ response' = NoResponse /\ arrived' = 0 /\ intime' = FALSE
      BY <1>14 DEF Send
    <2>7. cancel' \in BOOLEAN /\ receiver' \in BOOLEAN /\ intime' \in BOOLEAN
      BY <2>5, <2>6
    <2>8. response' \in Responses \cup {NoResponse} /\ waited' \in 0..MaxWaited
      BY <2>5, <2>6
    <2> QED
      BY <2>3, <2>4, <2>5, <2>6, <2>7, <2>8
  <1>15. CASE Nap
    BY <1>15 DEF Nap, NapTime, AtMost
  <1>16. CASE WakeUp
    BY <1>16 DEF WakeUp
  <1> QED
    BY <1>1, <1>2, <1>3, <1>4, <1>5, <1>6, <1>7, <1>8, <1>9, <1>10, <1>11, <1>12, <1>13,
       <1>14, <1>15, <1>16 DEF Next, Thread

\* Every step keeps the time of calls within that of their attempt.
LEMMA TimeStep == TypeOK /\ TimeInv /\ [Next]_vars => TimeInv'
  <1> SUFFICES ASSUME TypeOK, TimeInv, [Next]_vars PROVE TimeInv'
    OBVIOUS
  <1>0. /\ left \in Int /\ timeout \in Nat /\ wake \in Nat /\ held \in Nat /\ Timeout \in Nat \ {0}
        /\ step \in Running \cup Blocked \cup {"ended"}
    BY TimesAssumption DEF TypeOK
  <1> USE <1>0 DEF TimeInv, Attempt, Running, Blocked
  <1>1. CASE UNCHANGED vars
    BY <1>1 DEF vars
  <1>2. CASE Tick
    BY <1>2 DEF Tick, HeldUp
  <1>3. CASE Cancel \/ DropReceiver \/ Arrive \/ \E how \in {"closed", "reset"} : Leave(how)
    BY <1>3 DEF Cancel, DropReceiver, Arrive, Leave
  <1>4. CASE Begin
    BY <1>4 DEF Begin
  <1>5. CASE Measure("connect", "enter") \/ Measure("read", "receive")
    BY <1>5 DEF Measure, Remaining, Give
  <1>6. CASE Enter("enter", "connecting") \/ Enter("receive", "reading")
    BY <1>6 DEF Enter
  <1>7. CASE Connect
    BY <1>7 DEF Connect, Give
  <1>8. CASE Request
    BY <1>8 DEF Request, Give
  <1>9. CASE Read
    BY <1>9 DEF Read, Give
  <1>10. CASE TimeOut
    BY <1>10 DEF TimeOut, Give
  <1>11. CASE Send
    BY <1>11 DEF Send
  <1>12. CASE Nap
    BY <1>12 DEF Nap
  <1>13. CASE WakeUp
    BY <1>13 DEF WakeUp
  <1> QED
    BY <1>1, <1>2, <1>3, <1>4, <1>5, <1>6, <1>7, <1>8, <1>9, <1>10, <1>11, <1>12, <1>13
       DEF Next, Thread

\* Every step keeps the distance to the last event.
LEMMA PaceStep == TypeOK /\ PaceInv /\ [Next]_vars => PaceInv'
  <1> SUFFICES ASSUME TypeOK, PaceInv, [Next]_vars PROVE PaceInv'
    OBVIOUS
  <1>0. /\ left \in Int /\ since \in 0..Period /\ Period \in Nat \ {0}
        /\ step \in Running \cup Blocked \cup {"ended"}
    BY TimesAssumption DEF TypeOK
  <1> USE <1>0 DEF PaceInv, Attempt, Running, Blocked
  <1>1. CASE UNCHANGED vars
    BY <1>1 DEF vars, supervisor
  <1>2. CASE Tick
    <2>1. since' = Period \/ since' = since + 1
      BY <1>2 DEF Tick, AtMost
    <2>2. since = Period => since' = Period
      BY <1>2 DEF Tick, AtMost
    <2> QED
      BY <1>2, <2>1, <2>2 DEF Tick, supervisor
  <1>3. CASE Cancel \/ DropReceiver \/ Arrive \/ \E how \in {"closed", "reset"} : Leave(how)
    BY <1>3 DEF Cancel, DropReceiver, Arrive, Leave, supervisor
  <1>4. CASE Begin
    BY <1>4 DEF Begin, supervisor
  <1>5. CASE Measure("connect", "enter") \/ Measure("read", "receive")
    BY <1>5 DEF Measure, Give, supervisor
  <1>6. CASE Enter("enter", "connecting") \/ Enter("receive", "reading")
    BY <1>6 DEF Enter, supervisor
  <1>7. CASE Connect
    BY <1>7 DEF Connect, Give, supervisor
  <1>8. CASE Request
    BY <1>8 DEF Request, Give, supervisor
  <1>9. CASE Read
    BY <1>9 DEF Read, Give, supervisor
  <1>10. CASE TimeOut
    BY <1>10 DEF TimeOut, Give, supervisor
  <1>11. CASE Send
    BY <1>11 DEF Send, Rest
  <1>12. CASE Nap
    BY <1>12 DEF Nap, supervisor
  <1>13. CASE WakeUp
    BY <1>13 DEF WakeUp, supervisor
  <1> QED
    BY <1>1, <1>2, <1>3, <1>4, <1>5, <1>6, <1>7, <1>8, <1>9, <1>10, <1>11, <1>12, <1>13
       DEF Next, Thread

\* Every step keeps what is left to a thread that is told to end.
LEMMA CancelStep == TypeOK /\ TimeInv /\ CancelInv /\ [Next]_vars => CancelInv'
  <1> SUFFICES ASSUME TypeOK, TimeInv, CancelInv, [Next]_vars PROVE CancelInv'
    OBVIOUS
  <1>0. /\ left \in Int /\ wake \in Nat /\ held \in Nat /\ waited \in Nat
        /\ step \in Running \cup Blocked \cup {"ended"} /\ cancel \in BOOLEAN
        /\ Grace \in Nat /\ Timeout \in Nat /\ Poll \in Nat /\ Timeout <= Grace /\ Poll <= Grace
        /\ MaxWaited \in Nat
    BY TimesAssumption, WindowType DEF TypeOK, Grace, AtLeast
  <1> USE <1>0 DEF CancelInv, TimeInv, Attempt, Running, Blocked
  <1>1. CASE UNCHANGED vars
    BY <1>1 DEF vars, supervisor
  <1>2. CASE Tick
    BY <1>2 DEF Tick, HeldUp, AtMost, supervisor
  <1>3. CASE Cancel
    BY <1>3 DEF Cancel
  <1>4. CASE DropReceiver \/ Arrive \/ \E how \in {"closed", "reset"} : Leave(how)
    BY <1>4 DEF DropReceiver, Arrive, Leave, supervisor
  <1>5. CASE Begin
    BY <1>5 DEF Begin, supervisor
  <1>6. CASE Measure("connect", "enter") \/ Measure("read", "receive")
    BY <1>6 DEF Measure, Remaining, Give, supervisor
  <1>7. CASE Enter("enter", "connecting") \/ Enter("receive", "reading")
    BY <1>7 DEF Enter, supervisor
  <1>8. CASE Connect
    BY <1>8 DEF Connect, Give, supervisor
  <1>9. CASE Request
    BY <1>9 DEF Request, Give, supervisor
  <1>10. CASE Read
    BY <1>10 DEF Read, Give, supervisor
  <1>11. CASE TimeOut
    BY <1>11 DEF TimeOut, Give, supervisor
  <1>12. CASE Send
    BY <1>12 DEF Send
  <1>13. CASE Nap
    BY <1>13 DEF Nap, NapTime, AtMost, supervisor
  <1>14. CASE WakeUp
    BY <1>14 DEF WakeUp, supervisor
  <1> QED
    BY <1>1, <1>2, <1>3, <1>4, <1>5, <1>6, <1>7, <1>8, <1>9, <1>10, <1>11, <1>12, <1>13, <1>14
       DEF Next, Thread

\* Every step keeps the events after the thread is told to end.
LEMMA LastStep == TypeOK /\ LastInv /\ [Next]_vars => LastInv'
  <1> SUFFICES ASSUME TypeOK, LastInv, [Next]_vars PROVE LastInv'
    OBVIOUS
  <1>0. after \in Nat /\ step \in Running \cup Blocked \cup {"ended"} /\ cancel \in BOOLEAN
    BY DEF TypeOK
  <1> USE <1>0 DEF LastInv, Running, Blocked
  <1>1. CASE UNCHANGED vars
    BY <1>1 DEF vars, supervisor
  <1>2. CASE Tick
    BY <1>2 DEF Tick, HeldUp, AtMost, supervisor
  <1>3. CASE Cancel
    BY <1>3 DEF Cancel
  <1>4. CASE DropReceiver \/ Arrive \/ \E how \in {"closed", "reset"} : Leave(how)
    BY <1>4 DEF DropReceiver, Arrive, Leave, supervisor
  <1>5. CASE Begin
    BY <1>5 DEF Begin, supervisor
  <1>6. CASE Measure("connect", "enter") \/ Measure("read", "receive")
    BY <1>6 DEF Measure, Remaining, Give, supervisor
  <1>7. CASE Enter("enter", "connecting") \/ Enter("receive", "reading")
    BY <1>7 DEF Enter, supervisor
  <1>8. CASE Connect
    BY <1>8 DEF Connect, Give, supervisor
  <1>9. CASE Request
    BY <1>9 DEF Request, Give, supervisor
  <1>10. CASE Read
    BY <1>10 DEF Read, Give, supervisor
  <1>11. CASE TimeOut
    BY <1>11 DEF TimeOut, Give, supervisor
  <1>12. CASE Send
    BY <1>12 DEF Send
  <1>13. CASE Nap
    BY <1>13 DEF Nap, NapTime, AtMost, supervisor
  <1>14. CASE WakeUp
    BY <1>14 DEF WakeUp, supervisor
  <1> QED
    BY <1>1, <1>2, <1>3, <1>4, <1>5, <1>6, <1>7, <1>8, <1>9, <1>10, <1>11, <1>12, <1>13, <1>14
       DEF Next, Thread

LEMMA InvInit == Init => TimeInv /\ PaceInv /\ CancelInv /\ LastInv
  BY TimesAssumption DEF Init, TimeInv, PaceInv, CancelInv, LastInv, Attempt, Grace

ProbeInv == TypeOK /\ TimeInv /\ PaceInv /\ CancelInv /\ LastInv

LEMMA Invariance == Spec => []ProbeInv
  <1>1. Init => ProbeInv
    BY TypeInit, InvInit DEF ProbeInv
  <1>2. ProbeInv /\ [Next]_vars => ProbeInv'
    BY TypeStep, TimeStep, PaceStep, CancelStep, LastStep DEF ProbeInv
  <1> QED
    BY <1>1, <1>2, PTL DEF Spec

\* The variables of a probe keep their types.
THEOREM TypeCorrect == Spec => []TypeOK
  BY Invariance, PTL DEF ProbeInv

\* http_probe(): an attempt lasts no longer than its timeout and the time in which its
\* thread was held up, whatever the Service sends and when.
THEOREM AttemptsEnd == Spec => []AnswersInTime
  <1>1. ProbeInv => AnswersInTime
    BY DEF ProbeInv, TimeInv, AnswersInTime
  <1> QED
    BY <1>1, Invariance, PTL

\* spawn_probe_worker(): no two events are less than a period apart.
THEOREM Paced == Spec => EventsArePaced
  <1>1. ProbeInv /\ [Next]_vars => [step = "send" /\ step' = "nap" => since = Period]_vars
    BY DEF ProbeInv, PaceInv
  <1> QED
    BY <1>1, Invariance, PTL DEF Spec, EventsArePaced

\* sleep_with_cancel(): a cancelled thread is gone after the longer of a timeout and a
\* nap, but for the time in which it was held up, and sends at most one more event.
THEOREM CancelBound == Spec => [](EndsSoon /\ after <= 1)
  <1>1. ProbeInv => EndsSoon /\ after <= 1
    <2> SUFFICES ASSUME ProbeInv PROVE EndsSoon /\ after <= 1
      OBVIOUS
    <2>1. /\ left \in Int /\ wake \in Nat /\ held \in Nat /\ waited \in Nat
          /\ step \in Running \cup Blocked \cup {"ended"}
          /\ Grace \in Nat /\ Timeout \in Nat /\ Poll \in Nat /\ Timeout <= Grace /\ Poll <= Grace
      BY TimesAssumption, WindowType DEF ProbeInv, TypeOK, Grace, AtLeast
    <2>2. cancel /\ step # "ended" => waited <= Grace + held
      BY <2>1 DEF ProbeInv, TimeInv, CancelInv, Attempt, Running, Blocked
    <2> QED
      BY <2>2 DEF ProbeInv, LastInv, EndsSoon, Grace
  <1> QED
    BY <1>1, Invariance, PTL

-----------------------------------------------------------------------------
(***************************************************************************)
(* The result of an attempt.  That a success is earned is a matter of      *)
(* reading; that a timely answer counts is one of time as well: the        *)
(* deadline of a call must not be earlier than that of the attempt, and a  *)
(* thread that is not held up reads the answer at the moment it comes.     *)
(***************************************************************************)

\* The steps without a connection.
Apart == {"check", "connect", "enter", "connecting", "nap", "napping", "ended"}

\* The connection, what has been read of it, and when its first line arrived.
ConnectionInv ==
    /\ step \in Apart => /\ peer = "none" /\ response = NoResponse
                         /\ arrived = 0 /\ size = 0 /\ ~intime
    /\ size <= arrived
    /\ intime => response.line \in 1..arrived /\ peer \in {"open", "closed"}

\* An attempt goes on only while the first line has not been read.
UnreadInv ==
    /\ step # "send" => answer = "no"
    /\ step \in Attempt => response.line = 0 \/ size < response.line

\* A call of a thread that is not held up has all the time that its attempt has left.
DeadlineInv == held = 0 =>
    /\ step \in {"enter", "receive"} => timeout = left
    /\ step \in {"connecting", "reading"} => wake = left
    /\ step \in Attempt /\ intime => left > 0

\* A good answer was missed only if it came too late, or was cut short.
MissedInv ==
    step = "send" /\ answer = "no" /\ held = 0 /\ response.line \in 1..Buffer
            /\ IsSuccess(response) =>
        ~intime /\ (peer # "open" \/ left <= 0)

AnswerInv == ConnectionInv /\ UnreadInv /\ DeadlineInv /\ MissedInv /\ SuccessIsEarned

LEMMA ResponseType == \A r \in Responses \cup {NoResponse} : r.line \in Nat
  <1>1. NoResponse.line = 0
    BY DEF NoResponse
  <1>2. \A r \in Responses : r.line \in Nat
    BY ResponsesAssumption, Zenon
  <1> QED
    BY <1>1, <1>2

LEMMA AnswerStep == TypeOK /\ AnswerInv /\ [Next]_vars => AnswerInv'
  <1> SUFFICES ASSUME TypeOK, AnswerInv, [Next]_vars PROVE AnswerInv'
    OBVIOUS
  <1>0. /\ left \in Int /\ timeout \in Nat /\ wake \in Nat /\ held \in Nat /\ response.line \in Nat
        /\ step \in Running \cup Blocked \cup {"ended"} /\ answer \in {"yes", "no"}
        /\ arrived \in 0..Buffer + 1 /\ size \in 0..Buffer /\ intime \in BOOLEAN
        /\ Timeout \in Nat \ {0} /\ Buffer \in Nat \ {0} /\ NoResponse.line = 0
    BY ResponseType, TimesAssumption, BufferAssumption DEF TypeOK, NoResponse
  <1> USE <1>0 DEF AnswerInv, ConnectionInv, UnreadInv, DeadlineInv, MissedInv, SuccessIsEarned,
                   Apart, Attempt, Running, Blocked, connection
  <1>1. CASE UNCHANGED vars
    BY <1>1 DEF vars
  <1>2. CASE Tick
    <2>1. /\ UNCHANGED <<step, timeout, size, answer, peer, response, arrived, intime>>
          /\ left' = left - 1
          /\ wake' = IF step \in Blocked THEN wake - 1 ELSE wake
          /\ held' = IF HeldUp THEN held + 1 ELSE held
      BY <1>2 DEF Tick
    <2>2. ConnectionInv' /\ UnreadInv' /\ SuccessIsEarned'
      BY <2>1
    <2>3. step \in Attempt /\ intime /\ ~(step \in Running) => HeldUp
      BY DEF HeldUp, Readable
    <2>4. DeadlineInv'
      BY <2>1, <2>3 DEF HeldUp
    <2>5. MissedInv'
      BY <2>1 DEF HeldUp
    <2> QED
      BY <2>2, <2>4, <2>5
  <1>3. CASE Cancel \/ DropReceiver
    BY <1>3 DEF Cancel, DropReceiver
  <1>4. CASE Arrive
    <2>1. PICK n \in arrived + 1..Buffer + 1 :
            arrived' = n /\ intime' = (intime \/ (response.line \in 1..n /\ left > 0))
      BY <1>4, Zenon DEF Arrive
    <2>2. /\ peer = "open" /\ step \notin Apart
          /\ UNCHANGED <<step, left, timeout, wake, held, size, answer, peer, response>>
      BY <1>4 DEF Arrive
    <2> QED
      BY <2>1, <2>2
  <1>5. ASSUME NEW how \in {"closed", "reset"}, Leave(how) PROVE AnswerInv'
    <2>1. /\ peer = "open" /\ peer' = how /\ step \notin Apart
          /\ UNCHANGED <<step, left, timeout, wake, held, size, answer, response>>
      BY <1>5 DEF Leave
    <2>2. CASE how = "closed"
      <3>1. arrived' = arrived /\ (intime' <=> intime)
        BY <1>5, <2>2 DEF Leave
      <3> QED
        BY <2>1, <2>2, <3>1
    <2>3. CASE how = "reset"
      <3>1. arrived' = size /\ ~intime'
        BY <1>5, <2>3 DEF Leave
      <3> QED
        BY <2>1, <2>3, <3>1
    <2> QED
      BY <2>2, <2>3
  <1>6. CASE Begin
    BY <1>6 DEF Begin
  <1>7. CASE Measure("connect", "enter") \/ Measure("read", "receive")
    BY <1>7 DEF Measure, Remaining, Give
  <1>8. CASE Enter("enter", "connecting") \/ Enter("receive", "reading")
    BY <1>8 DEF Enter
  <1>9. CASE Connect
    <2>1. \A r \in Responses : r.line \in Nat
      BY ResponseType
    <2> QED
      BY <1>9, <2>1 DEF Connect, Give
  <1>10. CASE Request
    BY <1>10 DEF Request, Remaining, Give
  <1>11. CASE Read
    <2>1. /\ step = "reading" /\ answer = "no"
          /\ UNCHANGED <<left, timeout, held, peer, response, arrived, intime>>
      BY <1>11 DEF Read
    <2>2. CASE arrived > size
      <3>1. size' = Taken /\ Taken \in 1..Buffer /\ Taken <= arrived
        BY <1>11, <2>2 DEF Read, Taken, AtMost
      <3>2. CASE Verdict(Taken) = "more"
        <4>1. response.line = 0 \/ Taken < response.line
          BY <3>1, <3>2 DEF Verdict
        <4>2. step' = "read" /\ UNCHANGED answer
          BY <1>11, <2>2, <3>2 DEF Read
        <4> QED
          BY <2>1, <3>1, <4>1, <4>2
      <3>3. CASE Verdict(Taken) # "more"
        <4>1. step' = "send" /\ answer' = Verdict(Taken)
          BY <1>11, <2>2, <3>3 DEF Read, Give
        <4>2. /\ answer' = "yes" => response.line \in 1..Taken /\ IsSuccess(response)
              /\ answer' = "no" => response.line \notin 1..Buffer \/ ~IsSuccess(response)
          BY <3>1, <4>1 DEF Verdict
        <4> QED
          BY <2>1, <3>1, <4>1, <4>2
      <3> QED
        BY <3>2, <3>3
    <2>3. CASE ~(arrived > size)
      <3>1. /\ peer \in {"closed", "reset"} /\ ~intime
            /\ step' = "send" /\ answer' = "no" /\ UNCHANGED size
        BY <1>11, <2>3 DEF Read, Readable, Give
      <3> QED
        BY <2>1, <3>1
    <2> QED
      BY <2>2, <2>3
  <1>12. CASE TimeOut
    BY <1>12 DEF TimeOut, Give
  <1>13. CASE Send
    BY <1>13 DEF Send
  <1>14. CASE Nap \/ WakeUp
    BY <1>14 DEF Nap, WakeUp
  <1> QED
    BY <1>1, <1>2, <1>3, <1>4, <1>5, <1>6, <1>7, <1>8, <1>9, <1>10, <1>11, <1>12, <1>13, <1>14
       DEF Next, Thread

\* http_probe(): an attempt succeeds only on a whole first line of a good status that was
\* read, and a good one that fits the buffer and comes before the deadline makes it
\* succeed, in however many pieces it comes, unless the thread itself was held up.
THEOREM ProbeAnswersRight == Spec => []AnswersAreRight
  <1>1. Init => AnswerInv
    BY DEF Init, AnswerInv, ConnectionInv, UnreadInv, DeadlineInv, MissedInv, SuccessIsEarned,
           Apart, Attempt
  <1>2. TypeOK /\ AnswerInv => AnswersAreRight
    BY DEF TypeOK, AnswerInv, MissedInv, AnswersAreRight, TimelyAnswerCounts
  <1>3. ProbeInv => TypeOK
    BY DEF ProbeInv
  <1> QED
    BY <1>1, <1>2, <1>3, AnswerStep, Invariance, PTL DEF Spec

-----------------------------------------------------------------------------
(***************************************************************************)
(* What the supervisor makes of the results.  observe() keeps two counters *)
(* and no history; that they count the runs at the end of the history, as  *)
(* far as a threshold can ask, is an invariant.                            *)
(***************************************************************************)

\* The latest n results, once one more has come: the new one, and before it those that
\* were there.
LEMMA LastOfAppend ==
  ASSUME NEW n \in Nat \ {0}, NEW s \in Seq(BOOLEAN), Len(s) <= n, NEW b \in BOOLEAN,
         NEW t, t = LastOf(n, Append(s, b))
  PROVE  /\ Len(t) = IF Len(s) < n THEN Len(s) + 1 ELSE n
         /\ t[Len(t)] = b
         /\ \A i \in 1..Len(t) - 1 : t[Len(t) - i] = s[Len(s) + 1 - i]
  <1> DEFINE a == Append(s, b)
  <1>1. /\ a \in Seq(BOOLEAN) /\ Len(a) = Len(s) + 1 /\ Len(s) \in Nat /\ a[Len(s) + 1] = b
        /\ \A i \in 1..Len(s) : a[i] = s[i]
    BY AppendProperties
  <1> HIDE DEF a
  <1>2. t = LastOf(n, a)
    BY DEF a
  <1>3. CASE Len(s) < n
    <2>1. t = a
      BY <1>1, <1>2, <1>3 DEF LastOf
    <2> QED
      BY <1>1, <1>3, <2>1
  <1>4. CASE Len(s) = n
    <2>0. Len(a) = n + 1 /\ ~(Len(a) <= n) /\ Len(a) - n + 1 = 2
      BY <1>1, <1>4
    <2>1. t = SubSeq(a, 2, n + 1)
      BY <1>2, <2>0, Zenon DEF LastOf
    <2>2. \A i \in 2..n + 1 : a[i] \in BOOLEAN
      BY <1>1, <1>4, ElementOfSeq
    <2>3. /\ Len(t) = IF 2 <= n + 1 THEN (n + 1) - 2 + 1 ELSE 0
          /\ \A i \in 1..(n + 1) - 2 + 1 : t[i] = a[2 + i - 1]
      BY <2>1, <2>2, SubSeqProperties
    <2>4. Len(t) = n /\ \A i \in 1..n : t[i] = a[i + 1]
      BY <2>3
    <2> QED
      BY <1>1, <1>4, <2>4
  <1> QED
    BY <1>1, <1>3, <1>4

\* A run at the end of the history is one result longer than before, or is broken.
LEMMA RunStep ==
  ASSUME TypeOK, NEW b \in BOOLEAN, results' = LastOf(Window, Append(results, b)),
         NEW k \in 1..Window, NEW r \in BOOLEAN
  PROVE  Run(k, r)' <=> b = r /\ (k = 1 \/ Run(k - 1, r))
  <1>1. Window \in Nat \ {0} /\ results \in Seq(BOOLEAN) /\ Len(results) \in Nat
        /\ Len(results) <= Window
    BY ThresholdsAssumption DEF TypeOK, Window, AtLeast
  <1>2. /\ Len(results') = IF Len(results) < Window THEN Len(results) + 1 ELSE Window
        /\ results'[Len(results')] = b
        /\ \A i \in 1..Len(results') - 1 :
              results'[Len(results') - i] = results[Len(results) + 1 - i]
    BY <1>1, LastOfAppend
  <1>3. ASSUME b = r, k = 1 \/ Run(k - 1, r) PROVE Run(k, r)'
    <2>1. Len(results') >= k
      BY <1>1, <1>2, <1>3 DEF Run
    <2>2. ASSUME NEW i \in 0..k - 1 PROVE results'[Len(results') - i] = r
      <3>1. CASE i = 0
        BY <1>1, <1>2, <1>3, <3>1
      <3>2. CASE i # 0
        <4>1. results'[Len(results') - i] = results[Len(results) + 1 - i]
          <5>1. Len(results') \in Nat
            BY <1>1, <1>2
          <5>2. i \in 1..Len(results') - 1
            BY <2>1, <3>2, <5>1
          <5> QED
            BY <1>2, <5>2
        <4>2. i - 1 \in 0..(k - 1) - 1 /\ Len(results) + 1 - i = Len(results) - (i - 1)
          BY <1>1, <3>2
        <4>3. Run(k - 1, r)
          BY <1>3, <3>2
        <4>4. results[Len(results) - (i - 1)] = r
          BY <4>2, <4>3 DEF Run
        <4> QED
          BY <4>1, <4>2, <4>4
      <3> QED
        BY <3>1, <3>2
    <2> QED
      BY <2>1, <2>2 DEF Run
  <1>4. ASSUME Run(k, r)' PROVE b = r /\ (k = 1 \/ Run(k - 1, r))
    <2>1. Len(results') >= k /\ \A i \in 0..k - 1 : results'[Len(results') - i] = r
      BY <1>4 DEF Run
    <2>2. b = r
      <3>1. results'[Len(results') - 0] = r
        BY <2>1
      <3> QED
        BY <1>1, <1>2, <3>1
    <2>3. ASSUME k # 1 PROVE Run(k - 1, r)
      <3>1. Len(results) >= k - 1
        BY <1>1, <1>2, <2>1
      <3>2. ASSUME NEW j \in 0..(k - 1) - 1 PROVE results[Len(results) - j] = r
        <4>1. j + 1 \in 0..k - 1 /\ j + 1 \in 1..Len(results') - 1
          BY <1>1, <1>2, <2>1
        <4>2. results'[Len(results') - (j + 1)] = r
          BY <2>1, <4>1
        <4>3. results'[Len(results') - (j + 1)] = results[Len(results) + 1 - (j + 1)]
          BY <1>2, <4>1
        <4>4. Len(results) + 1 - (j + 1) = Len(results) - j
          BY <1>1
        <4> QED
          BY <4>2, <4>3, <4>4
      <3> QED
        BY <3>1, <3>2 DEF Run
    <2> QED
      BY <2>2, <2>3
  <1> QED
    BY <1>3, <1>4

\* Each counter tells how long the run at the end of the history is, as far as a
\* threshold goes, and the health has followed them.
CountInv ==
    /\ \A k \in 1..Window : /\ Run(k, TRUE) <=> state.succ >= k
                            /\ Run(k, FALSE) <=> state.fail >= k
    /\ state.succ = 0 \/ state.fail = 0
    /\ state.succ >= SuccessThreshold => state.health = "Ready"
    /\ state.fail >= FailureThreshold => state.health = "Unready"

LEMMA SaturatedReaches ==
  ASSUME NEW c \in 0..CounterMax, NEW k \in 1..CounterMax
  PROVE  Saturated(c) >= k <=> c >= k - 1
  BY ThresholdsAssumption DEF Saturated

\* What one more result makes of the counters and the health.
LEMMA CountedResult ==
  ASSUME TypeOK, CountInv, NEW b \in BOOLEAN, state' = Observe(state, b),
         results' = LastOf(Window, Append(results, b))
  PROVE  /\ CountInv'
         /\ state'.health = IF Run(SuccessThreshold, TRUE)' THEN "Ready"
                            ELSE IF Run(FailureThreshold, FALSE)' THEN "Unready" ELSE state.health
  <1>1. /\ state \in ProbeStates /\ Window \in Nat \ {0} /\ Window <= CounterMax
        /\ SuccessThreshold \in 1..Window /\ FailureThreshold \in 1..Window /\ CounterMax \in Nat
    BY ThresholdsAssumption DEF TypeOK, Window, AtLeast
  <1>2. \A k \in 1..Window : \A r \in BOOLEAN :
           Run(k, r)' <=> b = r /\ (k = 1 \/ Run(k - 1, r))
    BY RunStep
  <1>3. state.succ \in 0..CounterMax /\ state.fail \in 0..CounterMax
    BY <1>1 DEF ProbeStates
  <1>4. CASE b
    <2>1. /\ state'.succ = Saturated(state.succ) /\ state'.fail = 0
          /\ state'.health = IF Saturated(state.succ) >= SuccessThreshold THEN "Ready" ELSE state.health
      BY <1>4 DEF Observe
    <2>2. ASSUME NEW k \in 1..Window PROVE (Run(k, TRUE)' <=> state'.succ >= k) /\ ~Run(k, FALSE)'
      <3>1. (Run(k, TRUE)' <=> k = 1 \/ Run(k - 1, TRUE)) /\ ~Run(k, FALSE)'
        BY <1>2, <1>4
      <3>2. state'.succ >= k <=> state.succ >= k - 1
        <4>1. k \in 1..CounterMax
          BY <1>1
        <4> QED
          BY <1>3, <2>1, <4>1, SaturatedReaches
      <3>3. CASE k = 1
        <4>1. state.succ >= k - 1
          BY <1>3, <3>3
        <4> QED
          BY <3>1, <3>2, <3>3, <4>1
      <3>4. CASE k # 1
        <4>1. k - 1 \in 1..Window
          BY <1>1, <3>4
        <4>2. Run(k - 1, TRUE) <=> state.succ >= k - 1
          BY <4>1 DEF CountInv
        <4> QED
          BY <3>1, <3>2, <3>4, <4>2
      <3> QED
        BY <3>3, <3>4
    <2>3. state'.fail = 0 /\ \A k \in 1..Window : ~(state'.fail >= k)
      BY <2>1
    <2>4. state'.succ >= SuccessThreshold => state'.health = "Ready"
      BY <2>1
    <2>5. ~(state'.fail >= FailureThreshold)
      BY <1>1, <2>3
    <2> QED
      BY <1>1, <2>1, <2>2, <2>3, <2>4, <2>5 DEF CountInv
  <1>5. CASE ~b
    <2>1. /\ state'.fail = Saturated(state.fail) /\ state'.succ = 0
          /\ state'.health = IF Saturated(state.fail) >= FailureThreshold THEN "Unready" ELSE state.health
      BY <1>5 DEF Observe
    <2>2. ASSUME NEW k \in 1..Window PROVE (Run(k, FALSE)' <=> state'.fail >= k) /\ ~Run(k, TRUE)'
      <3>1. (Run(k, FALSE)' <=> k = 1 \/ Run(k - 1, FALSE)) /\ ~Run(k, TRUE)'
        BY <1>2, <1>5
      <3>2. state'.fail >= k <=> state.fail >= k - 1
        <4>1. k \in 1..CounterMax
          BY <1>1
        <4> QED
          BY <1>3, <2>1, <4>1, SaturatedReaches
      <3>3. CASE k = 1
        <4>1. state.fail >= k - 1
          BY <1>3, <3>3
        <4> QED
          BY <3>1, <3>2, <3>3, <4>1
      <3>4. CASE k # 1
        <4>1. k - 1 \in 1..Window
          BY <1>1, <3>4
        <4>2. Run(k - 1, FALSE) <=> state.fail >= k - 1
          BY <4>1 DEF CountInv
        <4> QED
          BY <3>1, <3>2, <3>4, <4>2
      <3> QED
        BY <3>3, <3>4
    <2>3. state'.succ = 0 /\ \A k \in 1..Window : ~(state'.succ >= k)
      BY <2>1
    <2>4. state'.fail >= FailureThreshold => state'.health = "Unready"
      BY <2>1
    <2>5. ~(state'.succ >= SuccessThreshold)
      BY <1>1, <2>3
    <2> QED
      BY <1>1, <2>1, <2>2, <2>3, <2>4, <2>5 DEF CountInv
  <1> QED
    BY <1>4, <1>5

\* A step either applies one result or leaves the counters and the history alone.
LEMMA ResultStep ==
  ASSUME TypeOK, [Next]_vars
  PROVE  \/ UNCHANGED <<state, results>>
         \/ \E b \in BOOLEAN : /\ state' = Observe(state, b)
                               /\ results' = LastOf(Window, Append(results, b))
  <1>1. CASE Send
    BY <1>1 DEF Send, Apply
  <1>2. CASE Tick \/ Cancel \/ DropReceiver \/ Arrive \/ \E how \in {"closed", "reset"} : Leave(how)
    BY <1>2 DEF Tick, Cancel, DropReceiver, Arrive, Leave, supervisor
  <1>3. CASE Thread /\ ~Send
    BY <1>3 DEF Thread, Begin, Connect, Request, Read, TimeOut, Nap, WakeUp, Measure, Enter, supervisor
  <1>4. CASE UNCHANGED vars
    BY <1>4 DEF vars, supervisor
  <1> QED
    BY <1>1, <1>2, <1>3, <1>4 DEF Next

\* ProbeState.observe(): the health changes only when the latest results are a run as
\* long as the threshold, for all thresholds and for counters that stop counting.
THEOREM HealthFollowsRuns == Spec => HealthIsLastRun
  <1> DEFINE Follows == state'.health =
                IF Run(SuccessThreshold, TRUE)' THEN "Ready"
                ELSE IF Run(FailureThreshold, FALSE)' THEN "Unready" ELSE state.health
  <1>1. Init => CountInv
    <2> SUFFICES ASSUME Init PROVE CountInv
      OBVIOUS
    <2>1. Len(results) = 0 /\ state.succ = 0 /\ state.fail = 0
      BY DEF Init, NewProbe
    <2>2. \A k \in 1..Window : \A r \in BOOLEAN : ~Run(k, r)
      BY <2>1 DEF Run
    <2>3. \A k \in 1..Window : ~(state.succ >= k) /\ ~(state.fail >= k)
      BY <2>1
    <2>4. ~(state.succ >= SuccessThreshold) /\ ~(state.fail >= FailureThreshold)
      BY <2>1, ThresholdsAssumption
    <2> QED
      BY <2>1, <2>2, <2>3, <2>4 DEF CountInv
  <1>2. ASSUME TypeOK, CountInv, UNCHANGED <<state, results>> PROVE CountInv' /\ Follows
    <2>1. SuccessThreshold \in 1..Window /\ FailureThreshold \in 1..Window
      BY ThresholdsAssumption DEF Window, AtLeast
    <2>2. Run(SuccessThreshold, TRUE) => state.health = "Ready"
      BY <1>2, <2>1 DEF CountInv
    <2>3. Run(FailureThreshold, FALSE) => state.health = "Unready"
      BY <1>2, <2>1 DEF CountInv
    <2>4. \A k, r : Run(k, r)' <=> Run(k, r)
      BY <1>2 DEF Run
    <2> QED
      BY <1>2, <2>2, <2>3, <2>4 DEF CountInv
  <1>3. TypeOK /\ CountInv /\ [Next]_vars => CountInv' /\ Follows
    BY <1>2, ResultStep, CountedResult
  <1>4. ProbeInv => TypeOK
    BY DEF ProbeInv
  <1> HIDE DEF Follows
  <1>5. HealthIsLastRun <=> [][Follows]_vars
    BY DEF HealthIsLastRun, Follows
  <1> QED
    BY <1>1, <1>3, <1>4, <1>5, Invariance, PTL DEF Spec
=============================================================================
