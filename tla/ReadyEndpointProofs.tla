------------------------- MODULE ReadyEndpointProofs --------------------------
(* The endpoint's answers are fresh, for any number of clients. *)
EXTENDS ReadyEndpoint, TLAPS

\* The readiness and the history of the connections keep their types.
SeenType ==
    /\ ready \in BOOLEAN
    /\ held \in BOOLEAN
    /\ seen \in [Peers -> SUBSET BOOLEAN]
    /\ conn \in [Peers -> {"closed", "open"}]
    /\ DOMAIN answer = Peers

\* The current readiness has been seen by every open connection, and the one
\* the thread read for the connection it serves by that one.
SeenInv ==
    /\ \A c \in Peers : conn[c] = "open" => ready \in seen[c]
    /\ server \in {"read", "write"} /\ peer \in Peers /\ conn[peer] = "open"
          => held \in seen[peer]

FreshInv == SeenType /\ SeenInv /\ AnswersAreFresh

LEMMA FreshInit == Init => FreshInv
  BY DEF Init, FreshInv, SeenType, SeenInv, AnswersAreFresh, Campd!Init

\* Only the supervisor changes the readiness, which keeps its type.
LEMMA ReadyType == SeenType /\ Campd!Next => ready' \in BOOLEAN
  BY DEF SeenType, Campd!Next, Campd!Complete, Campd!Fail, Campd!Lose,
         Campd!Publish, Campd!Stop, Campd!Withdraw, Campd!Exit, Campd!Running

\* The supervisor changes the readiness: open connections take note of it.
LEMMA LiveStep == FreshInv /\ Live => FreshInv'
  <1> SUFFICES ASSUME FreshInv, Live PROVE FreshInv'
    OBVIOUS
  <1> USE DEF FreshInv
  <1>1. ready' \in BOOLEAN
    BY ReadyType DEF Live
  <1>2. /\ UNCHANGED <<held, conn, answer, server, peer>>
        /\ seen' = [c \in Peers |-> IF conn[c] = "open" THEN seen[c] \cup {ready'}
                                                        ELSE seen[c]]
    BY DEF Live, serverVars
  <1>3. SeenType'
    BY <1>1, <1>2 DEF SeenType
  <1>4. SeenInv'
    BY <1>2 DEF SeenInv, SeenType
  <1>5. AnswersAreFresh'
    BY <1>2 DEF AnswersAreFresh, SeenType
  <1> QED
    BY <1>3, <1>4, <1>5

\* The thread takes a connection and reads the readiness for it.
LEMMA AcceptStep == FreshInv /\ Accept => FreshInv'
  <1> SUFFICES ASSUME FreshInv, Accept PROVE FreshInv'
    OBVIOUS
  <1>1. held' = ready /\ UNCHANGED <<ready, conn, answer, seen>>
    BY DEF Accept, Current, lifeVars, clientVars
  <1> QED
    BY <1>1 DEF FreshInv, SeenType, SeenInv, AnswersAreFresh

\* The answer is the readiness held for the connection, which it has seen.
LEMMA WriteStep == FreshInv /\ Write => FreshInv'
  <1> SUFFICES ASSUME FreshInv, Write PROVE FreshInv'
    OBVIOUS
  <1> USE DEF FreshInv
  <1>1. /\ server = "write" /\ server' = "check"
        /\ conn' = [conn EXCEPT ![peer] = "closed"]
        /\ answer' = [answer EXCEPT ![peer] = IF conn[peer] = "open" THEN Status ELSE @]
        /\ UNCHANGED <<ready, held, seen>>
    BY DEF Write, lifeVars
  <1>2. SeenType' /\ SeenInv'
    BY <1>1 DEF SeenType, SeenInv
  <1>3. peer \in Peers /\ conn[peer] = "open" => held \in seen[peer]
    BY <1>1 DEF SeenInv
  <1>4. /\ Status = "200" => held
        /\ Status = "503" => ~held
    BY DEF Status
  <1>5. ASSUME NEW c \in Peers PROVE /\ answer'[c] = "200" => TRUE \in seen[c]
                                     /\ answer'[c] = "503" => FALSE \in seen[c]
    <2>1. CASE c = peer /\ conn[peer] = "open"
      <3>1. answer'[c] = Status
        BY <2>1, <1>1 DEF SeenType
      <3>2. held \in seen[c] /\ held \in BOOLEAN
        BY <2>1, <1>3 DEF SeenType
      <3> QED
        BY <3>1, <3>2, <1>4
    <2>2. CASE ~(c = peer /\ conn[peer] = "open")
      BY <2>2, <1>1 DEF SeenType, AnswersAreFresh
    <2> QED
      BY <2>1, <2>2
  <1> QED
    BY <1>1, <1>2, <1>5 DEF AnswersAreFresh

\* A client connects: it starts a history with the current readiness.
LEMMA ConnectStep ==
  ASSUME FreshInv, NEW c \in Clients, Connect(c) PROVE FreshInv'
  <1>1. /\ c \in Peers /\ c # peer
        /\ conn' = [conn EXCEPT ![c] = "open"]
        /\ seen' = [seen EXCEPT ![c] = {ready}]
        /\ answer' = [answer EXCEPT ![c] = "none"]
        /\ UNCHANGED <<ready, held, server, peer>>
    BY DEF Connect, Forgotten, Peers, lifeVars, serverVars
  <1> QED
    BY <1>1 DEF FreshInv, SeenType, SeenInv, AnswersAreFresh

\* The other steps only close connections or leave all of it alone.
LEMMA OtherStep ==
  ASSUME FreshInv,
         \/ MainStep \/ Check \/ AcceptNothing \/ Read \/ ReadTimesOut \/ WriteFails
         \/ \E c \in Clients : Send(c) \/ Close(c)
         \/ Exited \/ UNCHANGED vars
  PROVE  FreshInv'
  <1>1. /\ UNCHANGED <<ready, held, answer, seen>>
        /\ \/ conn' = conn /\ peer' = peer /\ (server' # server =>
                 server' \notin {"read", "write"} \/ server = "read")
           \/ conn' = [conn EXCEPT ![peer] = "closed"] /\ server' = "check"
           \/ \E c \in Clients : /\ conn' = [conn EXCEPT ![c] = "closed"]
                                 /\ UNCHANGED <<server, peer>>
    BY DEF MainStep, RunReturns, Flag, WakeUp, Join, Check, AcceptNothing, Read,
           ReadTimesOut, WriteFails, Hangup, Send, Close, Exited, vars, lifeVars,
           serverVars, clientVars
  <1> QED
    BY <1>1 DEF FreshInv, SeenType, SeenInv, AnswersAreFresh

LEMMA FreshNext == FreshInv /\ [Next]_vars => FreshInv'
  BY LiveStep, AcceptStep, WriteStep, ConnectStep, OtherStep
     DEF Next, ServerStep

\* Every answer reports a readiness campd had while its client was connected.
THEOREM FreshAnswers == Spec => []AnswersAreFresh
  <1>1. FreshInv => AnswersAreFresh
    BY DEF FreshInv
  <1> QED
    BY FreshInit, FreshNext, <1>1, PTL DEF Spec
=============================================================================
