---------------------------- MODULE NotifyProofs ----------------------------
(***************************************************************************)
(* Proofs about Notify, for any numbers of sockets, calls and retries.     *)
(* What the main process shares between its sockets never outlives an      *)
(* attempt (AwaitedWillSettle), and the server lists only connections that *)
(* are served and pinged (ListedIsAlive): both are inductive with the      *)
(* types.  That somebody always tries needs to know how the two queues     *)
(* end: whatever is on its way to the main process ends with "connect",    *)
(* and "connected" is the last thing on its way to the window only while   *)
(* there is a socket that will say when it closes (MailInv); and that      *)
(* somebody awaits every attempt (AttemptInv), who tries again when it     *)
(* times out.                                                              *)
(***************************************************************************)
EXTENDS Notify, SequenceTheorems, TLAPS

\* What is on its way ends as it should.
MailInv ==
  /\ toMain # <<>> => toMain[Len(toMain)] = "connect"
  /\ toWindow # <<>> /\ toWindow[Len(toWindow)] = "connected" =>
       \E s \in Socket : sock[s] \in {"open", "closing"}

\* Somebody awaits every attempt to connect, and may try again.
AttemptInv ==
  \A s \in Socket : sock[s] = "connecting" =>
    \E l \in Loop : loop[l].at = "await" /\ loop[l].on = s

\* SomebodyTries, when the queues end as they should.
Tries ==
  \/ toMain # <<>> \/ toWindow # <<>> \/ debounce \/ timer
  \/ \E l \in Loop : loop[l].at = "wait"

TriesInv == auth /\ ~GaveUp /\ ~silent /\ Live = {} => Tries

BaseInv == TypeOK /\ AwaitedWillSettle /\ ListedIsAlive

-----------------------------------------------------------------------------
(* Queues                                                                  *)

\* Taking the first of several messages leaves the last one where it is.
LEMMA TailKeeps ==
  ASSUME NEW S, NEW q \in Seq(S), q # <<>>
  PROVE  /\ Tail(q) \in Seq(S)
         /\ Tail(q) # <<>> => Tail(q)[Len(Tail(q))] = q[Len(q)]
         /\ Tail(q) = <<>> => Head(q) = q[Len(q)]
<1>1. /\ Len(q) \in Nat \ {0}
      /\ Tail(q) \in Seq(S)
      /\ Len(Tail(q)) = Len(q) - 1 /\ Len(q) = Len(Tail(q)) + 1
      /\ \A i \in 1..Len(Tail(q)) : Tail(q)[i] = q[i + 1]
  BY EmptySeq, HeadTailProperties
<1>2. ASSUME Tail(q) # <<>>
      PROVE  Tail(q)[Len(Tail(q))] = q[Len(q)]
  <2>1. Len(Tail(q)) \in Nat \ {0}
    BY <1>1, <1>2, EmptySeq
  <2>2. Len(Tail(q)) \in 1..Len(Tail(q)) /\ Len(Tail(q)) + 1 = Len(q)
    BY <1>1, <2>1
  <2> QED
    BY <1>1, <2>2
<1>3. ASSUME Tail(q) = <<>>
      PROVE  Head(q) = q[Len(q)]
  <2>0. Len(<<>>) = 0
    OBVIOUS
  <2>1. Len(Tail(q)) = 0
    BY <1>3, <2>0, Zenon
  <2>2. Len(q) = 0 + 1
    BY <1>1, <2>1, Zenon
  <2> QED
    BY <2>2
<1> QED
  BY <1>1, <1>2, <1>3

\* An appended message is the last one.
LEMMA AppendEnds ==
  ASSUME NEW S, NEW q \in Seq(S), NEW e \in S
  PROVE  /\ Append(q, e) \in Seq(S) /\ Append(q, e) # <<>>
         /\ Append(q, e)[Len(Append(q, e))] = e
OBVIOUS

\* The last of several appended messages is the last one.
LEMMA ConcatEnds ==
  ASSUME NEW S, NEW q \in Seq(S), NEW r \in Seq(S), r # <<>>
  PROVE  /\ q \o r \in Seq(S) /\ q \o r # <<>>
         /\ (q \o r)[Len(q \o r)] = r[Len(r)]
<1>1. /\ q \o r \in Seq(S) /\ Len(q \o r) = Len(q) + Len(r)
      /\ \A i \in 1..Len(r) : (q \o r)[Len(q) + i] = r[i]
  OBVIOUS
<1>2. Len(r) \in 1..Len(r)
  OBVIOUS
<1> QED
  BY <1>1, <1>2

-----------------------------------------------------------------------------
(* Types, promises and the server's table                                  *)

\* It all holds initially.
LEMMA InitBase == Init => BaseInv
<1> SUFFICES ASSUME Init PROVE BaseInv
  OBVIOUS
<1> USE NotifyAssumption DEF NotifyAssumption
<1>1. Idle \in [at : {"idle", "await", "wait"}, on : Socket \cup {None}, n : 1..Attempts]
  BY DEF Idle
<1>2. toMain \in Seq({"connect", "disconnect"}) /\ toWindow \in Seq({"connected", "closed"})
  <2>1. /\ <<"connect">> \in Seq({"connect", "disconnect"})
        /\ <<"disconnect", "connect">> \in Seq({"connect", "disconnect"})
    OBVIOUS
  <2>2. <<>> \in Seq({"connected", "closed"})
    OBVIOUS
  <2>3. toMain \in {<<"connect">>, <<"disconnect", "connect">>} /\ toWindow = <<>>
    BY DEF Init
  <2> QED
    BY <2>1, <2>2, <2>3
<1>3. TypeOK
  <2>1. loop \in [Loop -> [at : {"idle", "await", "wait"}, on : Socket \cup {None},
                          n : 1..Attempts]]
    BY <1>1 DEF Init
  <2>2. retryCount \in 0..(MaxRetries + 1) /\ upsets \in 0..MaxUpsets
    BY DEF Init
  <2> QED
    BY <1>2, <2>1, <2>2 DEF Init, TypeOK
<1>4. AwaitedWillSettle /\ ListedIsAlive
  BY DEF Init, AwaitedWillSettle, ListedIsAlive, Idle
<1> QED
  BY <1>3, <1>4 DEF BaseInv

\* The steps of connectWS.
LEMMA ConnectBase ==
  ASSUME BaseInv, NEW l \in Loop, NEW n \in 1..Attempts, ConnectWS(l, n),
         UNCHANGED <<toMain, windowVars, up, tableVars, upsets>>,
         debounce' \in BOOLEAN, silent' \in BOOLEAN
  PROVE  BaseInv'
<1> USE NotifyAssumption DEF NotifyAssumption, BaseInv, windowVars, tableVars, socketVars
<1>1. CASE /\ wsInstance # None /\ sock[wsInstance] = "open"
           /\ toWindow' = Append(toWindow, "connected")
           /\ loop' = [loop EXCEPT ![l] = Idle]
           /\ UNCHANGED <<socketVars, endpoint, lost, cut>>
  <2>1. toWindow' \in Seq({"connected", "closed"})
    BY <1>1, AppendEnds DEF TypeOK
  <2>2. TypeOK'
    BY <1>1, <2>1 DEF TypeOK, Idle
  <2> QED
    BY <1>1, <2>2 DEF TypeOK, AwaitedWillSettle, ListedIsAlive, Idle
<1>2. CASE /\ isConnecting
           /\ loop' = [loop EXCEPT ![l] = [at |-> "await", on |-> promise, n |-> n]]
           /\ UNCHANGED <<socketVars, toWindow, endpoint, lost, cut>>
  <2>1. TypeOK'
    BY <1>2 DEF TypeOK
  <2> QED
    BY <1>2, <2>1 DEF TypeOK, AwaitedWillSettle, ListedIsAlive
<1>3. ASSUME NEW s \in Socket, Unused(s),
             sock' = [sock EXCEPT ![s] = "connecting"],
             wsInstance' = s, promise' = s, isConnecting' = TRUE,
             loop' = [loop EXCEPT ![l] = [at |-> "await", on |-> s, n |-> n]],
             endpoint' = [endpoint EXCEPT ![s] = "none"],
             lost' = lost \ {s}, cut' = cut \ {s}, UNCHANGED toWindow
      PROVE  BaseInv'
  <2>1. TypeOK'
    BY <1>3 DEF TypeOK
  <2>2. AwaitedWillSettle'
    BY <1>3, <2>1 DEF TypeOK, AwaitedWillSettle
  <2>3. ListedIsAlive'
    BY <1>3 DEF TypeOK, ListedIsAlive, Unused
  <2> QED
    BY <2>1, <2>2, <2>3
<1> QED
  BY <1>1, <1>2, <1>3 DEF ConnectWS

\* What StartOver puts on its way ends with "connect", too.
LEMMA StartOverMail ==
  ASSUME TypeOK, NEW a \in BOOLEAN, StartOver(a)
  PROVE  /\ toMain' \in Seq({"connect", "disconnect"}) /\ toMain' # <<>>
         /\ toMain'[Len(toMain')] = "connect"
<1> DEFINE S == {"connect", "disconnect"}
           long == <<"disconnect", "disconnect", "connect">>
           short == <<"disconnect", "connect">>
<1>1. /\ long \in Seq(S) /\ long # <<>> /\ long[Len(long)] = "connect"
      /\ short \in Seq(S) /\ short # <<>> /\ short[Len(short)] = "connect"
  OBVIOUS
<1>2. toMain \in Seq(S) /\ toMain' \in {toMain \o long, toMain \o short}
  BY DEF StartOver, TypeOK
<1>3. ASSUME NEW r \in {long, short}, toMain' = toMain \o r
      PROVE  toMain' \in Seq(S) /\ toMain' # <<>> /\ toMain'[Len(toMain')] = "connect"
  <2> HIDE DEF long, short, S
  <2> QED
    BY <1>1, <1>2, <1>3, ConcatEnds
<1> QED
  BY <1>2, <1>3

\* Every step keeps the types, the promises and the table.
LEMMA NextBase ==
  ASSUME BaseInv, [Next]_vars
  PROVE  BaseInv'
<1> USE NotifyAssumption
    DEF NotifyAssumption, BaseInv, mainVars, windowVars, serverVars, tableVars, socketVars
<1>1. CASE Connect
  <2>1. toMain' \in Seq({"connect", "disconnect"})
    BY <1>1, TailKeeps DEF TypeOK, Connect
  <2>2. TypeOK'
    BY <1>1, <2>1 DEF Connect, TypeOK
  <2>3. AwaitedWillSettle'
    BY <1>1 DEF Connect, TypeOK, AwaitedWillSettle, Idle
  <2>4. ListedIsAlive'
    BY <1>1 DEF Connect, TypeOK, ListedIsAlive
  <2> QED
    BY <2>2, <2>3, <2>4
<1>2. CASE Disconnect
  <2>1. toMain' \in Seq({"connect", "disconnect"})
    BY <1>2, TailKeeps DEF TypeOK, Disconnect
  <2>2. TypeOK'
    BY <1>2, <2>1 DEF Disconnect, TypeOK
  <2>3. AwaitedWillSettle'
    BY <1>2 DEF Disconnect, TypeOK, AwaitedWillSettle, Idle
  <2>4. ListedIsAlive'
    BY <1>2 DEF Disconnect, TypeOK, ListedIsAlive
  <2> QED
    BY <2>2, <2>3, <2>4
<1>3. CASE Fire
  <2>1. PICK l \in Loop : loop[l].at = "idle" /\ ConnectWS(l, 1)
    BY <1>3 DEF Fire
  <2>2. 1 \in 1..Attempts
    OBVIOUS
  <2> QED
    BY <1>3, <2>1, <2>2, ConnectBase DEF Fire
<1>4. ASSUME NEW l \in Loop, Wake(l) PROVE BaseInv'
  <2>1. loop[l].n \in 1..Attempts /\ debounce' \in BOOLEAN /\ silent' \in BOOLEAN
    BY <1>4 DEF Wake, TypeOK
  <2> QED
    BY <1>4, <2>1, ConnectBase DEF Wake
<1>5. ASSUME NEW s \in Socket, Open(s) PROVE BaseInv'
  <2>1. toWindow' \in Seq({"connected", "closed"})
    BY <1>5, AppendEnds DEF TypeOK, Open, Cleanup, Resolve
  <2>2. loop' \in [Loop -> [at : {"idle", "await", "wait"}, on : Socket \cup {None}, n : 1..Attempts]]
    BY <1>5 DEF Open, Resolve, Idle, TypeOK
  <2>3. sock' \in [Socket -> {"none", "connecting", "open", "closing", "closed", "mute"}]
    BY <1>5 DEF Open, Cleanup, TypeOK
  <2>4. TypeOK'
    BY <1>5, <2>1, <2>2, <2>3 DEF Open, Cleanup, Resolve, Idle, TypeOK
  <2>5. AwaitedWillSettle'
    BY <1>5 DEF Open, Cleanup, Resolve, Idle, TypeOK, AwaitedWillSettle, Idle
  <2>6. ListedIsAlive'
    BY <1>5 DEF Open, Cleanup, Resolve, Idle, TypeOK, ListedIsAlive
  <2> QED
    BY <2>4, <2>5, <2>6
<1>6. ASSUME NEW s \in Socket, Refused(s) PROVE BaseInv'
  <2>1. toWindow' \in Seq({"connected", "closed"})
    BY <1>6, AppendEnds DEF TypeOK, Refused, Cleanup, Reject
  <2>2. loop' \in [Loop -> [at : {"idle", "await", "wait"}, on : Socket \cup {None}, n : 1..Attempts]]
    BY <1>6 DEF Refused, Reject, Idle, TypeOK
  <2>3. sock' \in [Socket -> {"none", "connecting", "open", "closing", "closed", "mute"}]
    BY <1>6 DEF Refused, Cleanup, TypeOK
  <2>4. TypeOK'
    BY <1>6, <2>1, <2>2, <2>3 DEF Refused, Cleanup, Reject, Idle, TypeOK
  <2>5. AwaitedWillSettle'
    BY <1>6 DEF Refused, Cleanup, Reject, Idle, TypeOK, AwaitedWillSettle, Idle
  <2>6. ListedIsAlive'
    BY <1>6 DEF Refused, Cleanup, Reject, Idle, TypeOK, ListedIsAlive
  <2> QED
    BY <2>4, <2>5, <2>6
<1>7. ASSUME NEW s \in Socket, Closed(s) PROVE BaseInv'
  <2>1. toWindow' \in Seq({"connected", "closed"})
    BY <1>7, AppendEnds DEF TypeOK, Closed, Cleanup
  <2>2. TypeOK'
    BY <1>7, <2>1 DEF Closed, Cleanup, TypeOK
  <2>3. AwaitedWillSettle'
    BY <1>7 DEF Closed, Cleanup, TypeOK, AwaitedWillSettle, Idle
  <2>4. ListedIsAlive'
    BY <1>7 DEF Closed, Cleanup, TypeOK, ListedIsAlive
  <2> QED
    BY <2>2, <2>3, <2>4
<1>8. ASSUME NEW s \in Socket, Errs(s) PROVE BaseInv'
  <2>1. TypeOK'
    BY <1>8 DEF Errs, Cleanup, TypeOK
  <2>2. AwaitedWillSettle'
    BY <1>8 DEF Errs, Cleanup, TypeOK, AwaitedWillSettle, Idle
  <2>3. ListedIsAlive'
    BY <1>8 DEF Errs, Cleanup, TypeOK, ListedIsAlive
  <2> QED
    BY <2>1, <2>2, <2>3
<1>close. ASSUME NEW s \in Socket, ServerCloses(s) PROVE BaseInv'
  <2>1. TypeOK'
    BY <1>close DEF ServerCloses, TypeOK
  <2>2. AwaitedWillSettle'
    BY <1>close DEF ServerCloses, TypeOK, AwaitedWillSettle, Idle
  <2>3. ListedIsAlive'
    BY <1>close DEF ServerCloses, TypeOK, ListedIsAlive
  <2> QED
    BY <2>1, <2>2, <2>3
<1>9. ASSUME NEW s \in Socket, TimesOut(s) PROVE BaseInv'
  <2>1. loop' \in [Loop -> [at : {"idle", "await", "wait"}, on : Socket \cup {None}, n : 1..Attempts]]
    BY <1>9 DEF TimesOut, Reject, Idle, TypeOK
  <2>2. sock' \in [Socket -> {"none", "connecting", "open", "closing", "closed", "mute"}]
    BY <1>9 DEF TimesOut, Cleanup, TypeOK
  <2>3. upsets' \in 0..MaxUpsets
    BY <1>9 DEF TimesOut, TypeOK
  <2>4. silent' \in BOOLEAN
    BY <1>9, Zenon DEF TimesOut
  <2>5. TypeOK'
    BY <1>9, <2>1, <2>2, <2>3, <2>4 DEF TimesOut, Cleanup, TypeOK
  <2>6. AwaitedWillSettle'
    BY <1>9 DEF TimesOut, Cleanup, Reject, Idle, TypeOK, AwaitedWillSettle
  <2>7. ListedIsAlive'
    BY <1>9 DEF TimesOut, Cleanup, Reject, TypeOK, ListedIsAlive
  <2> QED
    BY <2>5, <2>6, <2>7
<1>10. CASE Opened
  <2>1. toWindow' \in Seq({"connected", "closed"})
    BY <1>10, TailKeeps DEF TypeOK, Opened
  <2>2. retryCount' \in 0..(MaxRetries + 1)
    BY <1>10 DEF Opened, TypeOK
  <2>3. TypeOK'
    BY <1>10, <2>1, <2>2 DEF Opened, TypeOK
  <2>4. AwaitedWillSettle'
    BY <1>10 DEF Opened, TypeOK, AwaitedWillSettle, Idle
  <2>5. ListedIsAlive'
    BY <1>10 DEF Opened, TypeOK, ListedIsAlive
  <2> QED
    BY <2>3, <2>4, <2>5
<1>11. CASE ClosedSeen
  <2>1. toWindow' \in Seq({"connected", "closed"})
    BY <1>11, TailKeeps DEF TypeOK, ClosedSeen, ScheduleReconnect, GaveUp
  <2>2. TypeOK'
    BY <1>11, <2>1 DEF ClosedSeen, ScheduleReconnect, GaveUp, TypeOK
  <2>3. AwaitedWillSettle'
    BY <1>11 DEF ClosedSeen, ScheduleReconnect, GaveUp, TypeOK, AwaitedWillSettle, Idle
  <2>4. ListedIsAlive'
    BY <1>11 DEF ClosedSeen, ScheduleReconnect, GaveUp, TypeOK, ListedIsAlive
  <2> QED
    BY <2>2, <2>3, <2>4
<1>12. CASE TimerFires
  <2>1. toMain' \in Seq({"connect", "disconnect"})
    BY <1>12, AppendEnds DEF TypeOK, TimerFires
  <2>2. TypeOK'
    BY <1>12, <2>1 DEF TimerFires, TypeOK
  <2>3. AwaitedWillSettle'
    BY <1>12 DEF TimerFires, TypeOK, AwaitedWillSettle, Idle
  <2>4. ListedIsAlive'
    BY <1>12 DEF TimerFires, TypeOK, ListedIsAlive
  <2> QED
    BY <2>2, <2>3, <2>4
<1>13. ASSUME NEW a \in BOOLEAN, StartOver(a) PROVE BaseInv'
  <2>1. toMain' \in Seq({"connect", "disconnect"})
    BY <1>13, StartOverMail DEF TypeOK, StartOver
  <2>2. upsets' \in 0..MaxUpsets /\ retryCount' \in 0..(MaxRetries + 1)
    BY <1>13 DEF StartOver, TypeOK
  <2>3. TypeOK'
    BY <1>13, <2>1, <2>2 DEF StartOver, TypeOK
  <2>4. AwaitedWillSettle'
    BY <1>13 DEF StartOver, TypeOK, AwaitedWillSettle, Idle
  <2>5. ListedIsAlive'
    BY <1>13 DEF StartOver, TypeOK, ListedIsAlive
  <2> QED
    BY <2>3, <2>4, <2>5
<1>14. CASE ServiceStarted
  <2>1. toMain' \in Seq({"connect", "disconnect"})
    BY <1>14, AppendEnds DEF TypeOK, ServiceStarted
  <2>2. TypeOK'
    BY <1>14, <2>1 DEF ServiceStarted, TypeOK
  <2>3. AwaitedWillSettle'
    BY <1>14 DEF ServiceStarted, TypeOK, AwaitedWillSettle, Idle
  <2>4. ListedIsAlive'
    BY <1>14 DEF ServiceStarted, TypeOK, ListedIsAlive
  <2> QED
    BY <2>2, <2>3, <2>4
<1>15. ASSUME NEW s \in Socket, Accept(s) PROVE BaseInv'
  <2>1. TypeOK'
    BY <1>15 DEF Accept, TypeOK
  <2>2. AwaitedWillSettle'
    BY <1>15 DEF Accept, TypeOK, AwaitedWillSettle, Idle
  <2>3. ListedIsAlive'
    BY <1>15 DEF Accept, TypeOK, ListedIsAlive
  <2> QED
    BY <2>1, <2>2, <2>3
<1>16. ASSUME NEW s \in Socket, AddConnection(s) PROVE BaseInv'
  <2>1. TypeOK'
    BY <1>16 DEF AddConnection, TypeOK
  <2>2. AwaitedWillSettle'
    BY <1>16 DEF AddConnection, TypeOK, AwaitedWillSettle, Idle
  <2>3. ListedIsAlive'
    BY <1>16 DEF AddConnection, TypeOK, ListedIsAlive
  <2> QED
    BY <2>1, <2>2, <2>3
<1>17. ASSUME NEW s \in Socket, Notice(s) PROVE BaseInv'
  <2>1. TypeOK'
    BY <1>17 DEF Notice, TypeOK
  <2>2. AwaitedWillSettle'
    BY <1>17 DEF Notice, TypeOK, AwaitedWillSettle, Idle
  <2>3. ListedIsAlive'
    BY <1>17 DEF Notice, TypeOK, ListedIsAlive
  <2> QED
    BY <2>1, <2>2, <2>3
<1>18. ASSUME NEW s \in Socket, EndpointEnds(s) PROVE BaseInv'
  <2>1. TypeOK'
    BY <1>18 DEF EndpointEnds, RemoveConnection, TypeOK
  <2>2. AwaitedWillSettle'
    BY <1>18 DEF EndpointEnds, RemoveConnection, TypeOK, AwaitedWillSettle, Idle
  <2>3. ListedIsAlive'
    BY <1>18 DEF EndpointEnds, RemoveConnection, TypeOK, ListedIsAlive
  <2> QED
    BY <2>1, <2>2, <2>3
<1>19. ASSUME NEW s \in Socket, PingFails(s) PROVE BaseInv'
  <2>1. TypeOK'
    BY <1>19 DEF PingFails, RemoveConnection, TypeOK
  <2>2. AwaitedWillSettle'
    BY <1>19 DEF PingFails, RemoveConnection, TypeOK, AwaitedWillSettle, Idle
  <2>3. ListedIsAlive'
    BY <1>19 DEF PingFails, RemoveConnection, TypeOK, ListedIsAlive
  <2> QED
    BY <2>1, <2>2, <2>3
<1>20. ASSUME NEW s \in Socket, SendFails(s) PROVE BaseInv'
  <2>1. TypeOK'
    BY <1>20 DEF SendFails, RemoveConnection, TypeOK
  <2>2. AwaitedWillSettle'
    BY <1>20 DEF SendFails, RemoveConnection, TypeOK, AwaitedWillSettle, Idle
  <2>3. ListedIsAlive'
    BY <1>20 DEF SendFails, RemoveConnection, TypeOK, ListedIsAlive
  <2> QED
    BY <2>1, <2>2, <2>3
<1>21. CASE ServerStarts
  <2>1. TypeOK'
    BY <1>21 DEF ServerStarts, TypeOK
  <2>2. AwaitedWillSettle'
    BY <1>21 DEF ServerStarts, TypeOK, AwaitedWillSettle, Idle
  <2>3. ListedIsAlive'
    BY <1>21 DEF ServerStarts, TypeOK, ListedIsAlive
  <2> QED
    BY <2>1, <2>2, <2>3
<1>22. CASE ServerStops
  <2>1. upsets' \in 0..MaxUpsets
    BY <1>22 DEF ServerStops, TypeOK
  <2>2. endpoint' \in [Socket -> {"none", "accepted", "serving", "over"}]
    BY <1>22 DEF ServerStops, TypeOK
  <2>3. TypeOK'
    BY <1>22, <2>1, <2>2 DEF ServerStops, Live, TypeOK
  <2>4. AwaitedWillSettle'
    BY <1>22 DEF ServerStops, Live, TypeOK, AwaitedWillSettle, Idle
  <2>5. ListedIsAlive'
    BY <1>22 DEF ServerStops, Live, TypeOK, ListedIsAlive
  <2> QED
    BY <2>3, <2>4, <2>5
<1>23. ASSUME NEW s \in Socket, LinkBreaks(s) PROVE BaseInv'
  <2>1. TypeOK'
    BY <1>23 DEF LinkBreaks, Live, TypeOK
  <2>2. AwaitedWillSettle'
    BY <1>23 DEF LinkBreaks, Live, TypeOK, AwaitedWillSettle, Idle
  <2>3. ListedIsAlive'
    BY <1>23 DEF LinkBreaks, Live, TypeOK, ListedIsAlive
  <2> QED
    BY <2>1, <2>2, <2>3
<1>24. CASE UNCHANGED vars
  BY <1>24 DEF vars, TypeOK, AwaitedWillSettle, ListedIsAlive
<1> QED
  BY <1>1, <1>close, <1>2, <1>3, <1>4, <1>5, <1>6, <1>7, <1>8, <1>9, <1>10, <1>11, <1>12, <1>13, <1>14, <1>15, <1>16, <1>17, <1>18, <1>19, <1>20, <1>21, <1>22, <1>23, <1>24 DEF Next, SocketEvent, ServerStep

-----------------------------------------------------------------------------
(* Somebody always tries                                                     *)

\* A socket that will report its end, or one that is being connected.
Ends == {s \in Socket : sock[s] \in {"open", "closing"}}

\* connectWS leaves a socket behind, and tells the window only of an open one.
LEMMA ConnectTries ==
  ASSUME BaseInv, MailInv, NEW l \in Loop, NEW n \in 1..Attempts, ConnectWS(l, n)
  PROVE  /\ Live' # {}
         /\ toWindow' # <<>> /\ toWindow'[Len(toWindow')] = "connected" => Ends' # {}
<1> USE DEF BaseInv, socketVars
<1>1. CASE /\ wsInstance # None /\ sock[wsInstance] = "open"
           /\ toWindow' = Append(toWindow, "connected")
           /\ UNCHANGED <<socketVars, endpoint, lost, cut>>
  <2>1. wsInstance \in Live' /\ wsInstance \in Ends'
    BY <1>1 DEF TypeOK, Live, Ends
  <2> QED
    BY <2>1
<1>2. CASE /\ isConnecting
           /\ UNCHANGED <<socketVars, toWindow, endpoint, lost, cut>>
  <2>1. promise \in Live'
    BY <1>2 DEF TypeOK, AwaitedWillSettle, Live
  <2> QED
    BY <1>2, <2>1 DEF MailInv, Ends
<1>3. ASSUME NEW s \in Socket, Unused(s),
             sock' = [sock EXCEPT ![s] = "connecting"], UNCHANGED toWindow
      PROVE  /\ Live' # {}
             /\ toWindow' # <<>> /\ toWindow'[Len(toWindow')] = "connected" => Ends' # {}
  <2>1. s \in Live'
    BY <1>3 DEF TypeOK, Live
  <2>2. \A t \in Ends : t \in Ends'
    BY <1>3 DEF TypeOK, Live, Ends, Unused
  <2> QED
    BY <1>3, <2>1, <2>2 DEF MailInv, Ends
<1> QED
  BY <1>1, <1>2, <1>3 DEF ConnectWS

\* Every step keeps how the queues end.
LEMMA NextMail ==
  ASSUME BaseInv, MailInv, [Next]_vars
  PROVE  MailInv'
<1> DEFINE MainEnds == toMain # <<>> => toMain[Len(toMain)] = "connect"
           WindowEnds == toWindow # <<>> /\ toWindow[Len(toWindow)] = "connected" => Ends # {}
<1> SUFFICES MainEnds' /\ WindowEnds'
  BY DEF MailInv, Ends
<1>0. MainEnds /\ WindowEnds
  BY DEF MailInv, Ends
<1> USE DEF BaseInv, mainVars, windowVars, serverVars, tableVars, socketVars
<1>m. ASSUME UNCHANGED toMain PROVE MainEnds'
  BY <1>0, <1>m
<1>w. ASSUME UNCHANGED toWindow, \A x \in Ends : x \in Ends' PROVE WindowEnds'
  BY <1>0, <1>w
<1>a. ASSUME toMain # <<>>, toMain' = Tail(toMain) PROVE MainEnds'
  BY <1>0, <1>a, TailKeeps DEF TypeOK
<1>b. ASSUME toMain' = Append(toMain, "connect") PROVE MainEnds'
  BY <1>b, AppendEnds DEF TypeOK
<1>c. ASSUME toWindow' = Append(toWindow, "closed") PROVE WindowEnds'
  <2>1. toWindow'[Len(toWindow')] = "closed"
    BY <1>c, AppendEnds DEF TypeOK
  <2> QED
    BY <2>1
<1>d. ASSUME toWindow # <<>>, toWindow' = Tail(toWindow), UNCHANGED sock PROVE WindowEnds'
  <2>1. Ends' = Ends
    BY <1>d DEF Ends
  <2> QED
    BY <1>0, <1>d, <2>1, TailKeeps DEF TypeOK
<1>1. CASE Connect
  <2>1. MainEnds'
    BY <1>1, <1>a DEF Connect
  <2>2. \A x \in Ends : x \in Ends'
    BY <1>1 DEF Connect, Ends, TypeOK
  <2>3. WindowEnds'
    BY <1>1, <2>2, <1>w DEF Connect
  <2> QED
    BY <2>1, <2>3
<1>2. CASE Disconnect
  <2>1. MainEnds'
    BY <1>2, <1>a DEF Disconnect
  <2>2. \A x \in Ends : x \in Ends'
    BY <1>2 DEF Disconnect, Ends, TypeOK
  <2>3. WindowEnds'
    BY <1>2, <2>2, <1>w DEF Disconnect
  <2> QED
    BY <2>1, <2>3
<1>3. CASE Fire
  <2>1. PICK l \in Loop : ConnectWS(l, 1)
    BY <1>3 DEF Fire
  <2>2. 1 \in 1..Attempts
    BY NotifyAssumption DEF NotifyAssumption
  <2> QED
    BY <1>3, <1>m, <2>1, <2>2, ConnectTries DEF Fire
<1>4. ASSUME NEW l \in Loop, Wake(l) PROVE MainEnds' /\ WindowEnds'
  <2>1. loop[l].n \in 1..Attempts
    BY <1>4 DEF Wake, TypeOK
  <2> QED
    BY <1>4, <1>m, <2>1, ConnectTries DEF Wake
<1>5. ASSUME NEW s \in Socket, Open(s) PROVE MainEnds' /\ WindowEnds'
  <2>1. s \in Ends'
    BY <1>5 DEF Open, Cleanup, TypeOK, Ends
  <2> QED
    BY <1>5, <1>m, <2>1 DEF Open
<1>6. ASSUME NEW s \in Socket, Refused(s) PROVE MainEnds' /\ WindowEnds'
  <2>1. MainEnds'
    BY <1>6, <1>m DEF Refused
  <2>2. WindowEnds'
    BY <1>6, <1>c DEF Refused
  <2> QED
    BY <2>1, <2>2
<1>7. ASSUME NEW s \in Socket, Closed(s) PROVE MainEnds' /\ WindowEnds'
  <2>1. MainEnds'
    BY <1>7, <1>m DEF Closed
  <2>2. WindowEnds'
    BY <1>7, <1>c DEF Closed
  <2> QED
    BY <2>1, <2>2
<1>8. ASSUME NEW s \in Socket, Errs(s) PROVE MainEnds' /\ WindowEnds'
  <2>1. MainEnds'
    BY <1>8, <1>m DEF Errs, Cleanup
  <2>2. \A x \in Ends : x \in Ends'
    BY <1>8 DEF Errs, Cleanup, Ends, TypeOK
  <2>3. WindowEnds'
    BY <1>8, <2>2, <1>w DEF Errs, Cleanup
  <2> QED
    BY <2>1, <2>3
<1>close. ASSUME NEW s \in Socket, ServerCloses(s) PROVE MainEnds' /\ WindowEnds'
  <2>1. MainEnds'
    BY <1>close, <1>m DEF ServerCloses
  <2>2. \A x \in Ends : x \in Ends'
    BY <1>close DEF ServerCloses, Ends, TypeOK
  <2>3. WindowEnds'
    BY <1>close, <2>2, <1>w DEF ServerCloses
  <2> QED
    BY <2>1, <2>3
<1>9. ASSUME NEW s \in Socket, TimesOut(s) PROVE MainEnds' /\ WindowEnds'
  <2>1. MainEnds'
    BY <1>9, <1>m DEF TimesOut, Cleanup
  <2>2. \A x \in Ends : x \in Ends'
    BY <1>9 DEF TimesOut, Cleanup, Ends, TypeOK
  <2>3. WindowEnds'
    BY <1>9, <2>2, <1>w DEF TimesOut, Cleanup
  <2> QED
    BY <2>1, <2>3
<1>10. CASE Opened
  <2>1. MainEnds'
    BY <1>10, <1>m DEF Opened
  <2>2. WindowEnds'
    BY <1>10, <1>d DEF Opened
  <2> QED
    BY <2>1, <2>2
<1>11. CASE ClosedSeen
  <2>1. MainEnds'
    BY <1>11, <1>m DEF ClosedSeen
  <2>2. WindowEnds'
    BY <1>11, <1>d DEF ClosedSeen
  <2> QED
    BY <2>1, <2>2
<1>12. CASE TimerFires
  <2>1. MainEnds'
    BY <1>12, <1>b DEF TimerFires
  <2>2. \A x \in Ends : x \in Ends'
    BY <1>12 DEF TimerFires, Ends, TypeOK
  <2>3. WindowEnds'
    BY <1>12, <2>2, <1>w DEF TimerFires
  <2> QED
    BY <2>1, <2>3
<1>13. ASSUME NEW a \in BOOLEAN, StartOver(a) PROVE MainEnds' /\ WindowEnds'
  <2>1. MainEnds'
    BY <1>13, StartOverMail DEF StartOver
  <2>2. \A x \in Ends : x \in Ends'
    BY <1>13 DEF StartOver, Ends, TypeOK
  <2>3. WindowEnds'
    BY <1>13, <2>2, <1>w DEF StartOver
  <2> QED
    BY <2>1, <2>3
<1>14. CASE ServiceStarted
  <2>1. MainEnds'
    BY <1>14, <1>b DEF ServiceStarted
  <2>2. \A x \in Ends : x \in Ends'
    BY <1>14 DEF ServiceStarted, Ends, TypeOK
  <2>3. WindowEnds'
    BY <1>14, <2>2, <1>w DEF ServiceStarted
  <2> QED
    BY <2>1, <2>3
<1>15. ASSUME NEW s \in Socket, Accept(s) PROVE MainEnds' /\ WindowEnds'
  <2>1. MainEnds'
    BY <1>15, <1>m DEF Accept
  <2>2. \A x \in Ends : x \in Ends'
    BY <1>15 DEF Accept, Ends, TypeOK
  <2>3. WindowEnds'
    BY <1>15, <2>2, <1>w DEF Accept
  <2> QED
    BY <2>1, <2>3
<1>16. ASSUME NEW s \in Socket, AddConnection(s) PROVE MainEnds' /\ WindowEnds'
  <2>1. MainEnds'
    BY <1>16, <1>m DEF AddConnection
  <2>2. \A x \in Ends : x \in Ends'
    BY <1>16 DEF AddConnection, Ends, TypeOK
  <2>3. WindowEnds'
    BY <1>16, <2>2, <1>w DEF AddConnection
  <2> QED
    BY <2>1, <2>3
<1>17. ASSUME NEW s \in Socket, Notice(s) PROVE MainEnds' /\ WindowEnds'
  <2>1. MainEnds'
    BY <1>17, <1>m DEF Notice
  <2>2. \A x \in Ends : x \in Ends'
    BY <1>17 DEF Notice, Ends, TypeOK
  <2>3. WindowEnds'
    BY <1>17, <2>2, <1>w DEF Notice
  <2> QED
    BY <2>1, <2>3
<1>18. ASSUME NEW s \in Socket, EndpointEnds(s) PROVE MainEnds' /\ WindowEnds'
  <2>1. MainEnds'
    BY <1>18, <1>m DEF EndpointEnds
  <2>2. \A x \in Ends : x \in Ends'
    BY <1>18 DEF EndpointEnds, Ends, TypeOK
  <2>3. WindowEnds'
    BY <1>18, <2>2, <1>w DEF EndpointEnds
  <2> QED
    BY <2>1, <2>3
<1>19. ASSUME NEW s \in Socket, PingFails(s) PROVE MainEnds' /\ WindowEnds'
  <2>1. MainEnds'
    BY <1>19, <1>m DEF PingFails
  <2>2. \A x \in Ends : x \in Ends'
    BY <1>19 DEF PingFails, Ends, TypeOK
  <2>3. WindowEnds'
    BY <1>19, <2>2, <1>w DEF PingFails
  <2> QED
    BY <2>1, <2>3
<1>20. ASSUME NEW s \in Socket, SendFails(s) PROVE MainEnds' /\ WindowEnds'
  <2>1. MainEnds'
    BY <1>20, <1>m DEF SendFails
  <2>2. \A x \in Ends : x \in Ends'
    BY <1>20 DEF SendFails, Ends, TypeOK
  <2>3. WindowEnds'
    BY <1>20, <2>2, <1>w DEF SendFails
  <2> QED
    BY <2>1, <2>3
<1>21. CASE ServerStarts
  <2>1. MainEnds'
    BY <1>21, <1>m DEF ServerStarts
  <2>2. \A x \in Ends : x \in Ends'
    BY <1>21 DEF ServerStarts, Ends, TypeOK
  <2>3. WindowEnds'
    BY <1>21, <2>2, <1>w DEF ServerStarts
  <2> QED
    BY <2>1, <2>3
<1>22. CASE ServerStops
  <2>1. MainEnds'
    BY <1>22, <1>m DEF ServerStops
  <2>2. \A x \in Ends : x \in Ends'
    BY <1>22 DEF ServerStops, Ends, TypeOK
  <2>3. WindowEnds'
    BY <1>22, <2>2, <1>w DEF ServerStops
  <2> QED
    BY <2>1, <2>3
<1>23. ASSUME NEW s \in Socket, LinkBreaks(s) PROVE MainEnds' /\ WindowEnds'
  <2>1. MainEnds'
    BY <1>23, <1>m DEF LinkBreaks
  <2>2. \A x \in Ends : x \in Ends'
    BY <1>23 DEF LinkBreaks, Ends, TypeOK
  <2>3. WindowEnds'
    BY <1>23, <2>2, <1>w DEF LinkBreaks
  <2> QED
    BY <2>1, <2>3
<1>24. CASE UNCHANGED vars
  <2>1. MainEnds'
    BY <1>24, <1>m DEF vars
  <2>2. \A x \in Ends : x \in Ends'
    BY <1>24 DEF vars, Ends, TypeOK
  <2>3. WindowEnds'
    BY <1>24, <2>2, <1>w DEF vars
  <2> QED
    BY <2>1, <2>3
<1> QED
  BY <1>1, <1>close, <1>2, <1>3, <1>4, <1>5, <1>6, <1>7, <1>8, <1>9, <1>10, <1>11, <1>12, <1>13, <1>14, <1>15, <1>16, <1>17, <1>18, <1>19, <1>20, <1>21, <1>22, <1>23, <1>24 DEF Next, SocketEvent, ServerStep

\* Every step keeps AttemptInv: only connectWS and the events of sockets touch
\* what it is about.
LEMMA NextAttempt ==
  ASSUME BaseInv, AttemptInv, [Next]_vars
  PROVE  AttemptInv'
<1> USE DEF BaseInv, mainVars, windowVars, serverVars, tableVars, socketVars
<1>l. ASSUME UNCHANGED <<sock, loop>> PROVE AttemptInv'
  BY <1>l DEF AttemptInv
\* A call that awaits no promise calls connectWS.
<1>c. ASSUME NEW l \in Loop, NEW n \in 1..Attempts, loop[l].at # "await", ConnectWS(l, n)
      PROVE  AttemptInv'
  <2>1. \A s \in Socket, k \in Loop :
           loop[k].at = "await" /\ loop[k].on = s => loop'[k] = loop[k]
    BY <1>c DEF ConnectWS, TypeOK
  <2>2. ASSUME NEW s \in Socket, sock'[s] = "connecting", sock[s] # "connecting"
        PROVE  loop'[l].at = "await" /\ loop'[l].on = s
    <3>1. CASE sock' = sock
      BY <2>2, <3>1
    <3>2. ASSUME NEW t \in Socket, sock' = [sock EXCEPT ![t] = "connecting"],
                 loop' = [loop EXCEPT ![l] = [at |-> "await", on |-> t, n |-> n]]
          PROVE  loop'[l].at = "await" /\ loop'[l].on = s
      <4>1. s = t
        BY <2>2, <3>2 DEF TypeOK
      <4> QED
        BY <3>2, <4>1 DEF TypeOK
    <3> QED
      BY <1>c, <3>1, <3>2 DEF ConnectWS
  <2> QED
    BY <2>1, <2>2 DEF AttemptInv
\* The attempt of s is over; others may go on.
<1>o. ASSUME NEW s \in Socket, NEW r \in {"open", "closed", "mute"}, Cleanup(s, r),
             \A l \in Loop : ~(loop[l].at = "await" /\ loop[l].on = s) => loop'[l] = loop[l]
      PROVE  AttemptInv'
  <2>1. \A x \in Socket : sock'[x] = "connecting" => x # s /\ sock[x] = "connecting"
    BY <1>o DEF Cleanup, TypeOK
  <2> QED
    BY <1>o, <2>1 DEF AttemptInv
<1>1. CASE Connect
  BY <1>1, <1>l DEF Connect
<1>2. CASE Disconnect
  <2>1. \A s \in Socket : sock'[s] = "connecting" => sock[s] = "connecting"
    BY <1>2 DEF Disconnect, TypeOK
  <2> QED
    BY <1>2, <2>1 DEF Disconnect, AttemptInv
<1>3. CASE Fire
  <2>1. PICK l \in Loop : loop[l].at = "idle" /\ ConnectWS(l, 1)
    BY <1>3 DEF Fire
  <2>2. 1 \in 1..Attempts
    BY NotifyAssumption DEF NotifyAssumption
  <2> QED
    BY <2>1, <2>2, <1>c
<1>4. ASSUME NEW l \in Loop, Wake(l) PROVE AttemptInv'
  <2>1. loop[l].n \in 1..Attempts /\ loop[l].at # "await"
    BY <1>4 DEF Wake, TypeOK
  <2> QED
    BY <1>4, <2>1, <1>c DEF Wake
<1>5. ASSUME NEW s \in Socket, Open(s) PROVE AttemptInv'
  BY <1>5, <1>o DEF Open, Resolve
<1>6. ASSUME NEW s \in Socket, Refused(s) PROVE AttemptInv'
  BY <1>6, <1>o DEF Refused, Reject
<1>7. ASSUME NEW s \in Socket, Closed(s) PROVE AttemptInv'
  BY <1>7, <1>o DEF Closed
<1>8. ASSUME NEW s \in Socket, Errs(s) PROVE AttemptInv'
  <2>1. \A x \in Socket : sock'[x] = "connecting" => sock[x] = "connecting"
    BY <1>8 DEF Errs, Cleanup, TypeOK
  <2> QED
    BY <1>8, <2>1 DEF Errs, AttemptInv
<1>close. ASSUME NEW s \in Socket, ServerCloses(s) PROVE AttemptInv'
  <2>1. \A x \in Socket : sock'[x] = "connecting" => sock[x] = "connecting"
    BY <1>close DEF ServerCloses, TypeOK
  <2> QED
    BY <1>close, <2>1 DEF ServerCloses, AttemptInv
<1>9. ASSUME NEW s \in Socket, TimesOut(s) PROVE AttemptInv'
  BY <1>9, <1>o DEF TimesOut, Reject
<1>10. CASE Opened \/ ClosedSeen \/ TimerFires \/ ServiceStarted
  BY <1>10, <1>l DEF Opened, ClosedSeen, TimerFires, ServiceStarted
<1>11. ASSUME NEW a \in BOOLEAN, StartOver(a) PROVE AttemptInv'
  BY <1>11, <1>l DEF StartOver
<1>12. ASSUME NEW s \in Socket, ServerStep(s) \/ SendFails(s) \/ LinkBreaks(s)
      PROVE  AttemptInv'
  BY <1>12, <1>l DEF ServerStep, Accept, AddConnection, Notice, EndpointEnds, PingFails, SendFails,
     LinkBreaks
<1>13. CASE ServerStarts \/ ServerStops
  BY <1>13, <1>l DEF ServerStarts, ServerStops
<1>14. CASE UNCHANGED vars
  BY <1>14, <1>l DEF vars
<1> QED
  BY <1>1, <1>close, <1>2, <1>3, <1>4, <1>5, <1>6, <1>7, <1>8, <1>9, <1>10, <1>11, <1>12, <1>13, <1>14
     DEF Next, SocketEvent

\* Every step leaves somebody who tries, or a call that has ended in silence.
LEMMA NextTries ==
  ASSUME BaseInv, MailInv, AttemptInv, TriesInv, [Next]_vars
  PROVE  TriesInv'
<1> USE DEF BaseInv, mainVars, windowVars, serverVars, tableVars, socketVars
<1>l. ASSUME UNCHANGED <<sock, toMain, toWindow, debounce, timer, loop, silent, auth, retryCount>>
      PROVE  TriesInv'
  BY <1>l DEF TriesInv, Tries, Live, GaveUp
<1>1. CASE Connect
  BY <1>1 DEF Connect, TriesInv, Tries
<1>2. CASE Disconnect
  <2>1. toMain' # <<>>
    BY <1>2, TailKeeps DEF Disconnect, MailInv, TypeOK
  <2> QED
    BY <1>2, <2>1 DEF TriesInv, Tries
<1>3. CASE Fire
  <2>1. PICK l \in Loop : ConnectWS(l, 1)
    BY <1>3 DEF Fire
  <2>2. 1 \in 1..Attempts
    BY NotifyAssumption DEF NotifyAssumption
  <2> QED
    BY <2>1, <2>2, ConnectTries DEF TriesInv
<1>4. ASSUME NEW l \in Loop, Wake(l) PROVE TriesInv'
  <2>1. loop[l].n \in 1..Attempts
    BY <1>4 DEF Wake, TypeOK
  <2> QED
    BY <1>4, <2>1, ConnectTries DEF Wake, TriesInv
<1>5. ASSUME NEW s \in Socket, Open(s) PROVE TriesInv'
  <2>1. s \in Live'
    BY <1>5 DEF Open, Cleanup, TypeOK, Live
  <2> QED
    BY <1>5, <2>1 DEF TriesInv
<1>6. ASSUME NEW s \in Socket, Errs(s) PROVE TriesInv'
  <2>1. s \in Live'
    BY <1>6 DEF Errs, Cleanup, TypeOK, Live
  <2> QED
    BY <1>6, <2>1 DEF TriesInv
<1>close. ASSUME NEW s \in Socket, ServerCloses(s) PROVE TriesInv'
  <2>1. s \in Live'
    BY <1>close DEF ServerCloses, TypeOK, Live
  <2> QED
    BY <1>close, <2>1 DEF TriesInv
<1>7. ASSUME NEW s \in Socket, Refused(s) PROVE TriesInv'
  <2>1. toWindow' # <<>>
    BY <1>7, AppendEnds DEF Refused, TypeOK
  <2> QED
    BY <1>7, <2>1 DEF TriesInv, Tries
<1>8. ASSUME NEW s \in Socket, Closed(s) PROVE TriesInv'
  <2>1. toWindow' # <<>>
    BY <1>8, AppendEnds DEF Closed, TypeOK
  <2> QED
    BY <1>8, <2>1 DEF TriesInv, Tries
<1>9. ASSUME NEW s \in Socket, TimesOut(s) PROVE TriesInv'
  <2>1. PICK l \in Loop : loop[l].at = "await" /\ loop[l].on = s
    BY <1>9 DEF TimesOut, AttemptInv
  <2>2. CASE loop[l].n = Attempts
    <3>1. silent'
      BY <1>9, <2>1, <2>2 DEF TimesOut
    <3> QED
      BY <3>1 DEF TriesInv
  <2>3. CASE loop[l].n # Attempts
    <3>1. loop[l].n < Attempts
      BY <2>3, NotifyAssumption DEF TypeOK, NotifyAssumption
    <3>2. loop'[l].at = "wait"
      BY <1>9, <2>1, <3>1 DEF TimesOut, Reject
    <3> QED
      BY <3>2 DEF TriesInv, Tries
  <2> QED
    BY <2>2, <2>3
<1>10. CASE Opened
  <2>1. CASE Tail(toWindow) # <<>>
    BY <1>10, <2>1 DEF Opened, TriesInv, Tries
  <2>2. CASE Tail(toWindow) = <<>>
    <3>1. toWindow[Len(toWindow)] = "connected"
      BY <1>10, <2>2, TailKeeps DEF Opened, TypeOK
    <3>2. PICK s \in Socket : sock[s] \in {"open", "closing"}
      BY <1>10, <3>1 DEF Opened, MailInv
    <3>3. s \in Live'
      BY <1>10, <3>2 DEF Opened, Live
    <3> QED
      BY <3>3 DEF TriesInv
  <2> QED
    BY <1>10, <2>1, <2>2 DEF TriesInv, Tries
<1>11. CASE ClosedSeen
  <2>1. CASE auth
    <3>1. CASE retryCount + 1 <= MaxRetries
      <4>1. timer'
        BY <1>11, <2>1, <3>1 DEF ClosedSeen, ScheduleReconnect
      <4> QED
        BY <4>1 DEF TriesInv, Tries
    <3>2. CASE ~(retryCount + 1 <= MaxRetries)
      <4>1. retryCount' > MaxRetries
        BY <1>11, <2>1, <3>2, NotifyAssumption
           DEF ClosedSeen, ScheduleReconnect, GaveUp, TypeOK, NotifyAssumption
      <4> QED
        BY <4>1 DEF TriesInv, GaveUp
    <3> QED
      BY <3>1, <3>2
  <2>2. CASE ~auth
    BY <1>11, <2>2 DEF ClosedSeen, TriesInv
  <2> QED
    BY <1>11, <2>1, <2>2 DEF TypeOK, ClosedSeen
<1>12. CASE TimerFires
  <2>1. toMain \in Seq({"connect", "disconnect"}) /\ toMain' = Append(toMain, "connect")
    BY <1>12 DEF TimerFires, TypeOK
  <2>2. toMain' # <<>>
    BY <2>1, AppendEnds
  <2> QED
    BY <1>12, <2>2 DEF TriesInv, Tries
<1>13. CASE ServiceStarted
  <2>1. toMain \in Seq({"connect", "disconnect"}) /\ toMain' = Append(toMain, "connect")
    BY <1>13 DEF ServiceStarted, TypeOK
  <2>2. toMain' # <<>>
    BY <2>1, AppendEnds
  <2> QED
    BY <1>13, <2>2 DEF TriesInv, Tries
<1>14. ASSUME NEW a \in BOOLEAN, StartOver(a) PROVE TriesInv'
  BY <1>14, StartOverMail DEF TriesInv, Tries
<1>15. ASSUME NEW s \in Socket, Accept(s) PROVE TriesInv'
  BY <1>15, <1>l DEF Accept
<1>16. ASSUME NEW s \in Socket, AddConnection(s) PROVE TriesInv'
  BY <1>16, <1>l DEF AddConnection
<1>17. ASSUME NEW s \in Socket, Notice(s) PROVE TriesInv'
  BY <1>17, <1>l DEF Notice
<1>18. ASSUME NEW s \in Socket, EndpointEnds(s) PROVE TriesInv'
  BY <1>18, <1>l DEF EndpointEnds
<1>19. ASSUME NEW s \in Socket, PingFails(s) PROVE TriesInv'
  BY <1>19, <1>l DEF PingFails
<1>20. ASSUME NEW s \in Socket, LinkBreaks(s) PROVE TriesInv'
  BY <1>20, <1>l DEF LinkBreaks
<1>21. ASSUME NEW s \in Socket, SendFails(s) PROVE TriesInv'
  BY <1>21, <1>l DEF SendFails
<1>22. CASE ServerStarts
  BY <1>22, <1>l DEF ServerStarts
<1>23. CASE ServerStops
  BY <1>23, <1>l DEF ServerStops
<1>24. CASE UNCHANGED vars
  BY <1>24, <1>l DEF vars
<1> QED
  BY <1>1, <1>close, <1>2, <1>3, <1>4, <1>5, <1>6, <1>7, <1>8, <1>9, <1>10, <1>11, <1>12, <1>13, <1>14, <1>15, <1>16, <1>17, <1>18, <1>19, <1>20, <1>21, <1>22, <1>23, <1>24 DEF Next, SocketEvent, ServerStep

-----------------------------------------------------------------------------
(* The theorems                                                            *)

\* Initially "connect" is on its way.
LEMMA InitMail == Init => MailInv /\ AttemptInv /\ TriesInv
<1> SUFFICES ASSUME Init PROVE MailInv /\ AttemptInv /\ TriesInv
  OBVIOUS
<1>1. toMain = <<"connect">> \/ toMain = <<"disconnect", "connect">>
  BY DEF Init
<1>2. toMain # <<>> /\ toMain[Len(toMain)] = "connect"
  <2>1. CASE toMain = <<"connect">>
    BY <2>1
  <2>2. CASE toMain = <<"disconnect", "connect">>
    BY <2>2
  <2> QED
    BY <1>1, <2>1, <2>2
<1>3. AttemptInv
  BY DEF Init, AttemptInv
<1> QED
  BY <1>2, <1>3 DEF Init, MailInv, TriesInv, Tries

\* BaseInv is inductive.
THEOREM Base == Spec => []BaseInv
<1>1. BaseInv /\ [Next]_vars => BaseInv'
  BY NextBase
<1> QED
  BY InitBase, <1>1, PTL DEF Spec

\* Every variable keeps its type.
THEOREM TypeCorrect == Spec => []TypeOK
<1>1. BaseInv => TypeOK
  BY DEF BaseInv
<1> QED
  BY <1>1, Base, PTL

\* The connection the server lists is served and pinged.
THEOREM ListedAlive == Spec => []ListedIsAlive
<1>1. BaseInv => ListedIsAlive
  BY DEF BaseInv
<1> QED
  BY <1>1, Base, PTL

\* A promise somebody awaits, or will be given, is one that will be settled.
THEOREM PromisesSettle == Spec => []AwaitedWillSettle
<1>1. BaseInv => AwaitedWillSettle
  BY DEF BaseInv
<1> QED
  BY <1>1, Base, PTL

\* Somebody always tries, unless a call has ended in silence.
THEOREM AlwaysTried == Spec => []SomebodyTries
<1> DEFINE IInv == BaseInv /\ MailInv /\ AttemptInv /\ TriesInv
<1>0. Init => IInv
  BY InitBase, InitMail
<1>1. IInv /\ [Next]_vars => IInv'
  BY NextBase, NextMail, NextAttempt, NextTries
<1>2. IInv => SomebodyTries
  <2> SUFFICES ASSUME BaseInv, MailInv, TriesInv, auth, ~GaveUp, ~silent, Live = {}
               PROVE  \/ \E i \in DOMAIN toMain : toMain[i] = "connect"
                      \/ \E i \in DOMAIN toWindow : toWindow[i] = "closed"
                      \/ debounce \/ timer
                      \/ \E l \in Loop : loop[l].at = "wait"
    BY DEF SomebodyTries
  <2>1. CASE toMain # <<>>
    <3>1. Len(toMain) \in DOMAIN toMain
      BY <2>1, EmptySeq, LenProperties DEF BaseInv, TypeOK
    <3> QED
      BY <2>1, <3>1 DEF MailInv
  <2>2. CASE toWindow # <<>>
    <3>1. Len(toWindow) \in DOMAIN toWindow
      BY <2>2, EmptySeq, LenProperties DEF BaseInv, TypeOK
    <3>2. toWindow[Len(toWindow)] # "connected"
      BY <2>2 DEF MailInv, Live
    <3>3. toWindow[Len(toWindow)] \in {"connected", "closed"}
      BY <2>2, ElementOfSeq, LenProperties, EmptySeq DEF BaseInv, TypeOK
    <3> QED
      BY <3>1, <3>2, <3>3
  <2> QED
    BY <2>1, <2>2 DEF TriesInv, Tries
<1> QED
  BY <1>0, <1>1, <1>2, PTL DEF Spec
=============================================================================
