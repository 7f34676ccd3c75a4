------------------------------- MODULE Notify -------------------------------
(***************************************************************************)
(* How an application hears from the back end.  The window                 *)
(* (frontend/src/context/websocket-context.tsx) asks the main process      *)
(* (frontend/electron/handles/websocket.js) for a WebSocket and asks again *)
(* when it is told that one has closed; the main process connects, with    *)
(* retries of its own; the server (routes/websocket_routes.py) lists one   *)
(* connection per application and pings it.                                *)
(*                                                                         *)
(* Window and main process exchange messages in order, each handled in one *)
(* turn of the receiver's loop.  The server's tasks share a loop: one      *)
(* stretch between two awaits is one action.                               *)
(*                                                                         *)
(* Left out: what is in a message, other applications (each has its own    *)
(* entry in the table) and /notify, which no program connects to; the      *)
(* ping watchdog, which only shows a text; the two addresses of local and  *)
(* remote processing.  A socket's name may be used again once nobody       *)
(* refers to it, so that names do not run out.                             *)
(***************************************************************************)
EXTENDS Naturals, Sequences

CONSTANTS
  Socket,       \* names of sockets
  Loop,         \* calls of connectWithRetry that may overlap
  None,
  Attempts,     \* maxRetries of connectWithRetry
  MaxRetries,   \* MAX_RETRIES of the window
  MaxMail,      \* bound: messages on their way in one direction
  MaxUpsets     \* bound: servers that go down, links that break, attempts that time out,
                \* windows that start over, services that start

ASSUME NotifyAssumption ==
  /\ None \notin Socket
  /\ Attempts \in Nat \ {0}
  /\ MaxRetries \in Nat
  /\ MaxMail \in Nat
  /\ MaxUpsets \in Nat

VARIABLES
  sock,        \* main: readyState of each socket, or "mute" after a timeout
  wsInstance, isConnecting,
  promise,     \* main: the socket connectionPromise is about
  debounce,    \* main: debounceTimeout is pending
  loop,        \* main: calls of connectWithRetry
  silent,      \* a last attempt has timed out, and no call has begun since
  toMain,      \* invocations on their way to the main process
  toWindow,    \* events on their way to the window
  auth,        \* window: isAuthenticated
  retryCount,
  timer,       \* window: reconnectTimer is pending
  up,          \* the server runs
  endpoint,    \* server: websocket_endpoint of each socket
  active,      \* server: active_connections[app]
  keeper,      \* server: keep_alive_tasks[app]
  pinging,     \* server: keep-alive tasks that run
  lost,        \* server: connections it knows to be closed
  cut,         \* broken links
  upsets

socketVars == <<sock, wsInstance, isConnecting, promise>>
mainVars   == <<socketVars, debounce, loop, silent>>
windowVars == <<auth, retryCount, timer>>
tableVars  == <<active, keeper, pinging>>
serverVars == <<up, endpoint, tableVars, lost>>
vars == <<mainVars, toMain, toWindow, windowVars, serverVars, cut, upsets>>

Idle == [at |-> "idle", on |-> None, n |-> 1]

Init ==
  /\ sock = [s \in Socket |-> "none"]
  /\ wsInstance = None
  /\ isConnecting = FALSE
  /\ promise = None
  /\ debounce = FALSE
  /\ loop = [l \in Loop |-> Idle]
  /\ silent = FALSE
  /\ auth \in BOOLEAN
  /\ toMain = IF auth THEN <<"connect">> ELSE <<"disconnect", "connect">>
  /\ toWindow = <<>>
  /\ retryCount = 0
  /\ timer = FALSE
  /\ up \in BOOLEAN
  /\ endpoint = [s \in Socket |-> "none"]
  /\ active = None
  /\ keeper = None
  /\ pinging = {}
  /\ lost = {}
  /\ cut = {}
  /\ upsets = 0

\* Sockets the main process may still hear of.
Live == {s \in Socket : sock[s] \in {"connecting", "open", "closing"}}

-----------------------------------------------------------------------------
(* The main process                                                        *)

\* Nobody refers to the name s any more.  Which of these a socket gets, and
\* which place a call, makes no difference.
Unused(s) ==
  /\ s \notin Live /\ endpoint[s] \in {"none", "over"} /\ s \notin pinging

\* connectWS, called by l for the n-th time.
ConnectWS(l, n) ==
  \/ /\ wsInstance # None /\ sock[wsInstance] = "open"
     /\ Len(toWindow) < MaxMail
     /\ toWindow' = Append(toWindow, "connected")
     /\ loop' = [loop EXCEPT ![l] = Idle]
     /\ UNCHANGED <<socketVars, endpoint, lost, cut>>
  \/ /\ ~(wsInstance # None /\ sock[wsInstance] = "open")
     /\ isConnecting
     /\ loop' = [loop EXCEPT ![l] = [at |-> "await", on |-> promise, n |-> n]]
     /\ UNCHANGED <<socketVars, toWindow, endpoint, lost, cut>>
  \/ /\ ~(wsInstance # None /\ sock[wsInstance] = "open")
     /\ ~isConnecting
     /\ \E u \in Socket : Unused(u)
     /\ LET s == CHOOSE u \in Socket : Unused(u) IN
          /\ sock' = [sock EXCEPT ![s] = "connecting"]
          /\ wsInstance' = s
          /\ promise' = s
          /\ loop' = [loop EXCEPT ![l] = [at |-> "await", on |-> s, n |-> n]]
          /\ endpoint' = [endpoint EXCEPT ![s] = "none"]
          /\ lost' = lost \ {s}
          /\ cut' = cut \ {s}
     /\ isConnecting' = TRUE
     /\ UNCHANGED toWindow

\* The handler of connect-ws: (re)start the debounce timer.
Connect ==
  /\ toMain # <<>> /\ Head(toMain) = "connect"
  /\ toMain' = Tail(toMain)
  /\ debounce' = TRUE
  /\ UNCHANGED <<socketVars, loop, silent, toWindow, windowVars, serverVars, cut, upsets>>

\* The handler of disconnect-ws.  A socket that is still connecting is
\* forgotten and not closed, and a call of connectWithRetry goes on.
Disconnect ==
  /\ toMain # <<>> /\ Head(toMain) = "disconnect"
  /\ toMain' = Tail(toMain)
  /\ sock' = IF wsInstance # None /\ sock[wsInstance] = "open"
               THEN [sock EXCEPT ![wsInstance] = "closing"] ELSE sock
  /\ debounce' = FALSE
  /\ wsInstance' = None
  /\ isConnecting' = FALSE
  /\ promise' = None
  /\ UNCHANGED <<loop, silent, toWindow, windowVars, serverVars, cut, upsets>>

\* The debounce timer fires: connectWithRetry is called.
Fire ==
  /\ debounce
  /\ debounce' = FALSE
  /\ silent' = FALSE
  /\ \E l \in Loop : loop[l].at = "idle"
  /\ ConnectWS(CHOOSE l \in Loop : loop[l].at = "idle", 1)
  /\ UNCHANGED <<toMain, windowVars, up, tableVars, upsets>>

\* The wait between two attempts is over.
Wake(l) ==
  /\ loop[l].at = "wait"
  /\ ConnectWS(l, loop[l].n)
  /\ UNCHANGED <<debounce, silent, toMain, windowVars, up, tableVars, upsets>>

\* Mutant: the handler does not call cleanup().
LeaveShared(s, r) ==
  /\ sock' = [sock EXCEPT ![s] = r]
  /\ UNCHANGED <<isConnecting, promise, wsInstance>>

\* cleanup() of the socket s, whose state is now r: it resets what all
\* sockets share.
Cleanup(s, r) ==
  /\ sock' = [sock EXCEPT ![s] = r]
  /\ isConnecting' = FALSE
  /\ promise' = None
  /\ wsInstance' = IF r = "open" THEN wsInstance ELSE None

\* The calls that await s return.
Resolve(s) ==
  loop' = [l \in Loop |-> IF loop[l].at = "await" /\ loop[l].on = s THEN Idle ELSE loop[l]]

\* They wait for their next attempt, or give up after the last.
Reject(s) ==
  loop' = [l \in Loop |->
             IF loop[l].at = "await" /\ loop[l].on = s
               THEN IF loop[l].n < Attempts
                      THEN [at |-> "wait", on |-> None, n |-> loop[l].n + 1]
                      ELSE Idle
               ELSE loop[l]]

\* Event "open".
Open(s) ==
  /\ sock[s] = "connecting" /\ endpoint[s] \in {"accepted", "serving"} /\ s \notin cut
  /\ Len(toWindow) < MaxMail
  /\ Cleanup(s, "open")
  /\ toWindow' = Append(toWindow, "connected")
  /\ Resolve(s)
  /\ UNCHANGED <<debounce, silent, toMain, windowVars, serverVars, cut, upsets>>

\* The connection is refused or breaks: "error" and then "close" in one turn.
Refused(s) ==
  /\ sock[s] = "connecting" /\ (~up \/ s \in cut)
  /\ Len(toWindow) < MaxMail
  /\ Cleanup(s, "closed")
  /\ toWindow' = Append(toWindow, "closed")
  /\ Reject(s)
  /\ UNCHANGED <<debounce, silent, toMain, windowVars, serverVars, cut, upsets>>

\* Event "close" of a socket that was open.  Its promise is settled already.
Closed(s) ==
  /\ \/ sock[s] = "closing"
     \/ sock[s] = "open" /\ s \in cut
  /\ Len(toWindow) < MaxMail
  /\ Cleanup(s, "closed")
  /\ toWindow' = Append(toWindow, "closed")
  /\ UNCHANGED <<debounce, loop, silent, toMain, windowVars, serverVars, cut, upsets>>

\* The server has ended the connection: the socket is closing until "close".
ServerCloses(s) ==
  /\ sock[s] = "open" /\ s \in cut
  /\ sock' = [sock EXCEPT ![s] = "closing"]
  /\ UNCHANGED <<wsInstance, isConnecting, promise, debounce, loop, silent, toMain, toWindow,
                 windowVars, serverVars, cut, upsets>>

\* Event "error" of a socket that was open; "close" follows in a later turn.
Errs(s) ==
  /\ sock[s] = "open" /\ s \in cut
  /\ Cleanup(s, "closing")
  /\ UNCHANGED <<debounce, loop, silent, toMain, toWindow, windowVars, serverVars, cut, upsets>>

\* The attempt times out.  terminate() makes "error" and "close" follow, but
\* their handlers return at once, and the window is told nothing.
TimesOut(s) ==
  /\ upsets < MaxUpsets /\ sock[s] = "connecting"
  /\ upsets' = upsets + 1
  /\ Cleanup(s, "mute")
  /\ Reject(s)
  /\ silent' = (silent \/ \E l \in Loop :
                  loop[l].at = "await" /\ loop[l].on = s /\ loop[l].n = Attempts)
  /\ UNCHANGED <<debounce, toMain, toWindow, windowVars, serverVars, cut>>

-----------------------------------------------------------------------------
(* The window                                                              *)

GaveUp == retryCount > MaxRetries

\* onOpen
Opened ==
  /\ toWindow # <<>> /\ Head(toWindow) = "connected"
  /\ toWindow' = Tail(toWindow)
  /\ retryCount' = 0
  /\ timer' = FALSE
  /\ UNCHANGED <<mainVars, toMain, auth, serverVars, cut, upsets>>

\* Mutant: one retry too few is counted as the last.
NoRetry ==
  /\ retryCount' = IF GaveUp THEN retryCount ELSE retryCount + 1
  /\ timer' = (timer \/ retryCount + 1 < MaxRetries)

\* scheduleReconnect.  Past MAX_RETRIES the count does not matter.
ScheduleReconnect ==
  /\ retryCount' = IF GaveUp THEN retryCount ELSE retryCount + 1
  /\ timer' = (timer \/ retryCount + 1 <= MaxRetries)

\* onClose
ClosedSeen ==
  /\ toWindow # <<>> /\ Head(toWindow) = "closed"
  /\ toWindow' = Tail(toWindow)
  /\ IF auth THEN ScheduleReconnect ELSE UNCHANGED <<retryCount, timer>>
  /\ UNCHANGED <<mainVars, toMain, auth, serverVars, cut, upsets>>

\* The timer of scheduleReconnect fires.
TimerFires ==
  /\ timer /\ Len(toMain) < MaxMail
  /\ timer' = FALSE
  /\ toMain' = Append(toMain, "connect")
  /\ UNCHANGED <<mainVars, toWindow, auth, retryCount, serverVars, cut, upsets>>

\* Somebody logs in or out, or changes the mode of processing: the effects
\* are torn down and set up again.
StartOver(a) ==
  /\ upsets < MaxUpsets
  /\ upsets' = upsets + 1
  /\ auth' = a
  /\ toMain' = toMain \o (IF ~a /\ auth THEN <<"disconnect", "disconnect", "connect">>
                                       ELSE <<"disconnect", "connect">>)
  /\ Len(toMain') <= MaxMail
  /\ timer' = FALSE
  /\ retryCount' = 0
  /\ UNCHANGED <<mainVars, toWindow, serverVars, cut>>

\* Local processing: a service of the back end has started.
ServiceStarted ==
  /\ upsets < MaxUpsets /\ Len(toMain) < MaxMail
  /\ upsets' = upsets + 1
  /\ toMain' = Append(toMain, "connect")
  /\ UNCHANGED <<mainVars, toWindow, windowVars, serverVars, cut>>

-----------------------------------------------------------------------------
(* The server                                                              *)

\* await websocket.accept()
Accept(s) ==
  /\ up /\ sock[s] = "connecting" /\ endpoint[s] = "none" /\ s \notin cut
  /\ endpoint' = [endpoint EXCEPT ![s] = "accepted"]
  /\ UNCHANGED <<mainVars, toMain, toWindow, windowVars, up, tableVars, lost, cut, upsets>>

\* add_connection: the entry and the task of an earlier connection are
\* overwritten; the task runs on.
AddConnection(s) ==
  /\ endpoint[s] = "accepted"
  /\ endpoint' = [endpoint EXCEPT ![s] = "serving"]
  /\ active' = s
  /\ keeper' = s
  /\ pinging' = pinging \cup {s}
  /\ UNCHANGED <<mainVars, toMain, toWindow, windowVars, up, lost, cut, upsets>>

\* remove_connection, when the tasks in `gone` end as well.
RemoveConnection(gone) ==
  /\ active' = None
  /\ keeper' = None
  /\ pinging' = pinging \ (gone \cup {keeper})

\* The protocol learns that a connection is gone.
Notice(s) ==
  /\ endpoint[s] \in {"accepted", "serving"} /\ s \notin lost
  /\ s \in cut \/ sock[s] \notin {"connecting", "open"}
  /\ lost' = lost \cup {s}
  /\ UNCHANGED <<mainVars, toMain, toWindow, windowVars, up, endpoint, tableVars, cut, upsets>>

\* Mutant: no finally block.
EndsQuietly(s) ==
  /\ endpoint[s] = "serving" /\ s \in lost
  /\ endpoint' = [endpoint EXCEPT ![s] = "over"]
  /\ UNCHANGED <<mainVars, toMain, toWindow, windowVars, up, tableVars, lost, cut, upsets>>

\* receive_text raises, and the finally block removes the application's
\* entry, whosever it is.
EndpointEnds(s) ==
  /\ endpoint[s] = "serving" /\ s \in lost
  /\ endpoint' = [endpoint EXCEPT ![s] = "over"]
  /\ RemoveConnection({})
  /\ UNCHANGED <<mainVars, toMain, toWindow, windowVars, up, lost, cut, upsets>>

\* keep_alive cannot send its ping: it removes the entry, whosever it is, and ends.
PingFails(s) ==
  /\ s \in pinging /\ s \in lost
  /\ RemoveConnection({s})
  /\ UNCHANGED <<mainVars, toMain, toWindow, windowVars, up, endpoint, lost, cut, upsets>>

\* send_message, to a connection that was listed when it was called, cannot
\* send: it removes the entry, whosever it is by now.
SendFails(s) ==
  /\ s \in lost /\ (endpoint[s] = "serving" \/ s \in pinging)
  /\ RemoveConnection({})
  /\ UNCHANGED <<mainVars, toMain, toWindow, windowVars, up, endpoint, lost, cut, upsets>>

ServerStarts ==
  /\ ~up
  /\ up' = TRUE
  /\ UNCHANGED <<mainVars, toMain, toWindow, windowVars, endpoint, tableVars, lost, cut, upsets>>

ServerStops ==
  /\ up /\ upsets < MaxUpsets
  /\ upsets' = upsets + 1
  /\ up' = FALSE
  /\ cut' = cut \cup Live
  /\ endpoint' = [s \in Socket |-> IF endpoint[s] \in {"accepted", "serving"} THEN "over"
                                                                          ELSE endpoint[s]]
  /\ active' = None
  /\ keeper' = None
  /\ pinging' = {}
  /\ UNCHANGED <<mainVars, toMain, toWindow, windowVars, lost>>

\* The network drops a connection; each end notices when it does.
LinkBreaks(s) ==
  /\ upsets < MaxUpsets /\ s \in Live /\ s \notin cut
  /\ upsets' = upsets + 1
  /\ cut' = cut \cup {s}
  /\ UNCHANGED <<mainVars, toMain, toWindow, windowVars, serverVars>>

-----------------------------------------------------------------------------
SocketEvent(s) == Open(s) \/ Refused(s) \/ Closed(s)

ServerStep(s) ==
  Accept(s) \/ AddConnection(s) \/ Notice(s) \/ EndpointEnds(s) \/ PingFails(s)

Next ==
  \/ Connect \/ Disconnect
  \/ Fire \/ \E l \in Loop : Wake(l)
  \/ \E s \in Socket : SocketEvent(s) \/ ServerCloses(s) \/ Errs(s) \/ TimesOut(s) \/ ServerStep(s) \/ SendFails(s)
                     \/ LinkBreaks(s)
  \/ Opened \/ ClosedSeen \/ TimerFires
  \/ \E a \in BOOLEAN : StartOver(a)
  \/ ServiceStarted
  \/ ServerStarts \/ ServerStops

Spec == Init /\ [][Next]_vars

(* Fairness: timers fire, both processes handle their messages, every      *)
(* connection attempt is answered or refused, and both ends of a closed    *)
(* connection come to know.  Nothing makes the server start, a link break  *)
(* or anybody log in.                                                      *)
Fairness ==
  /\ WF_vars(Connect \/ Disconnect)
  /\ WF_vars(Fire)
  /\ WF_vars(\E l \in Loop : Wake(l))
  /\ WF_vars(\E s \in Socket : SocketEvent(s))
  /\ WF_vars(\E s \in Socket : ServerStep(s))
  /\ WF_vars(Opened \/ ClosedSeen)
  /\ WF_vars(TimerFires)

FairSpec == Spec /\ Fairness

-----------------------------------------------------------------------------
(* Properties                                                              *)

TypeOK ==
  /\ sock \in [Socket -> {"none", "connecting", "open", "closing", "closed", "mute"}]
  /\ wsInstance \in Socket \cup {None}
  /\ isConnecting \in BOOLEAN
  /\ promise \in Socket \cup {None}
  /\ debounce \in BOOLEAN
  /\ loop \in [Loop -> [at : {"idle", "await", "wait"}, on : Socket \cup {None},
                        n : 1..Attempts]]
  /\ silent \in BOOLEAN
  /\ toMain \in Seq({"connect", "disconnect"})
  /\ toWindow \in Seq({"connected", "closed"})
  /\ auth \in BOOLEAN
  /\ retryCount \in 0..(MaxRetries + 1)
  /\ timer \in BOOLEAN
  /\ up \in BOOLEAN
  /\ endpoint \in [Socket -> {"none", "accepted", "serving", "over"}]
  /\ active \in Socket \cup {None}
  /\ keeper \in Socket \cup {None}
  /\ pinging \subseteq Socket
  /\ lost \subseteq Socket
  /\ cut \subseteq Socket
  /\ upsets \in 0..MaxUpsets

\* The connection the server lists for the application is one whose endpoint
\* still runs and which is being pinged, although every endpoint and every
\* keep-alive task that ends removes the entry by the application's name.
ListedIsAlive ==
  active # None => /\ endpoint[active] = "serving"
                   /\ keeper = active /\ active \in pinging

\* Nobody waits for a promise that nothing will settle: whoever awaits one,
\* or is given one because isConnecting is set, awaits a socket that is still
\* connecting, although every socket's cleanup() and disconnect-ws reset what
\* all sockets share.
AwaitedWillSettle ==
  /\ isConnecting => promise # None /\ sock[promise] = "connecting"
  /\ \A l \in Loop : loop[l].at = "await" => sock[loop[l].on] = "connecting"

\* A window that is logged in and has not told its user that it has given up
\* has a socket, or something on its way will ask for one, unless the last
\* attempt of a call timed out, which the window never learns.
SomebodyTries ==
  auth /\ ~GaveUp /\ ~silent /\ Live = {} =>
    \/ \E i \in DOMAIN toMain : toMain[i] = "connect"
    \/ \E i \in DOMAIN toWindow : toWindow[i] = "closed"
    \/ debounce \/ timer
    \/ \E l \in Loop : loop[l].at = "wait"

\* When the server stays up and the window logged in, the application ends up
\* connected for good, or says that it has given up, unless the last attempt
\* of a call timed out.
Reconnects ==
  <>[](up /\ auth) => <>[](GaveUp \/ silent \/ \E s \in Socket : sock[s] = "open")
=============================================================================
