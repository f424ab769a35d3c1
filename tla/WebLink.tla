------------------------------- MODULE WebLink -------------------------------
(***************************************************************************)
(* The gateway's connection to the Web server, src/gateway/gateway.cc: one *)
(* WebSocket, opened again whenever it is lost.                            *)
(*                                                                         *)
(* One thread, the client thread, runs every handler, every timer and      *)
(* everything that is posted to it, one at a time: those are the actions.  *)
(* The other threads post a send, wait for two seconds, and then call      *)
(* mark_web_disconnected() themselves, which writes two atomics one after  *)
(* the other and posts the rest.                                           *)
(*                                                                         *)
(* Left out: how long a timer waits, with the counters that decide it; the *)
(* shutdown, the network diagnosis and the state that is displayed; a      *)
(* limit on the attempts, off by default; a URL that cannot be parsed; and *)
(* pings, which are sent on the heartbeat's connection and not on this.    *)
(***************************************************************************)
EXTENDS Naturals

CONSTANTS
  Connections,  \* the connections there may be at a time
  Threads,      \* the threads that send, except the client thread
  MaxPosted     \* bound: no send times out while so much is left posted

NoConnection == "none"

ASSUME ConnectionsAssumption == NoConnection \notin Connections
ASSUME PostedAssumption == MaxPosted \in Nat

VARIABLES
  conn,                 \* what websocketpp knows of each connection
  hdl_webserver,        \* hdl_webserver
  webserver_connected,  \* webserver_connected, an atomic
  client_connecting,    \* client_connecting_, an atomic
  reconnect_scheduled,  \* reconnect_scheduled_
  timers,               \* how many reconnect timers run
  starting,             \* the connect_to_web() of start_client() is still posted
  cleanups,             \* how many clean-ups of mark_web_disconnected() are posted
  late,                 \* how many sends are posted for which nobody waits
  sender                \* the other threads

posted == <<starting, cleanups, late>>
link_vars == <<conn, hdl_webserver, webserver_connected, client_connecting,
               reconnect_scheduled, timers, posted, sender>>

\* A failed or dropped connection is closed and its handler has yet to run.
ConnectionState == {"none", "connecting", "open", "closing", "failed", "dropped"}

LinkTypeOK ==
  /\ conn \in [Connections -> ConnectionState]
  /\ hdl_webserver \in Connections \cup {NoConnection}
  /\ webserver_connected \in BOOLEAN /\ client_connecting \in BOOLEAN
  /\ reconnect_scheduled \in BOOLEAN /\ starting \in BOOLEAN
  /\ timers \in Nat /\ cleanups \in Nat /\ late \in Nat
  /\ sender \in [Threads -> {"idle", "waiting", "marking"}]

LinkInit ==
  /\ conn = [c \in Connections |-> "none"]
  /\ hdl_webserver = NoConnection
  /\ webserver_connected = FALSE
  /\ client_connecting = FALSE
  /\ reconnect_scheduled = FALSE
  /\ timers = 0
  /\ starting = TRUE
  /\ cleanups = 0
  /\ late = 0
  /\ sender = [t \in Threads |-> "idle"]

-----------------------------------------------------------------------------
\* What the handlers call.

Current == IF hdl_webserver = NoConnection THEN "none" ELSE conn[hdl_webserver]

Closable == Current \in {"connecting", "open", "closing"}

\* close_web_connection(): an open connection says goodbye, or is terminated if that
\* fails; a terminated handshake is answered by the fail handler, the others by the
\* close handler.
close_web_connection ==
  IF ~Closable THEN UNCHANGED conn
  ELSE \E next \in CASE Current = "open"       -> {"closing", "dropped"}
                     [] Current = "closing"    -> {"dropped"}
                     [] Current = "connecting" -> {"failed"} :
         conn' = [conn EXCEPT ![hdl_webserver] = next]

\* Mutant: the flag is not asked, every loss arms a timer of its own.
schedule_reconnect_always(offline, scheduled, n) ==
  IF offline
  THEN reconnect_scheduled' = TRUE /\ timers' = n + 1
  ELSE reconnect_scheduled' = scheduled /\ timers' = n

\* schedule_reconnect() when n timers run: one is enough.
schedule_reconnect(offline, scheduled, n) ==
  IF offline /\ ~scheduled
  THEN reconnect_scheduled' = TRUE /\ timers' = n + 1
  ELSE reconnect_scheduled' = scheduled /\ timers' = n

\* Mutant: client_connecting_ is left to the handlers.
mark_web_disconnected_partly ==
  /\ webserver_connected' = FALSE
  /\ UNCHANGED client_connecting
  /\ schedule_reconnect(~client_connecting, reconnect_scheduled, timers)

\* mark_web_disconnected() on the client thread, but for closing the connection.
mark_web_disconnected ==
  /\ webserver_connected' = FALSE
  /\ client_connecting' = FALSE
  /\ schedule_reconnect(TRUE, reconnect_scheduled, timers)

NewConnection ==
  \E c \in Connections \ {hdl_webserver} :
    /\ conn[c] = "none"
    /\ conn' = [conn EXCEPT ![c] = "connecting"]
    /\ hdl_webserver' = c

\* Mutant: the old connection is left to itself.
connect_to_web_beside(scheduled, n) ==
  /\ NewConnection
  /\ client_connecting' = TRUE
  /\ reconnect_scheduled' = scheduled
  /\ timers' = n

\* connect_to_web() when neither flag is up: if there is an old connection to close,
\* the new one is left to another timer.
connect_to_web(scheduled, n) ==
  IF Closable
  THEN /\ close_web_connection
       /\ schedule_reconnect(TRUE, scheduled, n)
       /\ UNCHANGED <<hdl_webserver, client_connecting>>
  ELSE /\ NewConnection
       /\ client_connecting' = TRUE
       /\ reconnect_scheduled' = scheduled
       /\ timers' = n

-----------------------------------------------------------------------------
\* Connecting, on the client thread.

Starts ==
  /\ starting
  /\ starting' = FALSE
  /\ connect_to_web(reconnect_scheduled, timers)
  /\ UNCHANGED <<webserver_connected, cleanups, late, sender>>

\* Mutant: the flag stays up when the timer leads to an attempt.
ReconnectTimerKeepsFlag ==
  /\ timers > 0
  /\ IF webserver_connected \/ client_connecting
     THEN /\ reconnect_scheduled' = FALSE
          /\ timers' = timers - 1
          /\ UNCHANGED <<conn, hdl_webserver, client_connecting>>
     ELSE connect_to_web(TRUE, timers - 1)
  /\ UNCHANGED <<webserver_connected, posted, sender>>

ReconnectTimerFires ==
  /\ timers > 0
  /\ IF webserver_connected \/ client_connecting
     THEN /\ reconnect_scheduled' = FALSE
          /\ timers' = timers - 1
          /\ UNCHANGED <<conn, hdl_webserver, client_connecting>>
     ELSE connect_to_web(FALSE, timers - 1)
  /\ UNCHANGED <<webserver_connected, posted, sender>>

\* on_client_open().
ClientOpens(c) ==
  /\ conn[c] = "connecting" /\ c = hdl_webserver
  /\ conn' = [conn EXCEPT ![c] = "open"]
  /\ client_connecting' = FALSE
  /\ webserver_connected' = TRUE
  /\ reconnect_scheduled' = FALSE
  /\ UNCHANGED <<hdl_webserver, timers, posted, sender>>

\* The handshake fails or takes too long; the peer closes the connection, does not
\* answer the goodbye in time, or the network goes.
ConnectionLost(c) ==
  /\ \/ conn[c] = "connecting" /\ conn' = [conn EXCEPT ![c] = "failed"]
     \/ conn[c] \in {"open", "closing"} /\ conn' = [conn EXCEPT ![c] = "dropped"]
  /\ UNCHANGED <<hdl_webserver, webserver_connected, client_connecting,
                 reconnect_scheduled, timers, posted, sender>>

\* on_client_fail() and on_client_close(); there is nothing left to close.
ConnectionLostHandled(c) ==
  /\ conn[c] \in {"failed", "dropped"}
  /\ conn' = [conn EXCEPT ![c] = "none"]
  /\ IF c = hdl_webserver THEN mark_web_disconnected
     ELSE UNCHANGED <<webserver_connected, client_connecting, reconnect_scheduled, timers>>
  /\ UNCHANGED <<hdl_webserver, posted, sender>>

-----------------------------------------------------------------------------
\* Sending.

\* sendToWeb() on another thread.
SendPosted(t) ==
  /\ sender[t] = "idle"
  /\ webserver_connected
  /\ sender' = [sender EXCEPT ![t] = "waiting"]
  /\ UNCHANGED <<conn, hdl_webserver, webserver_connected, client_connecting,
                 reconnect_scheduled, timers, posted>>

\* send_to_web_now() on the client thread: an open connection takes the message.
send_to_web_now ==
  /\ IF webserver_connected /\ Current # "open"
     THEN close_web_connection /\ mark_web_disconnected
     ELSE UNCHANGED <<conn, webserver_connected, client_connecting,
                      reconnect_scheduled, timers>>
  /\ UNCHANGED <<hdl_webserver, starting, cleanups>>

SendRuns(t) ==
  /\ sender[t] = "waiting"
  /\ send_to_web_now
  /\ sender' = [sender EXCEPT ![t] = "idle"]
  /\ UNCHANGED late

LateSendRuns ==
  /\ late > 0
  /\ send_to_web_now
  /\ late' = late - 1
  /\ UNCHANGED sender

\* Two seconds are over: mark_web_disconnected() on the thread that waited.  What it
\* posted still runs.
SendTimesOut(t) ==
  /\ sender[t] = "waiting"
  /\ cleanups + late < MaxPosted
  /\ sender' = [sender EXCEPT ![t] = "marking"]
  /\ late' = late + 1
  /\ webserver_connected' = FALSE
  /\ UNCHANGED <<conn, hdl_webserver, client_connecting, reconnect_scheduled, timers,
                 starting, cleanups>>

\* Mutant: the thread that waited schedules nothing.
MarkedOnly(t) ==
  /\ sender[t] = "marking"
  /\ sender' = [sender EXCEPT ![t] = "idle"]
  /\ client_connecting' = FALSE
  /\ UNCHANGED <<conn, hdl_webserver, webserver_connected, reconnect_scheduled, timers, posted>>

MarkedDisconnected(t) ==
  /\ sender[t] = "marking"
  /\ sender' = [sender EXCEPT ![t] = "idle"]
  /\ client_connecting' = FALSE
  /\ cleanups' = cleanups + 1
  /\ UNCHANGED <<conn, hdl_webserver, webserver_connected, reconnect_scheduled, timers,
                 starting, late>>

\* What that posted: by now the connection may be another one.
CleanupRuns ==
  /\ cleanups > 0
  /\ cleanups' = cleanups - 1
  /\ close_web_connection
  /\ schedule_reconnect(~webserver_connected /\ ~client_connecting, reconnect_scheduled, timers)
  /\ UNCHANGED <<hdl_webserver, webserver_connected, client_connecting, starting, late, sender>>

-----------------------------------------------------------------------------
ConnectionStep(c) == ClientOpens(c) \/ ConnectionLost(c) \/ ConnectionLostHandled(c)

PostedStep == Starts \/ LateSendRuns \/ CleanupRuns

LinkNext ==
  \/ PostedStep
  \/ ReconnectTimerFires
  \/ \E c \in Connections : ConnectionStep(c)
  \/ \E t \in Threads : SendPosted(t) \/ SendRuns(t) \/ SendTimesOut(t) \/ MarkedDisconnected(t)

LinkSpec == LinkInit /\ [][LinkNext]_link_vars

\* The client thread runs what is posted and every timer that is over; websocketpp
\* ends a handshake and a goodbye by a timeout of its own; a thread that marks goes on.
LinkFairness ==
  /\ WF_link_vars(Starts)
  /\ WF_link_vars(LateSendRuns)
  /\ WF_link_vars(CleanupRuns)
  /\ WF_link_vars(ReconnectTimerFires)
  /\ \A c \in Connections :
       /\ WF_link_vars(conn[c] \in {"connecting", "closing"} /\ ConnectionStep(c))
       /\ WF_link_vars(ConnectionLostHandled(c))
  /\ \A t \in Threads : WF_link_vars(SendRuns(t)) /\ WF_link_vars(MarkedDisconnected(t))

FairLinkSpec == LinkSpec /\ LinkFairness

-----------------------------------------------------------------------------
(***************************************************************************)
(* Safety.                                                                 *)
(***************************************************************************)

\* The server knows this robot by one connection and kicks the others: whatever
\* timeouts and losses overtake each other, only the connection that hdl_webserver
\* names is ever alive.
OneSession ==
  \A c \in Connections : conn[c] \in {"connecting", "open", "closing"} => c = hdl_webserver

\* The flags that other threads test and clear never say more than the connection:
\* while one of them is up, an event of this very connection is to come that takes it
\* down.  A flag that outlived its connection would keep schedule_reconnect() quiet.
FlagsHaveConnection ==
  /\ webserver_connected => Current \in {"open", "closing", "dropped"}
  /\ client_connecting => Current \in {"connecting", "failed"}

\* on_client_open() puts reconnect_scheduled_ down without cancelling a timer; yet
\* the flag tells the truth and two timers never race to reconnect.
OneTimer == timers = IF reconnect_scheduled THEN 1 ELSE 0

\* An offline robot is never stranded: something is left that leads to an attempt.
NeverStranded ==
  ~webserver_connected =>
    \/ starting \/ cleanups > 0 \/ timers > 0
    \/ \E t \in Threads : sender[t] = "marking"
    \/ Current \in {"connecting", "failed", "closing", "dropped"}

-----------------------------------------------------------------------------
(***************************************************************************)
(* Liveness, under FairLinkSpec.                                           *)
(***************************************************************************)

\* A robot that is offline is connected again or at least tries to be, for ever.
TriesAgain ==
  ~webserver_connected ~> webserver_connected \/ Current = "connecting"
=============================================================================
