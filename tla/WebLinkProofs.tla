---------------------------- MODULE WebLinkProofs ----------------------------
(***************************************************************************)
(* Proofs about WebLink, for any number of threads and connections: a lost *)
(* connection is never forgotten, by whichever thread it is noticed.       *)
(***************************************************************************)
EXTENDS WebLink, TLAPS

\* Until the first connect_to_web() runs there is nothing else.
NothingBeforeStart ==
  starting => /\ \A c \in Connections : conn[c] = "none"
              /\ \A t \in Threads : sender[t] = "idle"
              /\ timers = 0 /\ cleanups = 0
              /\ ~webserver_connected /\ ~client_connecting

\* No timer runs during a handshake, because on_client_open() will put the flag down.
NoTimerInHandshake == Current = "connecting" => timers = 0

\* The inductive invariant: that no timer runs during a handshake is what keeps OneTimer
\* when the handshake succeeds.
Link ==
  /\ LinkTypeOK
  /\ OneSession
  /\ FlagsHaveConnection
  /\ OneTimer
  /\ NeverStranded
  /\ NothingBeforeStart
  /\ NoTimerInHandshake

LEMMA LinkInitially == LinkInit => Link
<1> SUFFICES ASSUME LinkInit PROVE Link
  OBVIOUS
<1>1. Current = "none"
  BY ConnectionsAssumption DEF LinkInit, Current
<1> QED
  BY <1>1 DEF LinkInit, Link, LinkTypeOK, ConnectionState, OneSession, FlagsHaveConnection,
     OneTimer, NeverStranded, NothingBeforeStart, NoTimerInHandshake

\* Only the current connection is closed, and a closed one is not opened again.
CurrentCloses ==
  /\ conn' \in [Connections -> ConnectionState]
  /\ \A c \in Connections : c # hdl_webserver => conn'[c] = conn[c]
  /\ Current' \in CASE Current = "open"       -> {"closing", "dropped"}
                    [] Current = "closing"    -> {"dropped"}
                    [] Current = "connecting" -> {"failed"}
                    [] OTHER                  -> {Current}

LEMMA Closing ==
  ASSUME LinkTypeOK, close_web_connection, hdl_webserver' = hdl_webserver
  PROVE  CurrentCloses
<1> USE ConnectionsAssumption DEF LinkTypeOK, ConnectionState, CurrentCloses
<1>1. CASE ~Closable
  BY <1>1 DEF close_web_connection, Closable, Current
<1>2. CASE Closable
  <2>1. hdl_webserver \in Connections /\ Current = conn[hdl_webserver]
    BY <1>2 DEF Closable, Current
  <2>2. Current' = conn'[hdl_webserver]
    BY <2>1 DEF Current
  <2>3. CASE Current = "open"
    BY <1>2, <2>1, <2>2, <2>3 DEF close_web_connection
  <2>4. CASE Current = "closing"
    BY <1>2, <2>1, <2>2, <2>4 DEF close_web_connection
  <2>5. CASE Current = "connecting"
    BY <1>2, <2>1, <2>2, <2>5 DEF close_web_connection
  <2> QED
    BY <1>2, <2>3, <2>4, <2>5 DEF Closable
<1> QED
  BY <1>1, <1>2

\* A new connection is made only when the last one is closed, so it is alone.
LEMMA Connecting ==
  ASSUME LinkTypeOK, OneSession, ~Closable, NewConnection
  PROVE  /\ conn' \in [Connections -> ConnectionState]
         /\ hdl_webserver' \in Connections
         /\ Current' = "connecting"
         /\ OneSession'
<1> USE ConnectionsAssumption DEF LinkTypeOK, ConnectionState
<1>1. PICK c \in Connections \ {hdl_webserver} :
        /\ conn[c] = "none"
        /\ conn' = [conn EXCEPT ![c] = "connecting"]
        /\ hdl_webserver' = c
  BY DEF NewConnection
<1>2. \A d \in Connections : conn[d] \notin {"connecting", "open", "closing"}
  BY DEF OneSession, Closable, Current
<1>3. \A d \in Connections : d # c => conn'[d] = conn[d]
  BY <1>1
<1>4. conn'[c] = "connecting"
  BY <1>1
<1>5. OneSession'
  BY <1>1, <1>2, <1>3 DEF OneSession
<1> QED
  BY <1>1, <1>4, <1>5 DEF Current

\* connect_to_web(), whether it connects or only closes, leaves the link in order.
LEMMA Reconnecting ==
  ASSUME Link, ~webserver_connected, ~client_connecting, UNCHANGED webserver_connected,
         connect_to_web(FALSE, 0), ~starting', cleanups' \in Nat, late' \in Nat,
         starting' \in BOOLEAN, sender' \in [Threads -> {"idle", "waiting", "marking"}]
  PROVE  Link'
<1>1. LinkTypeOK /\ OneSession
  BY DEF Link
<1>2. CASE Closable
  <2>1. close_web_connection /\ UNCHANGED <<hdl_webserver, client_connecting>>
    BY <1>2 DEF connect_to_web
  <2>2. reconnect_scheduled' = TRUE /\ timers' = 1
    BY <1>2 DEF connect_to_web, schedule_reconnect
  <2>3. CurrentCloses
    BY <1>1, <2>1, Closing
  <2>4. Current' \in {"closing", "dropped", "failed"}
    BY <1>2, <2>3 DEF CurrentCloses, Closable
  <2>5. LinkTypeOK'
    BY <1>1, <2>1, <2>2, <2>3 DEF CurrentCloses, LinkTypeOK
  <2>6. OneSession'
    BY <1>1, <2>1, <2>3 DEF CurrentCloses, OneSession
  <2> QED
    BY <2>1, <2>2, <2>4, <2>5, <2>6
       DEF Link, FlagsHaveConnection, OneTimer, NeverStranded, NothingBeforeStart,
           NoTimerInHandshake
<1>3. CASE ~Closable
  <2>1. NewConnection /\ client_connecting' /\ ~reconnect_scheduled' /\ timers' = 0
    BY <1>3 DEF connect_to_web
  <2>2. /\ conn' \in [Connections -> ConnectionState] /\ hdl_webserver' \in Connections
        /\ Current' = "connecting" /\ OneSession'
    BY <1>1, <1>3, <2>1, Connecting
  <2>3. client_connecting' = TRUE /\ reconnect_scheduled' = FALSE
    BY <1>3 DEF connect_to_web
  <2>4. LinkTypeOK'
    BY <1>1, <2>1, <2>2, <2>3 DEF LinkTypeOK
  <2> QED
    BY <2>1, <2>4, <2>2, <2>3
       DEF Link, FlagsHaveConnection, OneTimer, NeverStranded, NothingBeforeStart,
           NoTimerInHandshake
<1> QED
  BY <1>2, <1>3

\* send_to_web_now() marks the link disconnected only if its loss has to be handled.
LEMMA Sending ==
  ASSUME Link, send_to_web_now, late' \in Nat,
         sender' \in [Threads -> {"idle", "waiting", "marking"}],
         \A t \in Threads : sender[t] # "waiting" => sender'[t] = sender[t]
  PROVE  Link'
<1>1. LinkTypeOK /\ OneSession /\ FlagsHaveConnection /\ OneTimer /\ NothingBeforeStart
  BY DEF Link
<1>2. CASE webserver_connected /\ Current # "open"
  <2>1. close_web_connection /\ mark_web_disconnected /\ UNCHANGED <<hdl_webserver, starting, cleanups>>
    BY <1>2 DEF send_to_web_now
  <2>2. Current \in {"closing", "dropped"}
    BY <1>1, <1>2 DEF FlagsHaveConnection
  <2>3. CurrentCloses
    BY <1>1, <2>1, Closing
  <2>4. Current' = "dropped"
    BY <2>2, <2>3 DEF CurrentCloses
  <2>5. /\ timers' = 1 /\ reconnect_scheduled' = TRUE
        /\ webserver_connected' = FALSE /\ client_connecting' = FALSE
    BY <1>1, <2>1 DEF mark_web_disconnected, schedule_reconnect, OneTimer, LinkTypeOK
  <2>6. LinkTypeOK'
    BY <1>1, <2>1, <2>5, <2>3 DEF CurrentCloses, LinkTypeOK
  <2>7. OneSession'
    BY <1>1, <2>1, <2>3 DEF CurrentCloses, OneSession
  <2>8. ~starting'
    BY <1>1, <1>2, <2>1 DEF NothingBeforeStart
  <2> QED
    BY <2>4, <2>5, <2>6, <2>7, <2>8
       DEF Link, FlagsHaveConnection, OneTimer, NeverStranded, NothingBeforeStart,
           NoTimerInHandshake
<1>3. CASE ~(webserver_connected /\ Current # "open")
  <2>1. UNCHANGED <<conn, hdl_webserver, webserver_connected, client_connecting,
                    reconnect_scheduled, timers, starting, cleanups>>
    BY <1>3 DEF send_to_web_now
  <2>2. Current' = Current
    BY <2>1 DEF Current
  <2>3. LinkTypeOK' /\ OneSession' /\ FlagsHaveConnection' /\ OneTimer'
    BY <1>1, <2>1, <2>2 DEF LinkTypeOK, OneSession, FlagsHaveConnection, OneTimer
  <2>4. NothingBeforeStart' /\ NoTimerInHandshake'
    BY <1>1, <2>1, <2>2 DEF Link, NothingBeforeStart, NoTimerInHandshake
  <2>5. NeverStranded'
    BY <2>1, <2>2 DEF Link, NeverStranded
  <2> QED
    BY <2>3, <2>4, <2>5 DEF Link
<1> QED
  BY <1>2, <1>3

LEMMA LinkStep == Link /\ [LinkNext]_link_vars => Link'
<1> SUFFICES ASSUME Link, [LinkNext]_link_vars PROVE Link'
  OBVIOUS
<1> USE DEF Link
<1>1. CASE Starts
  <2>1. ~webserver_connected /\ ~client_connecting /\ timers = 0
    BY <1>1 DEF Starts, NothingBeforeStart
  <2>2. reconnect_scheduled = FALSE
    BY <2>1 DEF OneTimer, LinkTypeOK
  <2>3. connect_to_web(FALSE, 0) /\ ~starting' /\ UNCHANGED <<webserver_connected, cleanups, late, sender>>
    BY <1>1, <2>1, <2>2 DEF Starts
  <2>4. /\ cleanups' \in Nat /\ late' \in Nat /\ starting' \in BOOLEAN
        /\ sender' \in [Threads -> {"idle", "waiting", "marking"}]
    BY <1>1 DEF Starts, LinkTypeOK
  <2> QED
    BY <2>1, <2>3, <2>4, Reconnecting
<1>2. CASE LateSendRuns
  <2>1. /\ send_to_web_now /\ late' \in Nat /\ UNCHANGED sender
        /\ sender' \in [Threads -> {"idle", "waiting", "marking"}]
    BY <1>2 DEF LateSendRuns, LinkTypeOK
  <2> QED
    BY <2>1, Sending
<1>3. CASE CleanupRuns
  <2>1. /\ close_web_connection
        /\ UNCHANGED <<hdl_webserver, webserver_connected, client_connecting, starting, late, sender>>
    BY <1>3 DEF CleanupRuns
  <2>2. timers' = IF reconnect_scheduled' THEN 1 ELSE 0
    BY <1>3 DEF CleanupRuns, schedule_reconnect, OneTimer
  <2>3. CurrentCloses
    BY <2>1, Closing
  <2>4. Current' # "connecting"
    BY <2>3 DEF CurrentCloses
  <2>5. reconnect_scheduled' \in BOOLEAN
    BY <1>3 DEF CleanupRuns, schedule_reconnect, LinkTypeOK
  <2>6. cleanups' \in Nat /\ timers' \in Nat
    BY <1>3, <2>2 DEF CleanupRuns, LinkTypeOK
  <2>7. LinkTypeOK'
    BY <2>1, <2>3, <2>5, <2>6 DEF CurrentCloses, LinkTypeOK
  <2>8. OneSession'
    BY <2>1, <2>3 DEF CurrentCloses, OneSession
  <2>9. FlagsHaveConnection'
    BY <2>1, <2>3 DEF CurrentCloses, FlagsHaveConnection
  <2>10. NeverStranded'
    <3>1. CASE ~webserver_connected /\ ~client_connecting
      BY <1>3, <2>2, <3>1 DEF CleanupRuns, schedule_reconnect, NeverStranded
    <3>2. CASE client_connecting
      BY <2>3, <3>2 DEF CurrentCloses, FlagsHaveConnection, NeverStranded
    <3>3. CASE webserver_connected
      BY <2>1, <3>3 DEF NeverStranded
    <3> QED
      BY <3>1, <3>2, <3>3
  <2>11. NothingBeforeStart'
    <3>1. CASE ~starting
      BY <2>1, <3>1 DEF NothingBeforeStart
    <3>2. CASE starting
      <4>1. cleanups = 0
        BY <3>2 DEF NothingBeforeStart
      <4> QED
        BY <1>3, <4>1 DEF CleanupRuns
    <3> QED
      BY <3>1, <3>2
  <2> QED
    BY <2>2, <2>4, <2>7, <2>8, <2>9, <2>10, <2>11 DEF Link, OneTimer, NoTimerInHandshake
<1>4. CASE ReconnectTimerFires
  <2>1. timers = 1 /\ ~starting
    BY <1>4 DEF ReconnectTimerFires, OneTimer, NothingBeforeStart, LinkTypeOK
  <2>2. CASE webserver_connected \/ client_connecting
    <3>1. /\ UNCHANGED <<conn, hdl_webserver, client_connecting, webserver_connected, posted, sender>>
          /\ reconnect_scheduled' = FALSE /\ timers' = 0
      <4>1. timers - 1 = 0
        BY <2>1
      <4>2. /\ UNCHANGED <<conn, hdl_webserver, client_connecting>>
            /\ UNCHANGED <<webserver_connected, posted, sender>>
            /\ reconnect_scheduled' = FALSE /\ timers' = timers - 1
        BY <1>4, <2>2 DEF ReconnectTimerFires
      <4> QED
        BY <4>1, <4>2
    <3>2. Current' = Current
      BY <3>1 DEF Current
    <3> QED
      BY <2>1, <2>2, <3>1, <3>2
         DEF LinkTypeOK, OneSession, FlagsHaveConnection, OneTimer, NeverStranded,
             NothingBeforeStart, NoTimerInHandshake, posted
  <2>3. CASE ~(webserver_connected \/ client_connecting)
    <3>1. timers - 1 = 0
      BY <2>1
    <3>2. /\ connect_to_web(FALSE, 0)
          /\ UNCHANGED <<webserver_connected, posted, sender>>
      BY <1>4, <2>3, <3>1 DEF ReconnectTimerFires
    <3>3. /\ cleanups' \in Nat /\ late' \in Nat /\ starting' \in BOOLEAN /\ ~starting'
          /\ sender' \in [Threads -> {"idle", "waiting", "marking"}]
      BY <2>1, <3>2 DEF posted, LinkTypeOK
    <3> QED
      BY <2>3, <3>2, <3>3, Reconnecting
  <2> QED
    BY <2>2, <2>3
<1>5. ASSUME NEW c \in Connections, ClientOpens(c) PROVE Link'
  <2>1. c = hdl_webserver /\ hdl_webserver' = c /\ Current = "connecting"
    BY <1>5, ConnectionsAssumption DEF ClientOpens, Current
  <2>2. Current' = "open"
    BY <1>5, <2>1, ConnectionsAssumption DEF ClientOpens, Current, LinkTypeOK
  <2>3. timers = 0
    BY <2>1 DEF NoTimerInHandshake
  <2>4. ~starting
    BY <1>5 DEF ClientOpens, NothingBeforeStart
  <2>5. LinkTypeOK'
    BY <1>5 DEF ClientOpens, LinkTypeOK, ConnectionState, posted
  <2>6. OneSession'
    BY <1>5, <2>1 DEF ClientOpens, OneSession, LinkTypeOK
  <2> QED
    BY <1>5, <2>1, <2>2, <2>3, <2>4, <2>5, <2>6
       DEF ClientOpens, FlagsHaveConnection, OneTimer, NeverStranded, NothingBeforeStart,
           NoTimerInHandshake, posted
<1>6. ASSUME NEW c \in Connections, ConnectionLost(c) PROVE Link'
  <2>1. UNCHANGED <<hdl_webserver, webserver_connected, client_connecting,
                    reconnect_scheduled, timers, posted, sender>>
    BY <1>6 DEF ConnectionLost
  <2>2. /\ conn[c] \in {"connecting", "open", "closing"}
        /\ conn' = [conn EXCEPT ![c] = IF conn[c] = "connecting" THEN "failed" ELSE "dropped"]
    BY <1>6 DEF ConnectionLost
  <2>3. c = hdl_webserver /\ Current = conn[c]
    BY <2>2, ConnectionsAssumption DEF OneSession, Current
  <2>4. Current' = IF Current = "connecting" THEN "failed" ELSE "dropped"
    BY <2>1, <2>2, <2>3, ConnectionsAssumption DEF Current, LinkTypeOK
  <2>5. LinkTypeOK' /\ OneSession'
    BY <2>1, <2>2 DEF LinkTypeOK, OneSession, ConnectionState, posted
  <2>6. ~starting
    BY <2>2 DEF NothingBeforeStart
  <2> QED
    BY <2>1, <2>2, <2>3, <2>4, <2>5, <2>6
       DEF FlagsHaveConnection, OneTimer, NeverStranded, NothingBeforeStart,
           NoTimerInHandshake, posted
<1>7. ASSUME NEW c \in Connections, ConnectionLostHandled(c) PROVE Link'
  <2>1. /\ conn[c] \in {"failed", "dropped"} /\ conn' = [conn EXCEPT ![c] = "none"]
        /\ UNCHANGED <<hdl_webserver, posted, sender>>
    BY <1>7 DEF ConnectionLostHandled
  <2>2. ~starting'
    BY <2>1 DEF NothingBeforeStart, posted
  <2>3. OneSession'
    BY <2>1 DEF OneSession, LinkTypeOK
  <2>4. CASE c = hdl_webserver
    <3>1. /\ timers' = 1 /\ reconnect_scheduled' = TRUE
          /\ webserver_connected' = FALSE /\ client_connecting' = FALSE
      <4>1. mark_web_disconnected
        BY <1>7, <2>4 DEF ConnectionLostHandled
      <4> QED
        BY <4>1 DEF mark_web_disconnected, schedule_reconnect, OneTimer, LinkTypeOK
    <3>2. Current' = "none"
      BY <2>1, <2>4, ConnectionsAssumption DEF Current, LinkTypeOK
    <3>3. LinkTypeOK'
      BY <1>7, <2>1, <2>4, <3>1 DEF LinkTypeOK, ConnectionState, posted,
         ConnectionLostHandled, mark_web_disconnected
    <3> QED
      BY <2>2, <2>3, <3>1, <3>2, <3>3
         DEF FlagsHaveConnection, OneTimer, NeverStranded, NothingBeforeStart, NoTimerInHandshake
  <2>5. CASE c # hdl_webserver
    <3>1. UNCHANGED <<webserver_connected, client_connecting, reconnect_scheduled, timers>>
      BY <1>7, <2>5 DEF ConnectionLostHandled
    <3>2. Current' = Current
      BY <2>1, <2>5 DEF Current, LinkTypeOK
    <3>3. LinkTypeOK'
      BY <2>1, <3>1 DEF LinkTypeOK, ConnectionState, posted
    <3> QED
      BY <2>1, <2>2, <2>3, <3>1, <3>2, <3>3
         DEF FlagsHaveConnection, OneTimer, NeverStranded, NothingBeforeStart,
             NoTimerInHandshake, posted
  <2> QED
    BY <2>4, <2>5
<1>8. ASSUME NEW t \in Threads, SendPosted(t) PROVE Link'
  <2>1. UNCHANGED <<conn, hdl_webserver, webserver_connected, client_connecting,
                    reconnect_scheduled, timers, posted>>
    BY <1>8 DEF SendPosted
  <2>2. Current' = Current
    BY <2>1 DEF Current
  <2>3. LinkTypeOK' /\ webserver_connected'
    BY <1>8, <2>1 DEF SendPosted, LinkTypeOK, posted
  <2> QED
    BY <2>1, <2>2, <2>3
       DEF OneSession, FlagsHaveConnection, OneTimer, NeverStranded, NothingBeforeStart,
           NoTimerInHandshake, posted
<1>9. ASSUME NEW t \in Threads, SendRuns(t) PROVE Link'
  <2>1. /\ send_to_web_now /\ late' \in Nat
        /\ sender' \in [Threads -> {"idle", "waiting", "marking"}]
        /\ \A u \in Threads : sender[u] # "waiting" => sender'[u] = sender[u]
    BY <1>9 DEF SendRuns, LinkTypeOK
  <2> QED
    BY <2>1, Sending
<1>10. ASSUME NEW t \in Threads, SendTimesOut(t) PROVE Link'
  <2>1. UNCHANGED <<conn, hdl_webserver, client_connecting, reconnect_scheduled, timers,
                    starting, cleanups>>
    BY <1>10 DEF SendTimesOut
  <2>2. Current' = Current
    BY <2>1 DEF Current
  <2>3. /\ webserver_connected' = FALSE /\ late' = late + 1
        /\ sender' = [sender EXCEPT ![t] = "marking"]
    BY <1>10 DEF SendTimesOut
  <2>4. sender' \in [Threads -> {"idle", "waiting", "marking"}] /\ sender'[t] = "marking"
    BY <2>3 DEF LinkTypeOK
  <2>5. late' \in Nat
    BY <2>3 DEF LinkTypeOK
  <2>6. LinkTypeOK'
    BY <2>3, <2>1, <2>4, <2>5 DEF LinkTypeOK
  <2>7. ~starting
    BY <1>10 DEF SendTimesOut, NothingBeforeStart
  <2> QED
    BY <2>3, <2>1, <2>2, <2>4, <2>7, <2>6
       DEF OneSession, FlagsHaveConnection, OneTimer, NeverStranded, NothingBeforeStart,
           NoTimerInHandshake
<1>11. ASSUME NEW t \in Threads, MarkedDisconnected(t) PROVE Link'
  <2>1. /\ UNCHANGED <<conn, hdl_webserver, webserver_connected, reconnect_scheduled, timers,
                       starting, late>>
        /\ ~client_connecting'
    BY <1>11 DEF MarkedDisconnected
  <2>2. Current' = Current
    BY <2>1 DEF Current
  <2>3. cleanups' = cleanups + 1 /\ client_connecting' = FALSE
        /\ sender' = [sender EXCEPT ![t] = "idle"]
    BY <1>11 DEF MarkedDisconnected
  <2>4. sender' \in [Threads -> {"idle", "waiting", "marking"}]
    BY <2>3 DEF LinkTypeOK
  <2>5. cleanups' \in Nat /\ cleanups' > 0
    BY <2>3 DEF LinkTypeOK
  <2>6. LinkTypeOK' /\ cleanups' > 0
    BY <2>3, <2>1, <2>4, <2>5 DEF LinkTypeOK
  <2>7. ~starting
    BY <1>11 DEF MarkedDisconnected, NothingBeforeStart
  <2> QED
    BY <2>1, <2>2, <2>6, <2>7
       DEF OneSession, FlagsHaveConnection, OneTimer, NeverStranded, NothingBeforeStart,
           NoTimerInHandshake
<1>12. CASE UNCHANGED link_vars
  BY <1>12 DEF link_vars, posted, LinkTypeOK, OneSession, FlagsHaveConnection, OneTimer,
               NeverStranded, NothingBeforeStart, NoTimerInHandshake, Current
<1> QED
  BY <1>1, <1>2, <1>3, <1>4, <1>5, <1>6, <1>7, <1>8, <1>9, <1>10, <1>11, <1>12
     DEF LinkNext, PostedStep, ConnectionStep

\* The inductive invariant holds in every reachable state.
THEOREM LinkAlways == LinkSpec => []Link
BY LinkInitially, LinkStep, PTL DEF LinkSpec

\* on_client_open() and close_web_connection(): however sends that timed out, losses and
\* reconnections overtake each other, only the connection of hdl_webserver is alive.
THEOREM OnlyOneSession == LinkSpec => []OneSession
<1>1. Link => OneSession
  BY DEF Link
<1> QED
  BY <1>1, LinkAlways, PTL

\* mark_web_disconnected(): a flag is only up while an event is to come that takes it
\* down.
THEOREM FlagsComeDown == LinkSpec => []FlagsHaveConnection
<1>1. Link => FlagsHaveConnection
  BY DEF Link
<1> QED
  BY <1>1, LinkAlways, PTL

\* schedule_reconnect(): the flag tells whether the one reconnect timer runs.
THEOREM FlagTellsTimer == LinkSpec => []OneTimer
<1>1. Link => OneTimer
  BY DEF Link
<1> QED
  BY <1>1, LinkAlways, PTL

\* schedule_reconnect(): an offline robot always has something left that will connect it.
THEOREM RobotNeverStranded == LinkSpec => []NeverStranded
<1>1. Link => NeverStranded
  BY DEF Link
<1> QED
  BY <1>1, LinkAlways, PTL
=============================================================================
