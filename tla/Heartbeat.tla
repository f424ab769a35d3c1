----------------------------- MODULE Heartbeat -----------------------------
(***************************************************************************)
(* The heartbeat of the gateway, gateway.cc: a second connection, on which *)
(* a chain of timers sends a message and a Ping each.  All of it runs on   *)
(* the client thread.                                                      *)
(*                                                                         *)
(* Each opening of the heartbeat's connection starts a chain, and so does  *)
(* each opening of the connection to the Web server; a chain ends with a   *)
(* send that fails.  Nobody closes the connection: on_pong_timeout() acts  *)
(* for the Web connection alone, which is never pinged.                    *)
(*                                                                         *)
(* Left out: stop(); a URL that cannot be parsed; timers that fail.        *)
(***************************************************************************)
EXTENDS Naturals

CONSTANTS
  MaxHeartbeatOpens,  \* bound: how often the heartbeat's connection is opened
  MaxWebOpens         \* bound: how often the Web connection is

ASSUME HeartbeatBoundsAssumption == MaxHeartbeatOpens \in Nat /\ MaxWebOpens \in Nat

VARIABLES
  heartbeat_conn,       \* what websocketpp knows of hdl_heartbeat
  heartbeat_connected,  \* heartbeat_connected
  heartbeat_timers,     \* how many timers will call connect_heartbeat()
  chains,               \* how many chains of schedule_heartbeat() there are
  opens,                \* how often each connection was opened, for the bounds
  heartbeat_failed      \* history: a connection of the heartbeat could not be made

heartbeat_vars == <<heartbeat_conn, heartbeat_connected, heartbeat_timers, chains,
                    opens, heartbeat_failed>>

HeartbeatTypeOK ==
  /\ heartbeat_conn \in {"none", "connecting", "open", "closing"}
  /\ heartbeat_connected \in BOOLEAN
  /\ heartbeat_timers \in Nat
  /\ chains \in 0 .. MaxHeartbeatOpens + MaxWebOpens
  /\ opens \in [heartbeat : 0 .. MaxHeartbeatOpens, web : 0 .. MaxWebOpens]
  /\ heartbeat_failed \in BOOLEAN

\* start_client() has posted the first connect_heartbeat().
HeartbeatInit ==
  /\ heartbeat_conn = "none"
  /\ heartbeat_connected = FALSE
  /\ heartbeat_timers = 1
  /\ chains = 0
  /\ opens = [heartbeat |-> 0, web |-> 0]
  /\ heartbeat_failed = FALSE

-----------------------------------------------------------------------------
\* connect_heartbeat(), by the first post or by the timer of a close.
ConnectHeartbeat ==
  /\ heartbeat_timers > 0
  /\ heartbeat_timers' = heartbeat_timers - 1
  /\ heartbeat_conn' = IF heartbeat_connected THEN heartbeat_conn ELSE "connecting"
  /\ UNCHANGED <<heartbeat_connected, chains, opens, heartbeat_failed>>

\* on_client_open() for the heartbeat.
HeartbeatOpens ==
  /\ heartbeat_conn = "connecting" /\ opens.heartbeat < MaxHeartbeatOpens
  /\ heartbeat_conn' = "open"
  /\ heartbeat_connected' = TRUE
  /\ chains' = chains + 1
  /\ opens' = [opens EXCEPT !.heartbeat = @ + 1]
  /\ UNCHANGED <<heartbeat_timers, heartbeat_failed>>

\* ... and for the Web connection.
WebOpens ==
  /\ opens.web < MaxWebOpens
  /\ chains' = chains + 1
  /\ opens' = [opens EXCEPT !.web = @ + 1]
  /\ UNCHANGED <<heartbeat_conn, heartbeat_connected, heartbeat_timers, heartbeat_failed>>

\* on_client_fail() takes the handle for that of an old connection.
HeartbeatFails ==
  /\ heartbeat_conn = "connecting"
  /\ heartbeat_conn' = "none"
  /\ heartbeat_failed' = TRUE
  /\ UNCHANGED <<heartbeat_connected, heartbeat_timers, chains, opens>>

\* The peer ends the connection; the close event is on its way.
HeartbeatEnds ==
  /\ heartbeat_conn = "open"
  /\ heartbeat_conn' = "closing"
  /\ UNCHANGED <<heartbeat_connected, heartbeat_timers, chains, opens, heartbeat_failed>>

\* on_client_close() for the heartbeat.
HeartbeatCloses ==
  /\ heartbeat_conn = "closing"
  /\ heartbeat_conn' = "none"
  /\ heartbeat_connected' = FALSE
  /\ heartbeat_timers' = heartbeat_timers + 1
  /\ UNCHANGED <<chains, opens, heartbeat_failed>>

\* Mutant: a send that fails arms the timer, which the close event will do once more.
SendFailsAndReconnects ==
  /\ heartbeat_connected /\ heartbeat_conn # "open" /\ chains > 0
  /\ heartbeat_connected' = FALSE
  /\ chains' = chains - 1
  /\ heartbeat_timers' = heartbeat_timers + 1
  /\ UNCHANGED <<heartbeat_conn, opens, heartbeat_failed>>

\* A timer of a chain sends on a connection that is no longer open: the chain ends.
\* One that finds the heartbeat offline, or that can send, goes on as it was.
HeartbeatSendFails ==
  /\ heartbeat_connected /\ heartbeat_conn # "open" /\ chains > 0
  /\ heartbeat_connected' = FALSE
  /\ chains' = chains - 1
  /\ UNCHANGED <<heartbeat_conn, heartbeat_timers, opens, heartbeat_failed>>

HeartbeatNext ==
  \/ ConnectHeartbeat \/ HeartbeatOpens \/ WebOpens \/ HeartbeatFails
  \/ HeartbeatEnds \/ HeartbeatCloses \/ HeartbeatSendFails

HeartbeatSpec == HeartbeatInit /\ [][HeartbeatNext]_heartbeat_vars

-----------------------------------------------------------------------------
(***************************************************************************)
(* Safety.                                                                 *)
(***************************************************************************)

\* While the heartbeat is taken for connected some chain beats, although chains end when a
\* send fails and are not started again by those who go on.
HeartbeatBeats == heartbeat_connected => chains > 0

\* The handle is only replaced when its connection is over: never do two connections of the
\* heartbeat compete, of which the server would kick one.
OneHeartbeat ==
  /\ heartbeat_timers <= 1
  /\ heartbeat_timers = 1 => heartbeat_conn = "none" /\ ~heartbeat_connected

\* A heartbeat that has no connection will try again, unless an attempt has failed: that,
\* and nothing else, silences it for good.
SilencedByFailureOnly ==
  heartbeat_conn = "none" => heartbeat_timers > 0 \/ heartbeat_failed

\* What connect_heartbeat(), its handlers and schedule_heartbeat() promise together: one
\* connection, that beats or is to be made again.
HeartbeatLives == HeartbeatBeats /\ OneHeartbeat /\ SilencedByFailureOnly
=============================================================================
