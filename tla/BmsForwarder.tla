---------------------------- MODULE BmsForwarder ----------------------------
(***************************************************************************)
(* BmsForwarder, src/bms/BmsForwarder.cc: the readings of the battery go   *)
(* to the server on a WebSocket of their own.  The ROS thread stores the   *)
(* newest reading and posts a send; everything else happens on the one     *)
(* thread of ws_client_.  Only the newest reading is kept.                 *)
(*                                                                         *)
(* No handler but on_websocket_open() looks at which connection it is      *)
(* called for, and a send that fails does not close the connection: there  *)
(* may be several at a time and an old one may end when it likes.          *)
(*                                                                         *)
(* Left out: the content of the messages; a URL that cannot be parsed;     *)
(* stop(); readings before start().  A reading is its number.              *)
(***************************************************************************)
EXTENDS Naturals

CONSTANTS
  BmsConnections,  \* the connections there may be at a time
  MaxReadings,     \* bound: how many readings there are
  MaxGeneration    \* bound: how often a connection is opened

ASSUME BmsConnectionsAssumption == "none" \notin BmsConnections
ASSUME BmsBoundsAssumption == MaxReadings \in Nat /\ MaxGeneration \in Nat

VARIABLES
  bms_conn,              \* what websocketpp knows of each connection
  websocket_hdl,         \* websocket_hdl_
  websocket_connected,   \* websocket_connected_
  websocket_connecting,  \* websocket_connecting_
  bms_reconnect,         \* reconnect_scheduled_ and how many reconnect timers run
  websocket_generation,  \* websocket_generation_
  status_timers,         \* the generations for which a status timer runs
  bms_posted,            \* what is posted: the first connect, how many sends
  bms_storing,           \* is the ROS thread between storing a reading and posting its send?
  reading,               \* the number of the newest reading
  pending_payload,       \* pending_payload_, 0 when it is empty
  clearing,              \* what send_latest_payload() has sent and not yet cleared
  forwarded              \* history: the newest reading that a connection took

bms_link == <<bms_conn, websocket_hdl, websocket_connected, websocket_connecting,
              bms_reconnect, websocket_generation, status_timers>>
bms_data == <<reading, pending_payload, clearing, forwarded>>
bms_vars == <<bms_link, bms_posted, bms_storing, bms_data>>

BmsTypeOK ==
  /\ bms_conn \in [BmsConnections -> {"none", "connecting", "open", "closing"}]
  /\ websocket_hdl \in BmsConnections \cup {"none"}
  /\ websocket_connected \in BOOLEAN /\ websocket_connecting \in BOOLEAN
  /\ bms_reconnect \in [scheduled : BOOLEAN, timers : Nat]
  /\ websocket_generation \in Nat
  /\ status_timers \in SUBSET Nat
  /\ bms_posted \in [connect : BOOLEAN, sends : Nat]
  /\ bms_storing \in BOOLEAN
  /\ reading \in Nat /\ pending_payload \in Nat /\ clearing \in Nat /\ forwarded \in Nat

BmsInit ==
  /\ bms_conn = [c \in BmsConnections |-> "none"]
  /\ websocket_hdl = "none"
  /\ websocket_connected = FALSE /\ websocket_connecting = FALSE
  /\ bms_reconnect = [scheduled |-> FALSE, timers |-> 0]
  /\ websocket_generation = 0
  /\ status_timers = {}
  /\ bms_posted = [connect |-> TRUE, sends |-> 0]
  /\ bms_storing = FALSE
  /\ reading = 0 /\ pending_payload = 0 /\ clearing = 0 /\ forwarded = 0

-----------------------------------------------------------------------------
\* What the handlers call.  A handler runs when none is between sending and clearing.

BmsIdle == clearing = 0

HdlOpen == websocket_hdl # "none" /\ bms_conn[websocket_hdl] = "open"

\* schedule_reconnect().
BmsReconnect(r) ==
  IF r.scheduled THEN r ELSE [scheduled |-> TRUE, timers |-> r.timers + 1]

\* connect_websocket().
ConnectWebsocket ==
  IF websocket_connected \/ websocket_connecting
  THEN UNCHANGED <<bms_conn, websocket_hdl, websocket_connecting>>
  ELSE \E c \in BmsConnections :
         /\ bms_conn[c] = "none"
         /\ bms_conn' = [bms_conn EXCEPT ![c] = "connecting"]
         /\ websocket_hdl' = c
         /\ websocket_connecting' = TRUE

\* A send finds that the connection is no longer open.
BmsSendFails ==
  /\ websocket_connected' = FALSE
  /\ bms_reconnect' = BmsReconnect(bms_reconnect)

-----------------------------------------------------------------------------
\* The ROS thread: updateBattery().  A send that was posted before may find the new reading
\* before its own is posted.

ReadingStored ==
  /\ ~bms_storing
  /\ reading < MaxReadings
  /\ reading' = reading + 1
  /\ pending_payload' = reading + 1
  /\ bms_storing' = TRUE
  /\ UNCHANGED <<bms_link, bms_posted, clearing, forwarded>>

ReadingPosted ==
  /\ bms_storing
  /\ bms_storing' = FALSE
  /\ bms_posted' = [bms_posted EXCEPT !.sends = @ + 1]
  /\ UNCHANGED <<bms_link, bms_data>>

-----------------------------------------------------------------------------
\* The thread of ws_client_.

BmsStarts ==
  /\ BmsIdle /\ bms_posted.connect
  /\ bms_posted' = [bms_posted EXCEPT !.connect = FALSE]
  /\ ConnectWebsocket
  /\ UNCHANGED <<websocket_connected, bms_reconnect, websocket_generation, status_timers,
                 bms_storing, bms_data>>

\* reconnect_scheduled_ goes down whichever timer it was.
BmsReconnectTimer ==
  /\ BmsIdle /\ bms_reconnect.timers > 0
  /\ bms_reconnect' = [scheduled |-> FALSE, timers |-> bms_reconnect.timers - 1]
  /\ ConnectWebsocket
  /\ UNCHANGED <<websocket_connected, websocket_generation, status_timers, bms_posted,
                 bms_storing, bms_data>>

\* on_websocket_open(): the reading that waits is sent, then the status.
BmsOpens(c) ==
  /\ BmsIdle /\ bms_conn[c] = "connecting" /\ websocket_generation < MaxGeneration
  /\ bms_conn' = [bms_conn EXCEPT ![c] = "open"]
  /\ websocket_hdl' = c
  /\ websocket_connected' = TRUE /\ websocket_connecting' = FALSE
  /\ bms_reconnect' = [bms_reconnect EXCEPT !.scheduled = FALSE]
  /\ websocket_generation' = websocket_generation + 1
  /\ status_timers' = status_timers \cup {websocket_generation + 1}
  /\ IF pending_payload = 0 THEN UNCHANGED <<clearing, forwarded>>
     ELSE clearing' = pending_payload /\ forwarded' = pending_payload
  /\ UNCHANGED <<bms_posted, bms_storing, reading, pending_payload>>

\* The peer says goodbye or is gone; nobody has been told yet.
BmsConnectionEnds(c) ==
  /\ BmsIdle /\ bms_conn[c] = "open"
  /\ bms_conn' = [bms_conn EXCEPT ![c] = "closing"]
  /\ UNCHANGED <<websocket_hdl, websocket_connected, websocket_connecting, bms_reconnect,
                 websocket_generation, status_timers, bms_posted, bms_storing, bms_data>>

\* on_websocket_fail() and on_websocket_close().
BmsConnectionLost(c) ==
  /\ BmsIdle /\ bms_conn[c] \in {"connecting", "closing"}
  /\ bms_conn' = [bms_conn EXCEPT ![c] = "none"]
  /\ websocket_connected' = FALSE /\ websocket_connecting' = FALSE
  /\ bms_reconnect' = BmsReconnect(bms_reconnect)
  /\ UNCHANGED <<websocket_hdl, websocket_generation, status_timers, bms_posted, bms_storing,
                 bms_data>>

\* send_latest_payload(), as posted, up to the send.
PostedSendRuns ==
  /\ BmsIdle /\ bms_posted.sends > 0
  /\ bms_posted' = [bms_posted EXCEPT !.sends = @ - 1]
  /\ CASE ~websocket_connected \/ pending_payload = 0 ->
            UNCHANGED <<websocket_connected, bms_reconnect, clearing, forwarded>>
       [] websocket_connected /\ pending_payload # 0 /\ HdlOpen ->
            /\ clearing' = pending_payload /\ forwarded' = pending_payload
            /\ UNCHANGED <<websocket_connected, bms_reconnect>>
       [] OTHER -> BmsSendFails /\ UNCHANGED <<clearing, forwarded>>
  /\ UNCHANGED <<bms_conn, websocket_hdl, websocket_connecting, websocket_generation,
                 status_timers, bms_storing, reading, pending_payload>>

\* Mutant: what has been sent is cleared without a look at what is there now.
ClearsAnything ==
  /\ clearing # 0
  /\ clearing' = 0
  /\ pending_payload' = 0
  /\ UNCHANGED <<bms_link, bms_posted, bms_storing, reading, forwarded>>

\* ... and what comes after it.
ClearsWhatWasSent ==
  /\ clearing # 0
  /\ clearing' = 0
  /\ pending_payload' = IF pending_payload = clearing THEN 0 ELSE pending_payload
  /\ UNCHANGED <<bms_link, bms_posted, bms_storing, reading, forwarded>>

\* The timer of schedule_robot_status().  Without a reading there is no status to send.
StatusTimer(g) ==
  /\ BmsIdle /\ g \in status_timers
  /\ CASE ~websocket_connected \/ g # websocket_generation ->
            /\ status_timers' = status_timers \ {g}
            /\ UNCHANGED <<websocket_connected, bms_reconnect>>
       [] websocket_connected /\ g = websocket_generation /\ reading # 0 /\ ~HdlOpen ->
            /\ status_timers' = status_timers \ {g}
            /\ BmsSendFails
       [] OTHER -> UNCHANGED <<status_timers, websocket_connected, bms_reconnect>>
  /\ UNCHANGED <<bms_conn, websocket_hdl, websocket_connecting, websocket_generation,
                 bms_posted, bms_storing, bms_data>>

BmsThread ==
  \/ BmsStarts \/ BmsReconnectTimer \/ PostedSendRuns \/ ClearsWhatWasSent
  \/ \E c \in BmsConnections : BmsOpens(c) \/ BmsConnectionEnds(c) \/ BmsConnectionLost(c)
  \/ \E g \in status_timers : StatusTimer(g)

BmsNext == ReadingStored \/ ReadingPosted \/ BmsThread

BmsSpec == BmsInit /\ [][BmsNext]_bms_vars

-----------------------------------------------------------------------------
(***************************************************************************)
(* Safety.                                                                 *)
(***************************************************************************)

\* The newest reading is never lost between the threads: it waits, or an open connection
\* took it, even when it arrives between the send and the clearing of the one before.
NewestKept == IF pending_payload = 0 THEN forwarded = reading ELSE pending_payload = reading

\* A connected robot never sits on a reading: a send of it is posted, is about to be, or is
\* under way.
NewestOnItsWay ==
  websocket_connected /\ pending_payload # 0 =>
    bms_posted.sends > 0 \/ bms_storing \/ clearing # 0

\* A connected robot always has the status timer of this very connection, whatever old
\* connections and old timers end in between; those of old connections run out.
StatusGoesOn == websocket_connected => websocket_generation \in status_timers

\* The flags are written for whichever connection an event is about, yet a robot that
\* takes itself for offline always has an event ahead that makes it try again.
BmsNeverStranded ==
  ~websocket_connected =>
    \/ bms_posted.connect \/ bms_reconnect.timers > 0
    \/ \E c \in BmsConnections : bms_conn[c] = "connecting"

\* What updateBattery(), the handlers of the connection and the timers promise together: the
\* newest reading is kept and on its way, neither the status nor the reconnection dries up.
BmsKeepsUp == NewestKept /\ NewestOnItsWay /\ StatusGoesOn /\ BmsNeverStranded
=============================================================================
