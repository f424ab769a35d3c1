----------------------------- MODULE UploadRate -----------------------------
(***************************************************************************)
(* How often the position of the robot is uploaded.  localization_callback *)
(* and the telemetry thread ask should_send_upload_position() at the same  *)
(* time, without a mutex, while the cloud may set another frequency.       *)
(*                                                                         *)
(* The clock never goes back: it is the system's, the code trusts it.      *)
(* Left out: the position; frequencies that are no numbers.                *)
(***************************************************************************)
EXTENDS Naturals

CONSTANTS
  Uploaders,  \* the threads that ask
  Intervals,  \* the intervals there may be
  MaxSetters, \* bound: how many commands set the frequency at the same time
  MaxClock    \* bound: how long the clock goes

ASSUME UploadRateAssumption ==
  Intervals \subseteq 1 .. MaxClock /\ Intervals # {} /\ MaxSetters \in Nat /\ MaxClock \in Nat

VARIABLES
  clock,                     \* the system's clock
  upload_position_interval,  \* upload_position_interval_ms_
  last_upload_position,      \* last_upload_position_ms_
  asker,                     \* each thread in should_send_upload_position()
  setters,                   \* how many commands have stored an interval and not yet
                             \* reset the last upload
  uploaded                   \* history: when the last upload was granted, was it reset since

rate_vars == <<clock, upload_position_interval, last_upload_position, asker, setters,
               uploaded>>

RateTypeOK ==
  /\ clock \in 0 .. MaxClock
  /\ upload_position_interval \in Intervals
  /\ last_upload_position \in 0 .. MaxClock
  /\ asker \in [Uploaders -> [pc : {"none", "timed", "reading", "comparing"},
                              now : 0 .. MaxClock, interval : Intervals \cup {0},
                              last : 0 .. MaxClock]]
  /\ setters \in 0 .. MaxSetters
  /\ uploaded \in [at : 0 .. MaxClock, reset : BOOLEAN]

NoQuestion == [pc |-> "none", now |-> 0, interval |-> 0, last |-> 0]

\* Whatever the interval is at first, the clock is past every one, as the system's is.
RateInit ==
  /\ upload_position_interval \in Intervals
  /\ clock \in {i \in Intervals : \A j \in Intervals : j <= i}
  /\ last_upload_position = 0
  /\ asker = [t \in Uploaders |-> NoQuestion]
  /\ setters = 0
  /\ uploaded = [at |-> 0, reset |-> TRUE]

-----------------------------------------------------------------------------
ClockTicks ==
  /\ clock < MaxClock
  /\ clock' = clock + 1
  /\ UNCHANGED <<upload_position_interval, last_upload_position, asker, setters, uploaded>>

\* handle_set_position_upload_frequency(), a thread each: two stores.
FrequencySet ==
  /\ setters < MaxSetters
  /\ upload_position_interval' \in Intervals
  /\ setters' = setters + 1
  /\ UNCHANGED <<clock, last_upload_position, asker, uploaded>>

LastUploadReset ==
  /\ setters > 0
  /\ last_upload_position' = 0
  /\ setters' = setters - 1
  /\ uploaded' = [uploaded EXCEPT !.reset = TRUE]
  /\ UNCHANGED <<clock, upload_position_interval, asker>>

\* should_send_upload_position(), load by load.
Asks(t) ==
  /\ asker[t].pc = "none"
  /\ asker' = [asker EXCEPT ![t] = [NoQuestion EXCEPT !.pc = "timed", !.now = clock]]
  /\ UNCHANGED <<clock, upload_position_interval, last_upload_position, setters, uploaded>>

ReadsInterval(t) ==
  /\ asker[t].pc = "timed"
  /\ asker' = [asker EXCEPT ![t].pc = "reading", ![t].interval = upload_position_interval]
  /\ UNCHANGED <<clock, upload_position_interval, last_upload_position, setters, uploaded>>

ReadsLast(t) ==
  /\ asker[t].pc = "reading"
  /\ asker' = [asker EXCEPT ![t].pc = "comparing", ![t].last = last_upload_position]
  /\ UNCHANGED <<clock, upload_position_interval, last_upload_position, setters, uploaded>>

DueFor(t) == asker[t].last + asker[t].interval <= asker[t].now

NotDue(t) ==
  /\ asker[t].pc = "comparing" /\ ~DueFor(t)
  /\ asker' = [asker EXCEPT ![t] = NoQuestion]
  /\ UNCHANGED <<clock, upload_position_interval, last_upload_position, setters, uploaded>>

\* The exchange fails, or fails for no reason: the value is read and the test done again.
ExchangeFails(t) ==
  /\ asker[t].pc = "comparing" /\ DueFor(t)
  /\ asker' = [asker EXCEPT ![t].last = last_upload_position]
  /\ UNCHANGED <<clock, upload_position_interval, last_upload_position, setters, uploaded>>

\* Mutant: a store in the place of the exchange.
Stored(t) ==
  /\ asker[t].pc = "comparing" /\ DueFor(t)
  /\ last_upload_position' = asker[t].now
  /\ uploaded' = [at |-> asker[t].now, reset |-> FALSE]
  /\ asker' = [asker EXCEPT ![t] = NoQuestion]
  /\ UNCHANGED <<clock, upload_position_interval, setters>>

Exchanged(t) ==
  /\ asker[t].pc = "comparing" /\ DueFor(t)
  /\ last_upload_position = asker[t].last
  /\ last_upload_position' = asker[t].now
  /\ uploaded' = [at |-> asker[t].now, reset |-> FALSE]
  /\ asker' = [asker EXCEPT ![t] = NoQuestion]
  /\ UNCHANGED <<clock, upload_position_interval, setters>>

RateNext ==
  \/ ClockTicks \/ FrequencySet \/ LastUploadReset
  \/ \E t \in Uploaders : \/ Asks(t) \/ ReadsInterval(t) \/ ReadsLast(t) \/ NotDue(t)
                          \/ ExchangeFails(t) \/ Exchanged(t)

RateSpec == RateInit /\ [][RateNext]_rate_vars

-----------------------------------------------------------------------------
(***************************************************************************)
(* Safety.                                                                 *)
(***************************************************************************)

\* Between two uploads, of whichever threads, lies the interval that the second has read,
\* unless the frequency was set in between, which lets the next one pass at once.
RateKept ==
  [][\A t \in Uploaders :
       asker[t].pc = "comparing" /\ uploaded' # uploaded /\ asker'[t].pc = "none" =>
         uploaded.reset \/ uploaded.at + asker[t].interval <= uploaded'.at]_rate_vars
=============================================================================
