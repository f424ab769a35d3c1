---------------------------- MODULE GatewayProofs ----------------------------
(***************************************************************************)
(* Proofs about the heartbeat and about the end of the program, for any    *)
(* number of connections opened and any number of threads.                 *)
(***************************************************************************)
EXTENDS CommandIntake, Heartbeat, Shutdown, FiniteSetTheorems, TLAPS

-----------------------------------------------------------------------------
\* The heartbeat.

\* Whoever takes the heartbeat for connected has the connection, or its close event is
\* still to come.
ConnectedHasConnection == heartbeat_connected => heartbeat_conn \in {"open", "closing"}

\* Each chain in turn ends the connectedness that it fails on, so the first chain to fail
\* is also the last one that can: the others see the heartbeat offline.
HeartbeatInv ==
  /\ HeartbeatTypeOK
  /\ HeartbeatBeats
  /\ OneHeartbeat
  /\ SilencedByFailureOnly
  /\ ConnectedHasConnection
  /\ chains <= opens.heartbeat + opens.web

LEMMA HeartbeatInitially == HeartbeatInit => HeartbeatInv
<1> SUFFICES ASSUME HeartbeatInit PROVE HeartbeatInv
  OBVIOUS
<1> USE HeartbeatBoundsAssumption DEF HeartbeatBoundsAssumption, HeartbeatInit
<1>1. HeartbeatTypeOK
  <2>1. chains \in 0 .. MaxHeartbeatOpens + MaxWebOpens
    OBVIOUS
  <2>2. opens \in [heartbeat : 0 .. MaxHeartbeatOpens, web : 0 .. MaxWebOpens]
    OBVIOUS
  <2>3. heartbeat_timers \in Nat
    OBVIOUS
  <2>4. heartbeat_conn \in {"none", "connecting", "open", "closing"}
    OBVIOUS
  <2>5. heartbeat_connected \in BOOLEAN /\ heartbeat_failed \in BOOLEAN
    OBVIOUS
  <2> QED
    BY <2>1, <2>2, <2>3, <2>4, <2>5 DEF HeartbeatTypeOK
<1>2. HeartbeatBeats /\ OneHeartbeat /\ SilencedByFailureOnly /\ ConnectedHasConnection
  BY DEF HeartbeatBeats, OneHeartbeat, SilencedByFailureOnly, ConnectedHasConnection
<1>3. chains <= opens.heartbeat + opens.web
  OBVIOUS
<1> QED
  BY <1>1, <1>2, <1>3 DEF HeartbeatInv

LEMMA HeartbeatPreserved == HeartbeatInv /\ [HeartbeatNext]_heartbeat_vars => HeartbeatInv'
<1> SUFFICES ASSUME HeartbeatInv, [HeartbeatNext]_heartbeat_vars PROVE HeartbeatInv'
  OBVIOUS
<1> USE HeartbeatBoundsAssumption
    DEF HeartbeatBoundsAssumption, HeartbeatInv, HeartbeatTypeOK, HeartbeatBeats, OneHeartbeat,
        SilencedByFailureOnly,
        ConnectedHasConnection
<1>1. CASE ConnectHeartbeat
  BY <1>1 DEF ConnectHeartbeat
<1>2. CASE HeartbeatOpens
  <2> USE <1>2 DEF HeartbeatOpens
  <2>1. /\ opens'.heartbeat = opens.heartbeat + 1 /\ opens'.web = opens.web
        /\ opens' \in [heartbeat : 0 .. MaxHeartbeatOpens, web : 0 .. MaxWebOpens]
    OBVIOUS
  <2>2. /\ chains' <= opens'.heartbeat + opens'.web
        /\ chains' \in 1 .. MaxHeartbeatOpens + MaxWebOpens
    BY <2>1
  <2>3. heartbeat_timers' = 0
    OBVIOUS
  <2>4. HeartbeatTypeOK'
    BY <2>1, <2>2
  <2> QED
    BY <2>2, <2>3, <2>4
<1>3. CASE WebOpens
  <2> USE <1>3 DEF WebOpens
  <2>1. /\ opens'.heartbeat = opens.heartbeat /\ opens'.web = opens.web + 1
        /\ opens' \in [heartbeat : 0 .. MaxHeartbeatOpens, web : 0 .. MaxWebOpens]
    OBVIOUS
  <2>2. /\ chains' <= opens'.heartbeat + opens'.web
        /\ chains' \in 1 .. MaxHeartbeatOpens + MaxWebOpens
    BY <2>1
  <2>3. HeartbeatTypeOK'
    BY <2>1, <2>2
  <2> QED
    BY <2>2, <2>3
<1>4. CASE HeartbeatFails
  BY <1>4 DEF HeartbeatFails
<1>5. CASE HeartbeatEnds
  BY <1>5 DEF HeartbeatEnds
<1>6. CASE HeartbeatCloses
  <2> USE <1>6 DEF HeartbeatCloses
  <2>1. heartbeat_timers = 0
    OBVIOUS
  <2>2. heartbeat_timers' = 1
    BY <2>1
  <2>3. heartbeat_conn' = "none" /\ heartbeat_connected' = FALSE
    OBVIOUS
  <2>4. heartbeat_connected' \in BOOLEAN /\ heartbeat_failed' \in BOOLEAN
    OBVIOUS
  <2>5. HeartbeatTypeOK'
    BY <2>2, <2>3, <2>4
  <2> QED
    BY <2>2, <2>3, <2>5
<1>7. CASE HeartbeatSendFails
  <2> USE <1>7 DEF HeartbeatSendFails
  <2>1. /\ chains' \in 0 .. MaxHeartbeatOpens + MaxWebOpens
        /\ chains' <= opens'.heartbeat + opens'.web
    OBVIOUS
  <2>2. ~heartbeat_connected' /\ heartbeat_connected' \in BOOLEAN
    OBVIOUS
  <2>3. HeartbeatTypeOK'
    BY <2>1, <2>2
  <2> QED
    BY <2>1, <2>2, <2>3
<1>8. CASE UNCHANGED heartbeat_vars
  BY <1>8 DEF heartbeat_vars
<1> QED
  BY <1>1, <1>2, <1>3, <1>4, <1>5, <1>6, <1>7, <1>8 DEF HeartbeatNext

\* HeartbeatLives of Heartbeat: a connected heartbeat beats, has no rival, and is silenced
\* by a failed attempt alone.
THEOREM HeartbeatGoesOn == HeartbeatSpec => []HeartbeatLives
<1>1. HeartbeatInv => HeartbeatLives
  BY DEF HeartbeatInv, HeartbeatLives
<1> QED
  BY <1>1, HeartbeatInitially, HeartbeatPreserved, PTL DEF HeartbeatSpec

-----------------------------------------------------------------------------
\* The end of the program.

Working(t) == gateway_thread[t] \in {"busy", "sending"}

\* Who has to have ended by when.  As long as main() has not looked at workers_, it holds
\* every thread that works; stopping_ was raised before, so none is missed.
ShutdownInv ==
  /\ ShutdownTypeOK
  /\ ~stopping <=> main_pc = "running"
  /\ main_pc \notin {"running", "stopping", "joining_client"} => client_thread = "ended"
  /\ main_pc \in {"running", "stopping", "joining_client", "taking_workers"} =>
       \A t \in GatewayThreads : Working(t) => t \in workers
  /\ main_pc = "waiting_workers" => \A t \in GatewayThreads : Working(t) => t \in waited_for
  /\ CallbacksEndFirst

\* What main() is doing, by name.
LEMMA MainStepNames ==
  {MainSteps[i] : i \in DOMAIN MainSteps} =
    {"running", "stopping", "joining_client", "taking_workers", "waiting_workers",
     "gateway_stopped", "destroying", "joining_background", "executor_gone"}
BY DEF MainSteps

LEMMA ShutdownInitially == ShutdownInit => ShutdownInv
BY MainStepNames DEF ShutdownInit, ShutdownInv, ShutdownTypeOK, Working, CallbacksEndFirst

LEMMA ShutdownPreserved == ShutdownInv /\ [ShutdownNext]_shutdown_vars => ShutdownInv'
<1> SUFFICES ASSUME ShutdownInv, [ShutdownNext]_shutdown_vars PROVE ShutdownInv'
  OBVIOUS
<1> USE MainStepNames DEF ShutdownInv, ShutdownTypeOK, CallbacksEndFirst, Working,
    gateway_vars, executor_vars
<1>1. CASE MessageTaken \/ MessageDone \/ ClientThreadEnds
  BY <1>1 DEF MessageTaken, MessageDone, ClientThreadEnds
<1>2. ASSUME NEW t \in GatewayThreads, BackgroundTaskStarted(t) PROVE ShutdownInv'
  BY <1>2 DEF BackgroundTaskStarted
<1>3. ASSUME NEW t \in ExecutorThreads, Launched(t) PROVE ShutdownInv'
  BY <1>3 DEF Launched
<1>4. ASSUME NEW t \in GatewayThreads, NEW from \in {"busy", "sending"},
             NEW to \in {"busy", "sending", "ended"}, GatewayThreadGoes(t, from, to)
      PROVE  ShutdownInv'
  BY <1>4 DEF GatewayThreadGoes
<1>5. ASSUME NEW t \in ExecutorThreads, NEW from \in {"busy", "sending"},
             NEW to \in {"busy", "sending", "ended"}, ExecutorThreadGoes(t, from, to)
      PROVE  ShutdownInv'
  BY <1>5 DEF ExecutorThreadGoes
<1>6. CASE StopRequested
  BY <1>6 DEF StopRequested, MainGoes
<1>7. CASE ClientStopped \/ ClientJoined
  BY <1>7 DEF ClientStopped, ClientJoined, MainGoes
<1>8. CASE WorkersTaken
  BY <1>8 DEF WorkersTaken, MainGoes
<1>9. CASE WorkersEnded
  BY <1>9 DEF WorkersEnded, MainGoes
<1>10. CASE DestructorBegins \/ BackgroundTaken \/ BackgroundJoined
  BY <1>10 DEF DestructorBegins, BackgroundTaken, BackgroundJoined, MainGoes
<1>11. CASE UNCHANGED shutdown_vars
  BY <1>11 DEF shutdown_vars
<1>12. CASE ThreadsEnd \/ SendPosted
  BY <1>1, <1>4, <1>5, <1>12 DEF ThreadsEnd, SendPosted, GatewayThreadEnds, GatewaySendReturns,
     ExecutorThreadEnds, ExecutorSendReturns
<1> QED
  BY <1>1, <1>2, <1>3, <1>6, <1>7, <1>8, <1>9, <1>10, <1>11, <1>12 DEF ShutdownNext, MainGoesOn

\* CallbacksEndFirst of Shutdown: when ~CommandExecutor() begins, no thread of the gateway
\* is left that could call the executor.
THEOREM CallbacksOver == ShutdownSpec => []CallbacksEndFirst
<1>1. ShutdownInv => CallbacksEndFirst
  BY DEF ShutdownInv
<1> QED
  BY <1>1, ShutdownInitially, ShutdownPreserved, PTL DEF ShutdownSpec

-----------------------------------------------------------------------------
\* The commands that come twice.

Taken(i) == executed[i] + intake_workers[i] > 0

\* What was remembered after an id is what follows it in the queue; when the id is released
\* these are CacheLimit others, and the count never falls before the id is taken again.
IntakeInv ==
  /\ recent_command_ids \in Seq(Ids) /\ Len(recent_command_ids) <= CacheLimit
  /\ MemoriesAgree
  /\ RefusedWasDone
  /\ intake_workers \in [Ids -> Nat] /\ executed \in [Ids -> Nat]
  /\ since \in [Ids -> SUBSET Ids]
  /\ \A i \in Ids : IsFiniteSet(since[i])
  /\ \A p, q \in DOMAIN recent_command_ids :
       p < q => recent_command_ids[q] \in since[recent_command_ids[p]]
  /\ \A i \in Ids \ recent_command_id_set :
       Taken(i) => Cardinality(since[i]) >= CacheLimit

LEMMA IntakeInitially == IntakeInit => IntakeInv
<1> SUFFICES ASSUME IntakeInit PROVE IntakeInv
  OBVIOUS
<1> USE IntakeAssumption DEF IntakeAssumption, IntakeInit
<1>1. IsFiniteSet({})
  BY FS_EmptySet
<1>2. MemoriesAgree /\ RefusedWasDone
  BY DEF MemoriesAgree, RefusedWasDone, Range, IsInjective
<1>3. \A i \in Ids : ~Taken(i)
  BY DEF Taken
<1> QED
  BY <1>1, <1>2, <1>3 DEF IntakeInv

LEMMA TailPlaces ==
  ASSUME NEW S, NEW s \in Seq(S), Len(s) > 0
  PROVE  /\ Tail(s) \in Seq(S) /\ Len(Tail(s)) = Len(s) - 1
         /\ \A k \in 1 .. Len(s) - 1 : Tail(s)[k] = s[k + 1]
OBVIOUS

\* An id is taken in: it has the last place, and the first one is given up if there is no
\* room for both.
LEMMA QueueMoves ==
  ASSUME IntakeInv, NEW i \in Ids \ recent_command_id_set, Remembers(i)
  PROVE  LET ids == recent_command_ids
         IN  /\ recent_command_ids' \in Seq(Ids)
             /\ recent_command_ids'[Len(recent_command_ids')] = i
             /\ \/ /\ Len(recent_command_ids') = Len(ids) + 1
                   /\ Len(ids) < CacheLimit
                   /\ \A k \in 1 .. Len(ids) : recent_command_ids'[k] = ids[k]
                   /\ recent_command_id_set' = recent_command_id_set \cup {i}
                \/ /\ Len(recent_command_ids') = Len(ids)
                   /\ Len(ids) = CacheLimit
                   /\ \A k \in 1 .. Len(ids) - 1 : recent_command_ids'[k] = ids[k + 1]
                   /\ recent_command_id_set' = (recent_command_id_set \cup {i}) \ {ids[1]}
<1> DEFINE ids == recent_command_ids
           longer == Append(ids, i)
<1>1. ids \in Seq(Ids) /\ Len(ids) \in Nat /\ Len(ids) <= CacheLimit /\ CacheLimit \in Nat \ {0}
  BY IntakeAssumption DEF IntakeAssumption, IntakeInv
<1>2. /\ longer \in Seq(Ids) /\ Len(longer) = Len(ids) + 1
      /\ \A k \in 1 .. Len(ids) : longer[k] = ids[k]
      /\ longer[Len(ids) + 1] = i
  BY <1>1
<1>3. Head(longer) = longer[1]
  BY <1>1, <1>2
<1>4. /\ recent_command_ids' = IF Len(longer) > CacheLimit THEN Tail(longer) ELSE longer
      /\ recent_command_id_set' = (recent_command_id_set \cup {i})
                                     \ (IF Len(longer) > CacheLimit THEN {Head(longer)} ELSE {})
  BY DEF Remembers
<1>5. /\ Tail(longer) \in Seq(Ids) /\ Len(Tail(longer)) = Len(ids)
      /\ \A k \in 1 .. Len(ids) : Tail(longer)[k] = longer[k + 1]
  <2> HIDE DEF longer, ids
  <2>1. Len(longer) > 0 /\ Len(longer) - 1 = Len(ids)
    BY <1>1, <1>2
  <2> QED
    BY <1>2, <2>1, TailPlaces
<1> HIDE DEF longer
<1>6. CASE Len(ids) < CacheLimit
  BY <1>1, <1>2, <1>4, <1>6
<1>7. CASE Len(ids) = CacheLimit
  <2>1. /\ recent_command_ids' = Tail(longer)
        /\ recent_command_id_set' = (recent_command_id_set \cup {i}) \ {ids[1]}
    BY <1>1, <1>2, <1>3, <1>4, <1>7
  <2>2. \A k \in 1 .. Len(ids) - 1 : Tail(longer)[k] = ids[k + 1]
    BY <1>1, <1>2, <1>5
  <2>3. Tail(longer)[Len(ids)] = i
    BY <1>1, <1>2, <1>5, <1>7
  <2> QED
    BY <1>5, <1>7, <2>1, <2>2, <2>3
<1> QED
  BY <1>1, <1>6, <1>7

LEMMA IntakeRemembers ==
  ASSUME IntakeInv, NEW i \in Ids \ recent_command_id_set, Remembers(i),
         intake_workers' \in [Ids -> Nat], executed' \in [Ids -> Nat],
         Taken(i)', \A j \in Ids \ {i} : Taken(j)' <=> Taken(j)
  PROVE  IntakeInv'
<1> DEFINE ids == recent_command_ids
             n == Len(ids)
<1> CacheLimit \in Nat \ {0}
  BY IntakeAssumption DEF IntakeAssumption
<1>1. /\ ids \in Seq(Ids) /\ n \in Nat /\ n <= CacheLimit
      /\ \A a, b \in 1 .. n : ids[a] = ids[b] => a = b
      /\ \A x : x \in recent_command_id_set <=> \E k \in 1 .. n : ids[k] = x
      /\ \A k \in 1 .. n : ids[k] \in Ids /\ ids[k] # i
      /\ since \in [Ids -> SUBSET Ids]
      /\ \A j \in Ids : IsFiniteSet(since[j])
      /\ \A p, q \in 1 .. n : p < q => ids[q] \in since[ids[p]]
  <2>1. ids \in Seq(Ids) /\ n \in Nat /\ DOMAIN ids = 1 .. n
    BY DEF IntakeInv
  <2>2. \A a, b \in 1 .. n : ids[a] = ids[b] => a = b
    BY <2>1 DEF IntakeInv, MemoriesAgree, IsInjective
  <2>3. \A x : x \in recent_command_id_set <=> \E k \in 1 .. n : ids[k] = x
    BY <2>1 DEF IntakeInv, MemoriesAgree, Range
  <2>4. \A k \in 1 .. n : ids[k] \in Ids /\ ids[k] # i
    BY <2>1, <2>3
  <2>5. \A p, q \in 1 .. n : p < q => ids[q] \in since[ids[p]]
    BY <2>1 DEF IntakeInv
  <2> QED
    BY <2>1, <2>2, <2>3, <2>4, <2>5 DEF IntakeInv
<1>2. /\ ids' \in Seq(Ids) /\ n' \in Nat /\ n' <= CacheLimit /\ n' >= 1
      /\ DOMAIN ids' = 1 .. n' /\ ids'[n'] = i
      /\ \/ /\ n' = n + 1
            /\ \A k \in 1 .. n : ids'[k] = ids[k]
            /\ recent_command_id_set' = recent_command_id_set \cup {i}
         \/ /\ n' = n /\ n = CacheLimit
            /\ \A k \in 1 .. n - 1 : ids'[k] = ids[k + 1]
            /\ recent_command_id_set' = (recent_command_id_set \cup {i}) \ {ids[1]}
  <2>1. /\ ids' \in Seq(Ids) /\ ids'[n'] = i
        /\ \/ /\ n' = n + 1 /\ n < CacheLimit
              /\ \A k \in 1 .. n : ids'[k] = ids[k]
              /\ recent_command_id_set' = recent_command_id_set \cup {i}
           \/ /\ n' = n /\ n = CacheLimit
              /\ \A k \in 1 .. n - 1 : ids'[k] = ids[k + 1]
              /\ recent_command_id_set' = (recent_command_id_set \cup {i}) \ {ids[1]}
    BY QueueMoves
  <2>2. n' \in Nat /\ DOMAIN ids' = 1 .. n'
    BY <2>1
  <2>3. CacheLimit \in Nat \ {0}
    OBVIOUS
  <2> HIDE DEF n, ids
  <2>4. n' <= CacheLimit /\ n' >= 1
    BY <1>1, <2>1, <2>2, <2>3
  <2> QED
    BY <2>1, <2>2, <2>4
<1> HIDE DEF n, ids
<1>3. /\ since' \in [Ids -> SUBSET Ids] /\ since'[i] = {}
      /\ \A j \in Ids \ {i} : since'[j] = since[j] \cup {i}
  BY <1>1 DEF Remembers
<1>4. \A j \in Ids : IsFiniteSet(since'[j])
  <2>1. \A j \in Ids : IsFiniteSet(since[j] \cup {i})
    BY <1>1, FS_AddElement
  <2> QED
    BY <1>3, <2>1, FS_EmptySet
<1>5. MemoriesAgree'
  <2>1. ASSUME NEW a \in 1 .. n', NEW b \in 1 .. n', ids'[a] = ids'[b] PROVE a = b
    <3>1. CASE n' = n + 1 /\ \A k \in 1 .. n : ids'[k] = ids[k]
      <4>1. \A k \in 1 .. n : ids'[k] # i
        BY <1>1, <3>1
      <4>2. CASE a = n' \/ b = n'
        <5>1. ids'[a] = i /\ ids'[b] = i
          BY <1>2, <2>1, <4>2
        <5>2. a \notin 1 .. n /\ b \notin 1 .. n
          BY <4>1, <5>1
        <5> QED
          BY <1>1, <3>1, <5>2
      <4>3. CASE a # n' /\ b # n'
        <5>1. a \in 1 .. n /\ b \in 1 .. n
          BY <1>1, <3>1, <4>3
        <5> QED
          BY <1>1, <2>1, <3>1, <5>1
      <4> QED
        BY <4>2, <4>3
    <3>2. CASE n' = n /\ \A k \in 1 .. n - 1 : ids'[k] = ids[k + 1]
      <4>1. \A k \in 1 .. n - 1 : k + 1 \in 1 .. n /\ ids'[k] # i
        <5>1. \A k \in 1 .. n - 1 : k + 1 \in 1 .. n
          BY <1>1
        <5> QED
          BY <1>1, <3>2, <5>1
      <4>2. CASE a = n \/ b = n
        <5>1. ids'[a] = i /\ ids'[b] = i
          BY <1>2, <2>1, <3>2, <4>2
        <5> QED
          BY <1>1, <3>2, <4>1, <5>1
      <4>3. CASE a # n /\ b # n
        <5>1. a \in 1 .. n - 1 /\ b \in 1 .. n - 1 /\ ids[a + 1] = ids[b + 1]
          BY <1>1, <2>1, <3>2, <4>3
        <5>2. a + 1 = b + 1
          BY <1>1, <4>1, <5>1
        <5> QED
          BY <5>1, <5>2
      <4> QED
        BY <4>2, <4>3
    <3> QED
      BY <1>2, <3>1, <3>2
  <2>2. recent_command_id_set' = Range(ids')
    <3>1. ASSUME NEW k \in 1 .. n' PROVE ids'[k] \in recent_command_id_set'
      <4>1. CASE /\ n' = n + 1 /\ \A l \in 1 .. n : ids'[l] = ids[l]
                 /\ recent_command_id_set' = recent_command_id_set \cup {i}
        <5>1. CASE k = n'
          BY <1>2, <4>1, <5>1
        <5>2. CASE k # n'
          <6>1. k \in 1 .. n
            BY <1>1, <4>1, <5>2
          <6> QED
            BY <1>1, <4>1, <6>1
        <5> QED
          BY <5>1, <5>2
      <4>2. CASE /\ n' = n /\ \A l \in 1 .. n - 1 : ids'[l] = ids[l + 1]
                 /\ recent_command_id_set' = (recent_command_id_set \cup {i}) \ {ids[1]}
        <5>1. 1 \in 1 .. n
          BY <1>2, <4>2
        <5>2. CASE k = n
          BY <1>1, <1>2, <4>2, <5>1, <5>2
        <5>3. CASE k # n
          <6>1. n \in Nat /\ k \in 1 .. n
            BY <1>1, <4>2
          <6>2. k \in 1 .. n - 1 /\ k + 1 \in 1 .. n /\ k + 1 # 1
            BY <5>3, <6>1
          <6>3. ids'[k] = ids[k + 1]
            BY <4>2, <6>2
          <6> QED
            BY <1>1, <4>2, <5>1, <6>2, <6>3
        <5> QED
          BY <5>2, <5>3
      <4> QED
        BY <1>2, <4>1, <4>2
    <3>2. ASSUME NEW x \in recent_command_id_set' PROVE \E k \in 1 .. n' : ids'[k] = x
      <4>1. CASE x = i
        BY <1>2, <4>1
      <4>2. CASE x # i
        <5>1. PICK k \in 1 .. n : x = ids[k]
          BY <1>1, <1>2, <4>2
        <5>2. CASE n' = n + 1 /\ \A l \in 1 .. n : ids'[l] = ids[l]
          <6>1. k \in 1 .. n'
            BY <1>1, <5>2
          <6> QED
            BY <5>1, <5>2, <6>1
        <5>3. CASE /\ n' = n /\ \A l \in 1 .. n - 1 : ids'[l] = ids[l + 1]
                   /\ recent_command_id_set' = (recent_command_id_set \cup {i}) \ {ids[1]}
          <6>1. k # 1 /\ k - 1 \in 1 .. n - 1 /\ (k - 1) + 1 = k
            BY <1>1, <5>1, <5>3
          <6>2. ids'[k - 1] = ids[k]
            BY <5>3, <6>1
          <6> QED
            BY <1>1, <5>1, <5>3, <6>1, <6>2
        <5> QED
          BY <1>2, <5>2, <5>3
      <4> QED
        BY <4>1, <4>2
    <3>3. Range(ids') = {ids'[k] : k \in 1 .. n'}
      BY <1>2 DEF Range
    <3>4. Range(ids') \subseteq recent_command_id_set'
      BY <3>1, <3>3
    <3>5. recent_command_id_set' \subseteq Range(ids')
      BY <3>2, <3>3
    <3> QED
      BY <3>4, <3>5
  <2>3. IsInjective(ids')
    BY <1>2, <2>1 DEF IsInjective
  <2> QED
    BY <2>2, <2>3 DEF MemoriesAgree, ids
<1>6. RefusedWasDone'
  <2>1. \A j \in recent_command_id_set' : j = i \/ j \in recent_command_id_set
    BY <1>2
  <2>2. ASSUME NEW j \in recent_command_id_set PROVE Taken(j) /\ j \in Ids /\ j # i
    <3>1. PICK k \in 1 .. n : ids[k] = j
      BY <1>1
    <3>2. j \in Ids /\ j # i
      BY <1>1, <3>1
    <3>3. Taken(j)
      BY DEF RefusedWasDone, Taken, IntakeInv
    <3> QED
      BY <3>2, <3>3
  <2>3. \A j \in recent_command_id_set' : Taken(j)'
    BY <2>1, <2>2
  <2> QED
    BY <2>3 DEF RefusedWasDone, Taken
<1>7. ASSUME NEW p \in 1 .. n', NEW q \in 1 .. n', p < q PROVE ids'[q] \in since'[ids'[p]]
  <2>1. CASE n' = n + 1 /\ \A k \in 1 .. n : ids'[k] = ids[k]
    <3>1. p \in 1 .. n /\ ids'[p] = ids[p] /\ ids[p] \in Ids \ {i}
      BY <1>1, <1>2, <1>7, <2>1
    <3>2. CASE q = n'
      BY <1>2, <1>3, <3>1, <3>2
    <3>3. CASE q # n'
      <4>1. q \in 1 .. n
        BY <1>1, <2>1, <3>3
      <4>2. ids'[q] = ids[q] /\ ids[q] \in since[ids[p]]
        BY <1>1, <1>7, <2>1, <3>1, <4>1
      <4> QED
        BY <1>3, <3>1, <4>2
    <3> QED
      BY <3>2, <3>3
  <2>2. CASE n' = n /\ \A k \in 1 .. n - 1 : ids'[k] = ids[k + 1]
    <3>1. p \in 1 .. n - 1 /\ p + 1 \in 1 .. n /\ ids'[p] = ids[p + 1] /\ ids[p + 1] \in Ids \ {i}
      <4>1. n \in Nat /\ p \in 1 .. n /\ q \in 1 .. n
        BY <1>1, <2>2
      <4>2. p \in 1 .. n - 1 /\ p + 1 \in 1 .. n
        BY <1>7, <4>1
      <4>3. ids'[p] = ids[p + 1]
        BY <2>2, <4>2
      <4> QED
        BY <1>1, <4>2, <4>3
    <3>2. CASE q = n
      BY <1>2, <1>3, <2>2, <3>1, <3>2
    <3>3. CASE q # n
      <4>1. q \in 1 .. n - 1 /\ q + 1 \in 1 .. n /\ ids'[q] = ids[q + 1]
        BY <1>1, <2>2, <3>3
      <4>2. p + 1 < q + 1
        BY <1>1, <1>7, <3>1, <4>1
      <4>3. ids[q + 1] \in since[ids[p + 1]]
        BY <1>1, <3>1, <4>1, <4>2
      <4> QED
        BY <1>3, <3>1, <4>1, <4>3
    <3> QED
      BY <3>2, <3>3
  <2> QED
    BY <1>2, <2>1, <2>2
<1>8. ASSUME NEW j \in Ids \ recent_command_id_set', Taken(j)'
      PROVE  Cardinality(since'[j]) >= CacheLimit
  <2>1. j # i
    <3>1. i \in recent_command_id_set'
      <4>1. CASE recent_command_id_set' = recent_command_id_set \cup {i}
        BY <4>1
      <4>2. CASE /\ recent_command_id_set' = (recent_command_id_set \cup {i}) \ {ids[1]}
                 /\ n = CacheLimit
        <5>1. 1 \in 1 .. n
          BY <4>2
        <5> QED
          BY <1>1, <4>2, <5>1
      <4> QED
        BY <1>2, <4>1, <4>2
    <3> QED
      BY <1>8, <3>1
  <2>2. CASE j \notin recent_command_id_set
    <3>1. Cardinality(since[j]) >= CacheLimit
      BY <1>8, <2>1, <2>2 DEF IntakeInv
    <3>2. Cardinality(since[j]) \in Nat
      BY <1>1, FS_CardinalityType
    <3>3. Cardinality(since'[j]) >= Cardinality(since[j])
      <4>1. since'[j] = since[j] \cup {i} /\ IsFiniteSet(since[j])
        BY <1>1, <1>3, <2>1
      <4>2. Cardinality(since[j] \cup {i}) =
              IF i \in since[j] THEN Cardinality(since[j]) ELSE Cardinality(since[j]) + 1
        BY <4>1, FS_AddElement
      <4> QED
        BY <3>2, <4>1, <4>2
    <3>4. Cardinality(since'[j]) \in Nat
      BY <1>4, FS_CardinalityType
    <3> QED
      BY <3>1, <3>2, <3>3, <3>4
  <2>3. CASE j \in recent_command_id_set
    <3>1. /\ j = ids[1] /\ n = CacheLimit /\ n' = CacheLimit
          /\ \A k \in 1 .. n - 1 : ids'[k] = ids[k + 1]
      BY <1>2, <1>8, <2>3
    <3>2. ASSUME NEW k \in 1 .. CacheLimit PROVE ids'[k] \in since'[j]
      <4>1. CASE k = CacheLimit
        BY <1>2, <1>3, <2>1, <3>1, <4>1
      <4>2. CASE k # CacheLimit
        <5>1. k + 1 \in 1 .. n /\ 1 \in 1 .. n /\ 1 < k + 1 /\ ids'[k] = ids[k + 1]
          BY <3>1, <4>2
        <5>2. ids[k + 1] \in since[j]
          BY <1>1, <3>1, <5>1
        <5> QED
          BY <1>3, <2>1, <5>1, <5>2
      <4> QED
        BY <4>1, <4>2
    <3>3. ids' \in Injection(1 .. CacheLimit, since'[j])
      <4>1. IsInjective(ids')
        BY <1>5 DEF MemoriesAgree, ids
      <4>2. ids' \in [1 .. CacheLimit -> since'[j]]
        BY <1>2, <3>1, <3>2
      <4> QED
        BY <4>1, <4>2 DEF Injection
    <3>4. Cardinality(1 .. CacheLimit) <= Cardinality(since'[j])
      BY <1>4, <3>3, FS_Injection
    <3>5. Cardinality(1 .. CacheLimit) = CacheLimit
      BY FS_Interval
    <3> QED
      BY <3>4, <3>5, <1>4, FS_CardinalityType
  <2> QED
    BY <2>2, <2>3
<1> QED
  BY <1>2, <1>3, <1>4, <1>5, <1>6, <1>7, <1>8 DEF IntakeInv, ids, n

LEMMA IntakePreserved == IntakeInv /\ [IntakeNext]_intake_vars => IntakeInv'
<1> SUFFICES ASSUME IntakeInv, [IntakeNext]_intake_vars PROVE IntakeInv'
  OBVIOUS
<1>1. ASSUME NEW i \in Ids, ExecutedAtOnce(i) PROVE IntakeInv'
  <2>1. /\ intake_workers' \in [Ids -> Nat] /\ executed' \in [Ids -> Nat]
        /\ Taken(i)' /\ \A j \in Ids \ {i} : Taken(j)' <=> Taken(j)
    BY <1>1 DEF ExecutedAtOnce, IntakeInv, Taken
  <2> QED
    BY <1>1, <2>1, IntakeRemembers DEF ExecutedAtOnce
<1>2. ASSUME NEW i \in Ids, GetsThread(i) PROVE IntakeInv'
  <2>1. /\ intake_workers' \in [Ids -> Nat] /\ executed' \in [Ids -> Nat]
        /\ Taken(i)' /\ \A j \in Ids \ {i} : Taken(j)' <=> Taken(j)
    <3>1. /\ intake_workers' = [intake_workers EXCEPT ![i] = @ + 1] /\ executed' = executed
          /\ intake_workers \in [Ids -> Nat] /\ executed \in [Ids -> Nat]
      BY <1>2 DEF GetsThread, IntakeInv
    <3>2. intake_workers' \in [Ids -> Nat] /\ intake_workers'[i] = intake_workers[i] + 1
      BY <3>1
    <3>3. \A j \in Ids \ {i} : intake_workers'[j] = intake_workers[j]
      BY <3>1
    <3>4. Taken(i)'
      BY <3>1, <3>2 DEF Taken
    <3>5. \A j \in Ids \ {i} : Taken(j)' <=> Taken(j)
      BY <3>1, <3>3 DEF Taken
    <3> QED
      BY <3>1, <3>2, <3>4, <3>5
  <2> QED
    BY <1>2, <2>1, IntakeRemembers DEF GetsThread
<1>3. ASSUME NEW i \in Ids, ThreadExecutes(i) PROVE IntakeInv'
  <2>1. /\ intake_workers' \in [Ids -> Nat] /\ executed' \in [Ids -> Nat]
        /\ \A j \in Ids : executed'[j] + intake_workers'[j] = executed[j] + intake_workers[j]
    <3>1. /\ intake_workers[i] > 0
          /\ intake_workers' = [intake_workers EXCEPT ![i] = @ - 1]
          /\ executed' = [executed EXCEPT ![i] = @ + 1]
          /\ intake_workers \in [Ids -> Nat] /\ executed \in [Ids -> Nat]
      BY <1>3 DEF ThreadExecutes, IntakeInv
    <3>2. intake_workers' \in [Ids -> Nat] /\ executed' \in [Ids -> Nat]
      <4>1. intake_workers[i] - 1 \in Nat /\ executed[i] + 1 \in Nat
        BY <3>1
      <4> QED
        BY <3>1, <4>1
    <3>3. ASSUME NEW j \in Ids
          PROVE  executed'[j] + intake_workers'[j] = executed[j] + intake_workers[j]
      <4>1. CASE j = i
        <5>1. intake_workers'[j] = intake_workers[j] - 1 /\ executed'[j] = executed[j] + 1
          BY <3>1, <4>1
        <5> QED
          BY <3>1, <5>1
      <4>2. CASE j # i
        BY <3>1, <4>2
      <4> QED
        BY <4>1, <4>2
    <3> QED
      BY <3>2, <3>3
  <2> QED
    BY <1>3, <2>1 DEF ThreadExecutes, IntakeInv, MemoriesAgree, RefusedWasDone, Taken
<1>4. ASSUME UNCHANGED <<recent_command_ids, recent_command_id_set, intake_workers, executed,
                         since>>
      PROVE  IntakeInv'
  BY <1>4 DEF IntakeInv, MemoriesAgree, RefusedWasDone, Taken
<1> QED
  BY <1>1, <1>2, <1>3, <1>4 DEF IntakeNext, intake_vars, TurnedAway, Duplicate, NoTrace

\* What RetriesFiltered asks of a step.
FilterStep == \A i \in Ids : TakenAgain(i) => Cardinality(since[i]) >= CacheLimit

LEMMA TakenAgainLate == IntakeInv /\ [IntakeNext]_intake_vars => FilterStep
<1> SUFFICES ASSUME IntakeInv, [IntakeNext]_intake_vars, NEW i \in Ids, TakenAgain(i)
             PROVE  Cardinality(since[i]) >= CacheLimit
  BY DEF FilterStep
<1> USE DEF IntakeInv, TakenAgain
<1>1. ~UNCHANGED <<intake_workers, executed>>
  OBVIOUS
<1>2. ASSUME NEW j \in Ids, ThreadExecutes(j) PROVE FALSE
  <2>1. executed'[i] + intake_workers'[i] = executed[i] + intake_workers[i]
    BY <1>2 DEF ThreadExecutes
  <2> QED
    BY <2>1
<1>3. PICK j \in Ids : ExecutedAtOnce(j) \/ GetsThread(j)
  BY <1>1, <1>2 DEF IntakeNext, intake_vars, TurnedAway, Duplicate, NoTrace
<1>4. j = i
  BY <1>3 DEF ExecutedAtOnce, GetsThread
<1>5. i \notin recent_command_id_set
  BY <1>3, <1>4 DEF ExecutedAtOnce, GetsThread
<1> QED
  BY <1>5 DEF Taken

\* RetriesFiltered of CommandIntake: whatever is sent again and however large the memory, a
\* command is taken again only after CacheLimit others.
THEOREM RepeatedLate == IntakeSpec => RetriesFiltered
<1> QED
  BY IntakeInitially, IntakePreserved, TakenAgainLate, PTL
  DEF IntakeSpec, RetriesFiltered, FilterStep

\* RefusedRightly of CommandIntake: an id is refused only while it is to be released, and
\* only if its command was taken.
THEOREM OnlyDoneRefused == IntakeSpec => []RefusedRightly
<1>1. IntakeInv => RefusedRightly
  BY DEF IntakeInv, RefusedRightly
<1> QED
  BY <1>1, IntakeInitially, IntakePreserved, PTL DEF IntakeSpec
=============================================================================
