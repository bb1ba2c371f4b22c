---------------------------- MODULE RelayProofs ----------------------------
(***************************************************************************)
(* What the runs of Relay show for two limits and short times, proved for  *)
(* any set of limits, any duration the timers can count and any delay.     *)
(***************************************************************************)
EXTENDS Relay, TLAPS

USE DEF settings, measured, credit

-----------------------------------------------------------------------------
(* The types.                                                             *)

\* The program starts with values of the types.
LEMMA InitTypeCorrect == Init => TypeOK
<1> SUFFICES ASSUME Init PROVE TypeOK
  OBVIOUS
<1>1. timer \in [Trips -> 0 .. TimerRange - 1] /\ over \in [Trips -> 0 .. TripDuration]
  BY DurationsFitTimers, SMT DEF Init
<1>2. /\ connect_counter \in 0 .. TimerRange - 1 /\ openFor \in 0 .. connect_timeout
      /\ RelayStatus \in 0 .. 2
  BY DurationsFitTimers DEF Init
<1>3. QED
  BY <1>1, <1>2 DEF Init, TypeOK

\* A move of the contact, which may fail, leaves values of the types.
LEMMA MoveTypeCorrect ==
  ASSUME NEW position \in BOOLEAN, NEW by_command \in BOOLEAN,
         MoveContact(position, by_command)
  PROVE  /\ RelayStatus' \in 0 .. 2
         /\ closed' \in BOOLEAN
         /\ pc' \in {"loop", "save", "activities"}
<1>1. closed' \in BOOLEAN
  BY DEF MoveContact
<1>2. RelayStatus' = 0 \/ RelayStatus' = 1
  BY DEF MoveContact
<1>3. pc' = "save" \/ pc' = "activities"
  BY DEF MoveContact
<1>4. QED
  BY <1>1, <1>2, <1>3

(* An update of the relay, whichever of its branches is taken.            *)
LEMMA UpdateTypeCorrect ==
  ASSUME TypeOK, UpdateRelayStatus
  PROVE  TypeOK'
<1>1. /\ RelayStatus' \in 0 .. 2
      /\ closed' \in BOOLEAN
      /\ pc' \in {"loop", "save", "activities"}
  <2>1. CASE \E position, by_command \in BOOLEAN : MoveContact(position, by_command)
    BY <2>1, MoveTypeCorrect
  <2>2. CASE LeaveContact /\ RelayStatus' \in 0 .. 2
    BY <2>2 DEF TypeOK, LeaveContact
  <2>3. CASE WhenDisconnected
    <3>1. \/ ConnectMeter(TRUE)
          \/ LeaveContact /\ RelayStatus' = IF AutoConnect THEN 2 ELSE 0
      BY <2>3, Zenon DEF WhenDisconnected
    <3>2. (IF AutoConnect THEN 2 ELSE 0) \in 0 .. 2
      OBVIOUS
    <3>3. QED
      BY <3>1, <3>2, <2>1, <2>2, Zenon DEF ConnectMeter
  <2>4. CASE WhenConnected
    <3>1. \/ DisconnectMeter(TRUE) \/ DisconnectMeter(FALSE)
          \/ LeaveContact /\ RelayStatus' = RelayStatus
      BY <2>4, Zenon DEF WhenConnected, DisconnectOnCommand, DisconnectOnTrip, StayConnected
    <3>2. QED
      BY <3>1, <2>1, <2>2, Zenon DEF DisconnectMeter, TypeOK
  <2>5. CASE WhenReady
    <3>1. \/ ConnectMeter(FALSE) \/ DisconnectMeter(FALSE)
          \/ LeaveContact /\ RelayStatus' = RelayStatus
      BY <2>5, Zenon DEF WhenReady, ConnectAutomatically, CountDown, DisconnectAgain,
                         StayReady
    <3>2. QED
      BY <3>1, <2>1, <2>2, Zenon DEF ConnectMeter, DisconnectMeter, TypeOK
  <2>6. QED
    BY <2>3, <2>4, <2>5 DEF UpdateRelayStatus
<1>2. /\ AutoConnect' \in BOOLEAN
      /\ command' \in {"none", "connect", "disconnect"}
      /\ disconnect_verified' \in BOOLEAN
      /\ start_connect_timeout' \in BOOLEAN
      /\ LowTariff' \in BOOLEAN
  <2>1. CASE WhenDisconnected
    BY <2>1 DEF TypeOK, WhenDisconnected
  <2>2. CASE WhenConnected
    BY <2>2 DEF TypeOK, WhenConnected, DisconnectOnCommand, DisconnectOnTrip, StayConnected
  <2>3. CASE WhenReady
    BY <2>3 DEF TypeOK, WhenReady, CheckTariff, ConnectAutomatically, CountDown,
                DisconnectAgain, StayReady
  <2>4. QED
    BY <2>1, <2>2, <2>3 DEF UpdateRelayStatus
<1>3. connect_counter' \in 0 .. TimerRange - 1
  <2>1. connect_counter' = connect_counter \/ connect_counter' = 0
    BY DEF UpdateRelayStatus, WhenDisconnected, WhenConnected, WhenReady,
           ConnectAutomatically, CountDown, DisconnectAgain, StayReady
  <2>2. QED
    BY <2>1, DurationsFitTimers DEF TypeOK
<1>4. QED
  BY <1>1, <1>2, <1>3 DEF TypeOK, UpdateRelayStatus

\* The timers run over at TimerRange and stay in their range.
LEMMA ActivitiesTypeCorrect ==
  ASSUME TypeOK, per_second_activity
  PROVE  TypeOK'
<1>1. timer' \in [Trips -> 0 .. TimerRange - 1]
  <2>1. ASSUME NEW l \in Trips PROVE TimerAfter(l) \in 0 .. TimerRange - 1
    <3>1. timer[l] \in 0 .. TimerRange - 1
      BY DEF TypeOK
    <3>2. QED
      BY <3>1, DurationsFitTimers DEF TimerAfter
  <2>2. QED
    BY <2>1, Zenon DEF per_second_activity
<1>2. over' \in [Trips -> 0 .. TripDuration]
  <2>1. ASSUME NEW l \in Trips
        PROVE  (IF l \in exceeded THEN UpTo(TripDuration, over[l] + 1) ELSE 0)
                 \in 0 .. TripDuration
    <3>1. over[l] \in 0 .. TripDuration
      BY DEF TypeOK
    <3>2. QED
      BY <3>1, DurationsFitTimers DEF UpTo
  <2>2. QED
    BY <2>1, Zenon DEF per_second_activity
<1>3. timedOut' \in SUBSET Trips
  BY DEF per_second_activity
<1>4. connect_counter' \in 0 .. TimerRange - 1
  BY DurationsFitTimers DEF TypeOK, per_second_activity
<1>5. openFor' \in 0 .. connect_timeout
  BY DurationsFitTimers DEF TypeOK, per_second_activity, UpTo
<1>6. QED
  BY <1>1, <1>2, <1>3, <1>4, <1>5 DEF TypeOK, per_second_activity

\* A restart takes what the EEPROM holds and clears the rest.
LEMMA RestartTypeCorrect ==
  ASSUME TypeOK, Restart
  PROVE  TypeOK'
<1>1. timer' \in [Trips -> 0 .. TimerRange - 1] /\ over' \in [Trips -> 0 .. TripDuration]
  BY DurationsFitTimers, SMT DEF Restart
<1>2. /\ connect_counter' \in 0 .. TimerRange - 1 /\ openFor' \in 0 .. connect_timeout
      /\ RelayStatus' \in 0 .. 2
  BY DurationsFitTimers DEF TypeOK, Restart, InitRelay
<1>3. /\ AutoConnect' \in BOOLEAN /\ disconnect_verified' \in BOOLEAN
      /\ closed' \in BOOLEAN /\ faulty' \in BOOLEAN
  BY DEF TypeOK, Restart, InitRelay
<1>4. QED
  BY <1>1, <1>2, <1>3 DEF TypeOK, Restart

\* Every step keeps the types.
LEMMA StepTypeCorrect == TypeOK /\ [Next]_vars => TypeOK'
<1> SUFFICES ASSUME TypeOK, [Next]_vars PROVE TypeOK'
  OBVIOUS
<1>1. CASE UpdateRelayStatus
  BY <1>1, UpdateTypeCorrect
<1>2. CASE setRelayStatus
  <2>1. saved' \in {"connected", "disconnected"} /\ barred' \in BOOLEAN
    BY <1>2 DEF TypeOK, setRelayStatus
  <2>2. QED
    BY <1>2, <2>1 DEF TypeOK, setRelayStatus
<1>3. CASE per_second_activity
  BY <1>3, ActivitiesTypeCorrect
<1>4. CASE performPowerQualityMessurement
  BY <1>4 DEF TypeOK, performPowerQualityMessurement
<1>5. CASE BalanceChanges
  BY <1>5 DEF TypeOK, BalanceChanges, CheckTariff
<1>6. CASE TimeSlotChanges
  BY <1>6 DEF TypeOK, TimeSlotChanges
<1>7. CASE remote_disconnect
  BY <1>7 DEF TypeOK, remote_disconnect
<1>8. CASE remote_reconnect
  BY <1>8 DEF TypeOK, remote_reconnect
<1>9. CASE Restart
  BY <1>9, RestartTypeCorrect
<1>10. CASE UNCHANGED vars
  BY <1>10 DEF TypeOK, vars
<1>11. QED
  BY <1>1, <1>2, <1>3, <1>4, <1>5, <1>6, <1>7, <1>8, <1>9, <1>10 DEF Next, Second

(* Every variable always has its type.                                    *)
THEOREM RelayTypeCorrect == Spec => []TypeOK
<1>1. QED
  BY InitTypeCorrect, StepTypeCorrect, PTL DEF Spec

-----------------------------------------------------------------------------
(* A disconnection by command lasts.  What holds it is that the relay      *)
(* stays disconnected and not allowed to close by itself, and that a       *)
(* restart finds the command in the EEPROM; what has to be known before is *)
(* that the contact is open when the command is about to be saved.         *)
Held ==
  barred /\ ~faulty =>
    /\ saved = "disconnected"
    /\ RelayStatus = 0
    /\ ~AutoConnect
    /\ ~closed
    /\ command # "connect"
    /\ pc # "save"

Saving ==
  pc = "save" /\ RelayStatus = 0 => ~closed /\ ~AutoConnect /\ command = "none"

HoldInv == TypeOK /\ Held /\ Saving

\* An update of the relay does not close a contact that a command has opened.
LEMMA UpdateHolds ==
  ASSUME HoldInv, UpdateRelayStatus
  PROVE  Held' /\ Saving'
<1>1. Held'
  <2> SUFFICES ASSUME barred', ~faulty'
               PROVE  /\ saved' = "disconnected" /\ RelayStatus' = 0 /\ ~AutoConnect'
                      /\ ~closed' /\ command' # "connect" /\ pc' # "save"
    BY DEF Held
  <2>1. barred /\ ~faulty /\ saved' = saved
    BY DEF UpdateRelayStatus
  <2>2. /\ saved = "disconnected" /\ RelayStatus = 0 /\ ~AutoConnect /\ ~closed
        /\ command # "connect"
    BY <2>1 DEF HoldInv, Held
  <2>3. WhenDisconnected
    BY <2>2 DEF UpdateRelayStatus, WhenConnected, WhenReady
  <2>4. /\ LeaveContact /\ command' = command /\ AutoConnect' = AutoConnect
        /\ RelayStatus' = IF AutoConnect THEN 2 ELSE 0
    BY <2>2, <2>3, Zenon DEF WhenDisconnected
  <2>5. RelayStatus' = 0
    BY <2>2, <2>4
  <2>6. pc' # "save" /\ closed' = closed
    BY <2>4 DEF LeaveContact
  <2>7. QED
    BY <2>1, <2>2, <2>4, <2>5, <2>6, Zenon
<1>2. Saving'
  <2> SUFFICES ASSUME pc' = "save", RelayStatus' = 0
               PROVE  ~closed' /\ ~AutoConnect' /\ command' = "none"
    BY DEF Saving
  <2>1. ~LeaveContact
    BY DEF LeaveContact
  <2>2. ASSUME NEW by_command PROVE ~ConnectMeter(by_command)
    BY DEF ConnectMeter, MoveContact
  <2>3. ~DisconnectMeter(FALSE)
    BY DEF DisconnectMeter, MoveContact
  <2>4. ~WhenDisconnected
    BY <2>1, <2>2, Zenon DEF WhenDisconnected
  <2>5. ~WhenReady
    BY <2>1, <2>2, <2>3
       DEF WhenReady, ConnectAutomatically, CountDown, DisconnectAgain, StayReady
  <2>6. ~DisconnectOnTrip /\ ~StayConnected
    BY <2>1, <2>3 DEF DisconnectOnTrip, StayConnected
  <2>7. DisconnectOnCommand
    BY <2>4, <2>5, <2>6 DEF UpdateRelayStatus, WhenConnected
  <2>8. QED
    BY <2>7 DEF DisconnectOnCommand, DisconnectMeter, MoveContact
<1>3. QED
  BY <1>1, <1>2

\* A restart finds a saved disconnection and takes the permission away again.
LEMMA RestartHolds ==
  ASSUME HoldInv, Restart
  PROVE  Held' /\ Saving'
<1>1. Saving'
  BY DEF Saving, Restart
<1>2. Held'
  <2> SUFFICES ASSUME barred', ~faulty'
               PROVE  /\ saved' = "disconnected" /\ RelayStatus' = 0 /\ ~AutoConnect'
                      /\ ~closed' /\ command' # "connect" /\ pc' # "save"
    BY DEF Held
  <2>1. barred /\ saved' = saved /\ command' = "none" /\ pc' = "loop" /\ RelayStatus' = 0
    BY DEF Restart, InitRelay
  <2>2. ~faulty
    BY DEF Restart, InitRelay
  <2>3. saved = "disconnected"
    BY <2>1, <2>2 DEF HoldInv, Held
  <2>4. closed' = FALSE /\ AutoConnect' = FALSE
    BY <2>3 DEF Restart, InitRelay
  <2>5. QED
    BY <2>1, <2>3, <2>4
<1>3. QED
  BY <1>1, <1>2

\* Every step keeps a saved disconnection.
LEMMA StepHolds == HoldInv /\ [Next]_vars => Held' /\ Saving'
<1> SUFFICES ASSUME HoldInv, [Next]_vars PROVE Held' /\ Saving'
  OBVIOUS
<1>1. CASE UpdateRelayStatus
  BY <1>1, UpdateHolds
<1>2. CASE setRelayStatus
  <2>1. Saving'
    BY <1>2 DEF setRelayStatus, Saving
  <2>2. /\ UNCHANGED <<RelayStatus, AutoConnect, command, closed, faulty>>
        /\ pc = "save" /\ pc' = "activities"
    BY <1>2 DEF setRelayStatus
  <2>3. CASE saved' = saved /\ barred' = barred
    BY <2>1, <2>2, <2>3 DEF HoldInv, Held
  <2>4. CASE /\ saved' = IF RelayStatus = 1 THEN "connected" ELSE "disconnected"
             /\ barred' = (RelayStatus = 0)
    <3>1. CASE RelayStatus = 0
      <4>1. ~closed /\ ~AutoConnect /\ command = "none"
        BY <2>2, <3>1 DEF HoldInv, Saving
      <4>2. saved' = "disconnected"
        BY <2>4, <3>1
      <4>3. QED
        BY <2>1, <2>2, <3>1, <4>1, <4>2 DEF Held
    <3>2. CASE RelayStatus # 0
      <4>1. ~barred'
        BY <2>4, <3>2, Zenon
      <4>2. QED
        BY <2>1, <4>1 DEF Held
    <3>3. QED
      BY <3>1, <3>2
  <2>5. QED
    BY <1>2, <2>3, <2>4, Zenon DEF setRelayStatus
<1>3. CASE per_second_activity
  BY <1>3 DEF HoldInv, Held, Saving, per_second_activity
<1>4. CASE performPowerQualityMessurement
  BY <1>4 DEF HoldInv, Held, Saving, performPowerQualityMessurement
<1>5. CASE BalanceChanges
  BY <1>5 DEF HoldInv, Held, Saving, BalanceChanges
<1>6. CASE TimeSlotChanges
  BY <1>6 DEF HoldInv, Held, Saving, TimeSlotChanges
<1>7. CASE remote_disconnect
  BY <1>7 DEF HoldInv, Held, Saving, remote_disconnect
<1>8. CASE remote_reconnect
  BY <1>8 DEF HoldInv, Held, Saving, remote_reconnect
<1>9. CASE Restart
  BY <1>9, RestartHolds
<1>10. CASE UNCHANGED vars
  BY <1>10 DEF HoldInv, Held, Saving, vars
<1>11. QED
  BY <1>1, <1>2, <1>3, <1>4, <1>5, <1>6, <1>7, <1>8, <1>9, <1>10 DEF Next, Second

(* A saved disconnection by command lasts until a client calls it off or  *)
(* the EEPROM cannot be read.                                             *)
THEOREM DisconnectionHolds == Spec => []DisconnectionLasts
<1>1. Init => Held /\ Saving
  BY DEF Init, Held, Saving
<1>2. HoldInv => DisconnectionLasts
  BY DEF HoldInv, Held, DisconnectionLasts
<1>3. TypeOK /\ Held /\ Saving <=> HoldInv
  BY DEF HoldInv
<1>4. QED
  BY <1>1, <1>2, <1>3, InitTypeCorrect, StepTypeCorrect, StepHolds, PTL DEF Spec

-----------------------------------------------------------------------------
(* The countdown.  A connected relay is closed and does not count; the     *)
(* counter has never counted more seconds than the contact has been open,  *)
(* unless that has been long enough.                                       *)
CounterAgrees ==
  /\ RelayStatus # 2 => ~start_connect_timeout
  /\ ~start_connect_timeout => connect_counter = 0
  /\ RelayStatus = 1 => closed
  /\ ~closed => connect_counter <= openFor \/ openFor = connect_timeout

\* An update counts, if at all, a second that the contact has been open.
LEMMA UpdateCounts ==
  ASSUME TypeOK, CounterAgrees, UpdateRelayStatus
  PROVE  CounterAgrees'
<1>1. openFor' = openFor
  BY DEF UpdateRelayStatus
<1>2. CASE WhenDisconnected
  <2>1. UNCHANGED <<start_connect_timeout, connect_counter>> /\ RelayStatus = 0
    BY <1>2 DEF WhenDisconnected
  <2>2. ~start_connect_timeout /\ connect_counter = 0
    BY <2>1 DEF CounterAgrees
  <2>3. RelayStatus' = 1 => closed'
    BY <1>2 DEF WhenDisconnected, ConnectMeter, MoveContact, LeaveContact
  <2>4. QED
    BY <1>1, <2>1, <2>2, <2>3 DEF CounterAgrees, TypeOK
<1>3. CASE WhenConnected
  <2>1. UNCHANGED <<start_connect_timeout, connect_counter>> /\ RelayStatus = 1
    BY <1>3 DEF WhenConnected
  <2>2. ~start_connect_timeout /\ connect_counter = 0 /\ closed
    BY <2>1 DEF CounterAgrees
  <2>3. RelayStatus' = 1 => closed'
    <3>1. CASE DisconnectMeter(TRUE) \/ DisconnectMeter(FALSE)
      BY <3>1 DEF DisconnectMeter, MoveContact
    <3>2. CASE LeaveContact
      BY <2>2, <3>2 DEF LeaveContact
    <3>3. QED
      BY <1>3, <3>1, <3>2, Zenon
         DEF WhenConnected, DisconnectOnCommand, DisconnectOnTrip, StayConnected
  <2>4. QED
    BY <1>1, <2>1, <2>2, <2>3 DEF CounterAgrees, TypeOK
<1>4. CASE WhenReady
  <2>1. CASE ConnectAutomatically
    BY <2>1 DEF CounterAgrees, ConnectAutomatically, ConnectMeter, MoveContact
  <2>2. CASE CountDown
    BY <1>1, <1>4, <2>2 DEF CounterAgrees, CountDown, LeaveContact, WhenReady
  <2>3. CASE DisconnectAgain
    BY <1>1, <2>3 DEF CounterAgrees, DisconnectAgain, DisconnectMeter, MoveContact, TypeOK
  <2>4. CASE StayReady
    BY <1>1, <1>4, <2>4 DEF CounterAgrees, StayReady, LeaveContact, WhenReady
  <2>5. QED
    BY <1>4, <2>1, <2>2, <2>3, <2>4 DEF WhenReady
<1>5. QED
  BY <1>2, <1>3, <1>4 DEF UpdateRelayStatus

\* The counter and the age of an open contact go on together.
LEMMA ActivitiesCount ==
  ASSUME TypeOK, CounterAgrees, per_second_activity
  PROVE  CounterAgrees'
<1>1. UNCHANGED <<RelayStatus, start_connect_timeout, closed>>
  BY DEF per_second_activity
<1>2. ~start_connect_timeout => connect_counter' = 0
  BY DEF CounterAgrees, per_second_activity
<1>3. connect_counter' <= connect_counter + 1 /\ connect_counter' \in Nat
  <2>1. connect_counter \in Nat /\ (connect_counter + 1) % TimerRange <= connect_counter + 1
    BY DurationsFitTimers DEF TypeOK
  <2>2. (connect_counter + 1) % TimerRange \in Nat
    BY DurationsFitTimers DEF TypeOK
  <2>3. QED
    BY <2>1, <2>2 DEF per_second_activity
<1>4. ASSUME ~closed PROVE connect_counter' <= openFor' \/ openFor' = connect_timeout
  <2>1. openFor' = UpTo(connect_timeout, openFor + 1)
    BY <1>4 DEF per_second_activity
  <2>2. connect_counter <= openFor \/ openFor = connect_timeout
    BY <1>4 DEF CounterAgrees
  <2>3. openFor \in Nat /\ openFor <= connect_timeout /\ connect_counter \in Nat
        /\ connect_timeout \in Nat
    BY DurationsFitTimers DEF TypeOK
  <2>4. QED
    BY <1>3, <2>1, <2>2, <2>3 DEF UpTo
<1>5. QED
  BY <1>1, <1>2, <1>4 DEF CounterAgrees

\* Every step keeps the counter behind the age.
LEMMA StepCounts == TypeOK /\ CounterAgrees /\ [Next]_vars => CounterAgrees'
<1> SUFFICES ASSUME TypeOK, CounterAgrees, [Next]_vars PROVE CounterAgrees'
  OBVIOUS
<1>1. CASE UpdateRelayStatus
  BY <1>1, UpdateCounts
<1>2. CASE per_second_activity
  BY <1>2, ActivitiesCount
<1>3. CASE Restart
  <2>1. /\ RelayStatus' = 0 /\ start_connect_timeout' = FALSE /\ connect_counter' = 0
        /\ openFor' = 0 \/ openFor' = openFor
    BY <1>3 DEF Restart, InitRelay
  <2>2. QED
    BY <2>1 DEF CounterAgrees, TypeOK
<1>4. CASE UNCHANGED <<RelayStatus, start_connect_timeout, connect_counter, closed, openFor>>
  BY <1>4 DEF CounterAgrees
<1>5. QED
  BY <1>1, <1>2, <1>3, <1>4
     DEF Next, Second, setRelayStatus, performPowerQualityMessurement, BalanceChanges,
         TimeSlotChanges, remote_disconnect, remote_reconnect, vars

(* A relay never closes by itself before it has been open for             *)
(* connect_timeout seconds.                                               *)
THEOREM ClosesOnlyAfterDelay == Spec => ClosesAfterDelay
<1>1. Init => CounterAgrees
  BY DEF Init, CounterAgrees
<1>2. ASSUME TypeOK, CounterAgrees, [Next]_vars
      PROVE  [RelayStatus = 2 /\ ~closed /\ closed' => openFor >= connect_timeout]_vars
  <2> SUFFICES ASSUME Next, RelayStatus = 2, ~closed, closed'
               PROVE  openFor >= connect_timeout
    BY <1>2 DEF vars
  <2>1. WhenReady
    <3>1. closed' # closed
      OBVIOUS
    <3>2. ~Restart
      BY DEF Restart, InitRelay
    <3>3. UpdateRelayStatus
      BY <3>1, <3>2, Zenon
         DEF Next, Second, setRelayStatus, per_second_activity,
             performPowerQualityMessurement, BalanceChanges, TimeSlotChanges,
             remote_disconnect, remote_reconnect
    <3>4. QED
      BY <3>3 DEF UpdateRelayStatus, WhenDisconnected, WhenConnected
  <2>2. ConnectAutomatically
    BY <2>1 DEF WhenReady, CountDown, DisconnectAgain, StayReady, DisconnectMeter,
                MoveContact, LeaveContact
  <2>3. connect_counter >= connect_timeout
    BY <2>2 DEF ConnectAutomatically
  <2>4. QED
    BY <1>2, <2>3, DurationsFitTimers DEF CounterAgrees, TypeOK
<1>3. QED
  BY <1>1, <1>2, InitTypeCorrect, StepTypeCorrect, StepCounts, PTL DEF Spec, ClosesAfterDelay

-----------------------------------------------------------------------------
(* The trips.  A limit is timed out when it has been exceeded for          *)
(* TripDuration seconds; until then its timer holds these seconds, and has *)
(* not run over.                                                           *)
TimersAgree ==
  /\ timedOut = {l \in Trips : over[l] >= TripDuration}
  /\ \A l \in Trips : over[l] < TripDuration => timer[l] = over[l]

\* A second advances the timer and the history of each limit alike.
LEMMA ActivitiesTime ==
  ASSUME TypeOK, TimersAgree, per_second_activity
  PROVE  TimersAgree'
<1>1. ASSUME NEW l \in Trips
      PROVE  /\ l \in timedOut' <=> over'[l] >= TripDuration
             /\ over'[l] < TripDuration => timer'[l] = over'[l]
  <2>1. timer'[l] = TimerAfter(l)
    BY DEF per_second_activity
  <2>2. over'[l] = IF l \in exceeded THEN UpTo(TripDuration, over[l] + 1) ELSE 0
    BY DEF per_second_activity
  <2>3. l \in timedOut' <=> l \in exceeded /\ TimesOut(l)
    BY DEF per_second_activity
  <2>4. timer[l] \in 0 .. TimerRange - 1 /\ over[l] \in 0 .. TripDuration
    BY DEF TypeOK
  <2>5. /\ l \in timedOut <=> over[l] >= TripDuration
        /\ over[l] < TripDuration => timer[l] = over[l]
    BY DEF TimersAgree
  <2>6. CASE l \notin exceeded
    BY <2>1, <2>2, <2>3, <2>6, DurationsFitTimers DEF TimerAfter
  <2>7. CASE l \in exceeded /\ over[l] >= TripDuration
    <3>1. over'[l] = TripDuration /\ l \in timedOut'
      BY <2>2, <2>3, <2>4, <2>5, <2>7, DurationsFitTimers DEF UpTo, TimesOut
    <3>2. QED
      BY <3>1, DurationsFitTimers
  <2>8. CASE l \in exceeded /\ over[l] < TripDuration
    <3>1. over'[l] = over[l] + 1 /\ TimerAfter(l) = over[l] + 1
      <4>1. over[l] + 1 \in 0 .. TimerRange - 1
        BY <2>4, <2>8, DurationsFitTimers
      <4>2. (over[l] + 1) % TimerRange = over[l] + 1
        BY <4>1, DurationsFitTimers
      <4>3. TimerAfter(l) = (over[l] + 1) % TimerRange
        BY <2>5, <2>8 DEF TimerAfter
      <4>4. over'[l] = UpTo(TripDuration, over[l] + 1)
        BY <2>2, <2>8
      <4>5. UpTo(TripDuration, over[l] + 1) = over[l] + 1
        BY <2>4, <2>8, DurationsFitTimers DEF UpTo
      <4>6. QED
        BY <4>2, <4>3, <4>4, <4>5
    <3>2. l \in timedOut' <=> over[l] + 1 >= TripDuration
      <4>1. l \notin timedOut
        BY <2>4, <2>5, <2>8, DurationsFitTimers
      <4>2. TimesOut(l) <=> over[l] + 1 >= TripDuration
        BY <3>1, <4>1 DEF TimesOut
      <4>3. QED
        BY <2>3, <2>8, <4>2, Zenon
    <3>3. QED
      BY <2>1, <3>1, <3>2
  <2>9. QED
    BY <2>4, <2>6, <2>7, <2>8, DurationsFitTimers
<1>2. timedOut' \subseteq Trips
  BY DEF per_second_activity
<1>3. QED
  BY <1>1, <1>2 DEF TimersAgree

\* Every step keeps timers and history together.
LEMMA StepTimes == TypeOK /\ TimersAgree /\ [Next]_vars => TimersAgree'
<1> SUFFICES ASSUME TypeOK, TimersAgree, [Next]_vars PROVE TimersAgree'
  OBVIOUS
<1>1. CASE per_second_activity
  BY <1>1, ActivitiesTime
<1>2. CASE Restart
  BY <1>2, DurationsFitTimers DEF TimersAgree, Restart
<1>3. CASE UNCHANGED <<timer, timedOut, over>>
  BY <1>3 DEF TimersAgree
<1>4. QED
  BY <1>1, <1>2, <1>3
     DEF Next, Second, UpdateRelayStatus, setRelayStatus, performPowerQualityMessurement,
         BalanceChanges, TimeSlotChanges, remote_disconnect, remote_reconnect, vars

(* A connected relay opens in the very second after a limit has been      *)
(* exceeded for TripDuration seconds on end, and never before.            *)
THEOREM TripsExactlyOnTime == Spec => TripsOnTime
<1>1. Init => CounterAgrees /\ TimersAgree
  BY DurationsFitTimers DEF Init, CounterAgrees, TimersAgree
<1>2. ASSUME CounterAgrees, TimersAgree, [Next]_vars
      PROVE  [pc = "loop" /\ pc' # "loop" /\ RelayStatus = 1 /\ command # "disconnect"
                /\ ~LowTariff
                => (~closed' <=> \E l \in Trips : over[l] >= TripDuration)]_vars
  <2> SUFFICES ASSUME Next, pc = "loop", pc' # "loop", RelayStatus = 1,
                      command # "disconnect", ~LowTariff
               PROVE  ~closed' <=> \E l \in Trips : over[l] >= TripDuration
    BY <1>2 DEF vars
  <2>1. WhenConnected
    BY DEF Next, Second, UpdateRelayStatus, WhenDisconnected, WhenReady, setRelayStatus,
           per_second_activity, performPowerQualityMessurement, BalanceChanges,
           TimeSlotChanges, remote_disconnect, remote_reconnect, Restart
  <2>2. timedOut # {} <=> \E l \in Trips : over[l] >= TripDuration
    BY <1>2 DEF TimersAgree
  <2>3. closed
    BY <1>2 DEF CounterAgrees
  <2>4. CASE timedOut = {}
    <3>1. StayConnected
      BY <2>1, <2>4 DEF WhenConnected, DisconnectOnCommand, DisconnectOnTrip
    <3>2. closed'
      BY <2>3, <3>1 DEF StayConnected, LeaveContact
    <3>3. QED
      BY <2>2, <2>4, <3>2, Zenon
  <2>5. CASE timedOut # {}
    <3>1. DisconnectOnTrip
      BY <2>1, <2>5 DEF WhenConnected, DisconnectOnCommand, StayConnected
    <3>2. ~closed'
      BY <3>1 DEF DisconnectOnTrip, DisconnectMeter, MoveContact
    <3>3. QED
      BY <2>2, <2>5, <3>2, Zenon
  <2>6. QED
    BY <2>4, <2>5
<1>3. QED
  BY <1>1, <1>2, InitTypeCorrect, StepTypeCorrect, StepCounts, StepTimes, PTL
     DEF Spec, TripsOnTime
=============================================================================
