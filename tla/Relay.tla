------------------------------- MODULE Relay -------------------------------
(***************************************************************************)
(* The relay of the SM502 meter: a latching contact that the main program  *)
(* opens and closes once a second (per_second_activity), by command of a   *)
(* client, for lack of credit, or because a limit was exceeded too long.   *)
(*                                                                         *)
(* The contact keeps its position without supply; what the main program    *)
(* knows about it (RelayStatus, AutoConnect) is lost, but for the last     *)
(* command, which is saved in EEPROM after the contact has moved.          *)
(*                                                                         *)
(* A second is an update of the relay, the save a command asks for, and    *)
(* the timers.  Measurements, billing and client calls come in between.    *)
(***************************************************************************)
EXTENDS Naturals

CONSTANTS
  Trips,            \* timed limits that open the relay (over-current, over-voltage)
  Blocks,           \* limits that only keep it open (active power)
  LoadLimits,       \* limits that can be exceeded only while a load is connected
  TripDuration,     \* seconds (OverCurrentTripDuration, over_voltage_trip_duration)
  TimerRange,       \* 2^8: the trip timers and connect_counter are uint8_t
  connect_timeout   \* seconds before the relay closes by itself

ASSUME DurationsFitTimers ==
  /\ TimerRange \in Nat
  /\ TripDuration \in 1 .. TimerRange - 1
  /\ connect_timeout \in 1 .. TimerRange - 1

Limits == Trips \union Blocks

VARIABLES
  RelayStatus,            \* 0 disconnected, 1 connected, 2 ready to connect
  AutoConnect,            \* may the relay close without a command?
  command,                \* ConnectCommandRecived and DisconnectCommandRecived
  disconnect_verified,    \* the relay has been opened again since it was ready
  start_connect_timeout,  \* does connect_counter count?
  connect_counter,
  exceeded,               \* limits whose status bit is set
  timer,                  \* seconds a limit has been exceeded, modulo TimerRange
  timedOut,               \* limits whose ...TimedOutStatus is set
  LowTariff,              \* status.LowTariff
  enough,                 \* the balance covers the charge of the present time slot
  billingSchema,          \* "pre_paid" or "post_paid"
  saved,                  \* the EEPROM's relay status: that of the last command
  closed,                 \* the contact (external)
  pc,                     \* where the main program is
  over,                   \* history: seconds a limit has been exceeded, at most TripDuration
  openFor,                \* history: seconds the contact has been open, at most connect_timeout
  barred,                 \* history: a disconnection by command is saved, none has called it off
  faulty                  \* history: the relay status could not be read at a boot

settings == <<AutoConnect, disconnect_verified, start_connect_timeout, connect_counter>>
measured == <<exceeded, timer, timedOut, over>>
credit   == <<LowTariff, enough, billingSchema>>
vars     == <<RelayStatus, command, settings, measured, credit, saved, closed, pc,
              openFor, barred, faulty>>

-----------------------------------------------------------------------------
(* After the first boot the relay is connected.                           *)
Init ==
  /\ RelayStatus = 1
  /\ AutoConnect = TRUE
  /\ command = "none"
  /\ disconnect_verified = FALSE
  /\ start_connect_timeout = FALSE
  /\ connect_counter = 0
  /\ exceeded = {}
  /\ timer = [l \in Trips |-> 0]
  /\ timedOut = {}
  /\ LowTariff = FALSE
  /\ enough = TRUE
  /\ billingSchema \in {"pre_paid", "post_paid"}
  /\ saved = "connected"
  /\ closed = TRUE
  /\ pc = "loop"
  /\ over = [l \in Trips |-> 0]
  /\ openFor = 0
  /\ barred = FALSE
  /\ faulty = FALSE

-----------------------------------------------------------------------------
(* What happens between two seconds.                                      *)

(* Without a load neither current nor power is measured.                  *)
performPowerQualityMessurement ==
  /\ pc = "loop"
  /\ exceeded' \in SUBSET Limits
  /\ ~closed => exceeded' \cap LoadLimits = {}
  /\ UNCHANGED <<RelayStatus, command, settings, timer, timedOut, over, credit, saved,
                 closed, pc, openFor, barred, faulty>>

(* CheckTariff returns 0: status.LowTariff is set from what it finds.     *)
TariffAllows == billingSchema = "pre_paid" /\ enough
CheckTariff(covered) == LowTariff' = (billingSchema = "pre_paid" /\ ~covered)

(* A kWh is charged, or a client changes the balance.                     *)
BalanceChanges ==
  /\ pc = "loop"
  /\ enough' \in BOOLEAN
  /\ CheckTariff(enough')
  /\ UNCHANGED <<RelayStatus, command, settings, measured, billingSchema, saved,
                 closed, pc, openFor, barred, faulty>>

(* Another time slot has another rate; nobody looks at the balance then.  *)
TimeSlotChanges ==
  /\ pc = "loop"
  /\ enough' \in BOOLEAN
  /\ UNCHANGED <<RelayStatus, command, settings, measured, LowTariff, billingSchema,
                 saved, closed, pc, openFor, barred, faulty>>

(* Each of the two methods takes back the other one's command.            *)
remote_disconnect ==
  /\ pc = "loop"
  /\ command' = "disconnect"
  /\ UNCHANGED <<RelayStatus, settings, measured, credit, saved, closed, pc, openFor,
                 barred, faulty>>

remote_reconnect ==
  /\ pc = "loop"
  /\ command' = "connect"
  /\ barred' = FALSE
  /\ UNCHANGED <<RelayStatus, settings, measured, credit, saved, closed, pc, openFor,
                 faulty>>

-----------------------------------------------------------------------------
(* UpdateRelayStatus.                                                     *)

(* Only a command's status is saved, after the contact has moved and the  *)
(* event has been logged.                                                 *)
MoveContact(position, by_command) ==
  /\ closed' = position
  /\ RelayStatus' = IF position THEN 1 ELSE 0
  /\ pc' = IF by_command THEN "save" ELSE "activities"

ConnectMeter(by_command)    == MoveContact(TRUE, by_command)
DisconnectMeter(by_command) == MoveContact(FALSE, by_command)

LeaveContact ==
  /\ pc' = "activities"
  /\ UNCHANGED closed

(* Disconnected: a command connects, whatever the limits say.             *)
WhenDisconnected ==
  /\ RelayStatus = 0
  /\ \/ /\ command = "connect"
        /\ ConnectMeter(TRUE)
        /\ command' = "none"
        /\ AutoConnect' = TRUE
     \/ /\ command # "connect"
        /\ LeaveContact
        /\ RelayStatus' = IF AutoConnect THEN 2 ELSE 0
        /\ UNCHANGED <<command, AutoConnect>>
  /\ UNCHANGED <<disconnect_verified, start_connect_timeout, connect_counter, LowTariff>>

(* Faulty variant: a command leaves AutoConnect as it is.                 *)
DisconnectKeepsAutoConnect ==
  /\ command = "disconnect"
  /\ DisconnectMeter(TRUE)
  /\ command' = "none"
  /\ UNCHANGED AutoConnect

(* Connected: IsDisconnectRequired, which puts a command first.           *)
DisconnectOnCommand ==
  /\ command = "disconnect"
  /\ DisconnectMeter(TRUE)
  /\ command' = "none"
  /\ AutoConnect' = FALSE

DisconnectOnTrip ==
  /\ command # "disconnect"
  /\ LowTariff \/ timedOut # {}
  /\ DisconnectMeter(FALSE)
  /\ command' = "none"
  /\ AutoConnect' = TRUE

StayConnected ==
  /\ command # "disconnect" /\ ~LowTariff /\ timedOut = {}
  /\ LeaveContact
  /\ UNCHANGED <<RelayStatus, AutoConnect, command>>

WhenConnected ==
  /\ RelayStatus = 1
  /\ DisconnectOnCommand \/ DisconnectOnTrip \/ StayConnected
  /\ UNCHANGED <<disconnect_verified, start_connect_timeout, connect_counter, LowTariff>>

(* Ready to connect: after connect_timeout seconds, which begin when      *)
(* nothing stands against it.  If something does the relay is opened      *)
(* again, once.                                                           *)
CheckConnectionIsEnabled == TariffAllows /\ exceeded = {}

(* Faulty variant: the next countdown begins where this one has ended.    *)
ConnectKeepsCounter ==
  /\ CheckConnectionIsEnabled /\ connect_counter >= connect_timeout
  /\ ConnectMeter(FALSE)
  /\ start_connect_timeout' = FALSE
  /\ disconnect_verified' = FALSE
  /\ UNCHANGED connect_counter

ConnectAutomatically ==
  /\ CheckConnectionIsEnabled /\ connect_counter >= connect_timeout
  /\ ConnectMeter(FALSE)
  /\ connect_counter' = 0
  /\ start_connect_timeout' = FALSE
  /\ disconnect_verified' = FALSE

(* Faulty variant: the countdown begins anew every second.                *)
CountDownAnew ==
  /\ CheckConnectionIsEnabled /\ connect_counter < connect_timeout
  /\ LeaveContact
  /\ start_connect_timeout' = TRUE
  /\ connect_counter' = 0
  /\ UNCHANGED <<RelayStatus, disconnect_verified>>

CountDown ==
  /\ CheckConnectionIsEnabled /\ connect_counter < connect_timeout
  /\ LeaveContact
  /\ start_connect_timeout' = TRUE
  /\ UNCHANGED <<RelayStatus, connect_counter, disconnect_verified>>

DisconnectAgain ==
  /\ ~CheckConnectionIsEnabled /\ ~disconnect_verified
  /\ DisconnectMeter(FALSE)
  /\ start_connect_timeout' = FALSE
  /\ connect_counter' = 0
  /\ disconnect_verified' = TRUE

StayReady ==
  /\ ~CheckConnectionIsEnabled /\ disconnect_verified
  /\ LeaveContact
  /\ UNCHANGED <<RelayStatus, start_connect_timeout, connect_counter, disconnect_verified>>

WhenReady ==
  /\ RelayStatus = 2
  /\ CheckTariff(enough)
  /\ ConnectAutomatically \/ CountDown \/ DisconnectAgain \/ StayReady
  /\ UNCHANGED <<command, AutoConnect>>

UpdateRelayStatus ==
  /\ pc = "loop"
  /\ WhenDisconnected \/ WhenConnected \/ WhenReady
  /\ UNCHANGED <<measured, enough, billingSchema, saved, openFor, barred, faulty>>

(* setRelayStatus, whose result nobody looks at.                          *)
setRelayStatus ==
  /\ pc = "save"
  /\ \/ /\ saved' = IF RelayStatus = 1 THEN "connected" ELSE "disconnected"
        /\ barred' = (RelayStatus = 0)
     \/ UNCHANGED <<saved, barred>>
  /\ pc' = "activities"
  /\ UNCHANGED <<RelayStatus, command, settings, measured, credit, closed, openFor, faulty>>

(* The rest of per_second_activity: the trip timers and connect_counter.  *)
UpTo(max, n) == IF n < max THEN n ELSE max

TimerAfter(l) == IF l \in exceeded THEN (timer[l] + 1) % TimerRange ELSE 0

(* Faulty variant: off by one.                                            *)
TimesOutLate(l) == l \in timedOut \/ TimerAfter(l) > TripDuration

TimesOut(l) == l \in timedOut \/ TimerAfter(l) >= TripDuration

per_second_activity ==
  /\ pc = "activities"
  /\ timer' = [l \in Trips |-> TimerAfter(l)]
  /\ timedOut' = {l \in Trips \cap exceeded : TimesOut(l)}
  /\ connect_counter' = IF start_connect_timeout
                          THEN (connect_counter + 1) % TimerRange
                          ELSE connect_counter
  /\ over' = [l \in Trips |-> IF l \in exceeded THEN UpTo(TripDuration, over[l] + 1) ELSE 0]
  /\ openFor' = IF closed THEN 0 ELSE UpTo(connect_timeout, openFor + 1)
  /\ pc' = "loop"
  /\ UNCHANGED <<RelayStatus, command, AutoConnect, disconnect_verified,
                 start_connect_timeout, exceeded, credit, saved, closed, barred, faulty>>

-----------------------------------------------------------------------------
(* The supply fails or the meter is reset, at any point, and InitRelay    *)
(* runs: a commanded disconnection is repeated, anything else makes the   *)
(* relay ready to connect, as does a status that cannot be read.          *)
InitRelay ==
  /\ RelayStatus' = 0
  /\ \/ /\ saved = "disconnected"
        /\ closed' = FALSE
        /\ AutoConnect' = FALSE
        /\ disconnect_verified' = FALSE
        /\ UNCHANGED faulty
     \/ /\ saved = "connected"
        /\ AutoConnect' = TRUE
        /\ disconnect_verified' = TRUE
        /\ UNCHANGED <<closed, faulty>>
     \/ /\ AutoConnect' = TRUE
        /\ disconnect_verified' = FALSE
        /\ faulty' = TRUE
        /\ UNCHANGED closed

Restart ==
  /\ InitRelay
  /\ pc' = "loop"
  /\ command' = "none"
  /\ start_connect_timeout' = FALSE
  /\ connect_counter' = 0
  /\ exceeded' = {}
  /\ timer' = [l \in Trips |-> 0]
  /\ timedOut' = {}
  /\ LowTariff' = FALSE
  /\ over' = [l \in Trips |-> 0]
  /\ openFor' = IF closed THEN 0 ELSE openFor
  /\ UNCHANGED <<enough, billingSchema, saved, barred>>

-----------------------------------------------------------------------------
Second == UpdateRelayStatus \/ setRelayStatus \/ per_second_activity

Next ==
  \/ Second
  \/ performPowerQualityMessurement \/ BalanceChanges \/ TimeSlotChanges
  \/ remote_disconnect \/ remote_reconnect
  \/ Restart

(* SecondElapsed is set by the clock, and the main loop always returns to *)
(* it.                                                                    *)
Fairness == WF_vars(Second)

Spec == Init /\ [][Next]_vars /\ Fairness

-----------------------------------------------------------------------------
(* Properties.                                                            *)

(* Every variable has its type.                                           *)
TypeOK ==
  /\ RelayStatus \in 0 .. 2
  /\ AutoConnect \in BOOLEAN
  /\ command \in {"none", "connect", "disconnect"}
  /\ disconnect_verified \in BOOLEAN
  /\ start_connect_timeout \in BOOLEAN
  /\ connect_counter \in 0 .. TimerRange - 1
  /\ exceeded \in SUBSET Limits
  /\ timer \in [Trips -> 0 .. TimerRange - 1]
  /\ timedOut \in SUBSET Trips
  /\ LowTariff \in BOOLEAN
  /\ enough \in BOOLEAN
  /\ billingSchema \in {"pre_paid", "post_paid"}
  /\ saved \in {"connected", "disconnected"}
  /\ closed \in BOOLEAN
  /\ pc \in {"loop", "save", "activities"}
  /\ over \in [Trips -> 0 .. TripDuration]
  /\ openFor \in 0 .. connect_timeout
  /\ barred \in BOOLEAN
  /\ faulty \in BOOLEAN

(* A disconnection by command that has been saved lasts: over trips, lack *)
(* of credit and any number of restarts, until a client calls it off or   *)
(* the EEPROM cannot be read.                                             *)
DisconnectionLasts == barred /\ ~faulty => ~closed

(* A connected relay opens, unless by command or for lack of credit, in   *)
(* the very second after a limit has been exceeded for TripDuration       *)
(* seconds on end, and never before.                                      *)
TripsOnTime ==
  [][pc = "loop" /\ pc' # "loop" /\ RelayStatus = 1 /\ command # "disconnect" /\ ~LowTariff
       => (~closed' <=> \E l \in Trips : over[l] >= TripDuration)]_vars

(* A relay never closes by itself before it has been open for             *)
(* connect_timeout seconds, however often it opened and closed before.    *)
ClosesAfterDelay ==
  [][RelayStatus = 2 /\ ~closed /\ closed' => openFor >= connect_timeout]_vars

(* When nothing stands against it any more (no limit exceeded, credit in  *)
(* a prepayment meter, no command to disconnect), and neither restarts    *)
(* nor commands to reconnect come for ever, the relay ends up closed.     *)
NothingAgainst ==
  AutoConnect /\ command # "disconnect" /\ exceeded = {} /\ TariffAllows

ClosesInTheEnd ==
  []<><<Restart \/ remote_reconnect>>_vars \/ []<>~NothingAgainst \/ <>[]closed
=============================================================================
