------------------------------- MODULE Tamper -------------------------------
(***************************************************************************)
(* Tamper detection of the SM502.  Each cover has a switch whose rising    *)
(* edge interrupts the processor.  While the mains supply is there the     *)
(* interrupt handler schedules a task that looks at the switch again       *)
(* 100 ms later and logs the opening.  While the meter sleeps on its       *)
(* battery the handler only notes the opening in the backup registers      *)
(* BAKMEM0 and BAKMEM1, with their sum in BAKMEM2, and the opening is      *)
(* logged when the mains supply returns, just before the meter resets      *)
(* itself.  The tamper bits of the status are kept in EEPROM, are read     *)
(* again five seconds after a reset, when the interrupts are enabled, and  *)
(* last until a client resets them.                                        *)
(*                                                                         *)
(* A write to EEPROM may fail, the supply may fail at any step and the     *)
(* battery at any step without supply.  The codes and times of the logged  *)
(* events, the counters of tampers, display, errors and buzzer are left    *)
(* out.                                                                    *)
(***************************************************************************)
EXTENDS Integers, FiniteSets

CONSTANTS
  MaxOpenings,  \* bound: openings of covers
  MaxMoves,     \* bound: magnets and imbalances that come or go
  MaxFails,     \* bound: failures of the supply
  MaxErrors,    \* bound: EEPROM accesses that fail
  MaxClears     \* bound: resets by a client

ASSUME TamperAssumption ==
  /\ MaxOpenings \in Nat /\ MaxMoves \in Nat /\ MaxFails \in Nat
  /\ MaxErrors \in Nat /\ MaxClears \in Nat

Covers  == {"LC", "UC"}
Tampers == Covers \union {"magnet", "neutral"}

(* LowerCoverRemovedTamperError and UpperCoverRemovedTamperError.          *)
Code(c) == IF c = "LC" THEN 3 ELSE 2

Phases == {"main",                               \* the main loop
           "log", "release",                     \* inside ProcessTamperLC or UC
           "sleep",                              \* OPERATING_MODE_POWERFAIL
           "logLC", "logUC", "save", "reset"}    \* custom_power_restore_handler

VARIABLES
  open,          \* the covers that are open
  flag,          \* P1IFG: edges that no interrupt has served yet
  magnet,        \* is there a magnet?
  armed,         \* P1IE: the interrupts of both covers are enabled
  phase,         \* what the processor does
  cover,         \* of ProcessTamperLC and ProcessTamperUC: which one runs
  Scheduled,     \* LCTamperSchaduled, UCTamperSchaduled
  tasks,         \* PROCESS_TAMPER_LC_TASK, PROCESS_TAMPER_UC_TASK
  status,        \* the tamper bits in RAM
  LoggedStatus,  \* status.MagneticTamperLoggedSatus
  writeStatus,   \* status.write_status or status.write_tamper_status
  eeprom,        \* the tamper bits in EEPROM
  BAKMEM,        \* BAKMEM0 and BAKMEM1: the code of an opening, or 0
  BAKMEM2,
  openings, moves, fails, errors, clears,
  noticed,       \* history: covers whose last opening is logged
  missed,        \* history: covers whose last opening came to nothing: no interrupt
                 \* took it, a reset forgot it, or the event could not be written
  owed,          \* history: openings taken on battery and not logged yet
  known,         \* history: the tamper bits have been read since the reset
  cleared        \* history: covers a client has reset since their last tamper

hardware == <<open, flag, magnet>>
tasking  == <<armed, Scheduled, tasks>>
bits     == <<status, LoggedStatus, writeStatus, eeprom>>
backup   == <<BAKMEM, BAKMEM2>>
bounds   == <<openings, moves, fails, errors, clears>>
history  == <<noticed, missed, owed, known, cleared>>
vars     == <<hardware, tasking, phase, cover, bits, backup, bounds, history>>

Sum == BAKMEM["LC"] + BAKMEM["UC"]

-----------------------------------------------------------------------------
(* The world: covers and magnets.                                          *)

(* The edge is lost while the interrupts are off: initTamper discards what *)
(* has piled up.                                                           *)
OpenCover(c) ==
  /\ c \notin open /\ openings < MaxOpenings
  /\ open' = open \union {c}
  /\ flag' = IF armed THEN flag \union {c} ELSE flag
  /\ openings' = openings + 1
  /\ noticed' = noticed \ {c}
  /\ missed' = IF armed THEN missed \ {c} ELSE missed \union {c}
  /\ UNCHANGED <<magnet, tasking, phase, cover, bits, backup, moves, fails, errors, clears,
                 owed, known, cleared>>

CloseCover(c) ==
  /\ c \in open
  /\ open' = open \ {c}
  /\ UNCHANGED <<flag, magnet, tasking, phase, cover, bits, backup, bounds, history>>

Move == moves < MaxMoves /\ moves' = moves + 1

MoveMagnet ==
  /\ Move
  /\ magnet' = ~magnet
  /\ UNCHANGED <<open, flag, tasking, phase, cover, bits, backup, openings, fails, errors,
                 clears, history>>

(* An access to EEPROM: whether it succeeds.                               *)
Access(ok) ==
  /\ ok \/ errors < MaxErrors
  /\ errors' = IF ok THEN errors ELSE errors + 1

-----------------------------------------------------------------------------
(* Port_1, the interrupt of the switches.                                  *)

Served(c) == armed /\ c \in flag /\ flag' = flag \ {c}

(* An edge served between the task's look at the switch and the moment it  *)
(* takes requests again is lost: the flag is still set.                    *)
PortAwake(c) ==
  /\ phase \in {"main", "log", "release"}
  /\ Served(c)
  /\ Scheduled' = Scheduled \union {c}
  /\ tasks' = IF c \in Scheduled THEN tasks ELSE tasks \union {c}
  /\ missed' = IF phase = "release" /\ c = cover THEN missed \union {c} ELSE missed
  /\ UNCHANGED <<open, magnet, armed, phase, cover, bits, backup, bounds,
                 noticed, owed, known, cleared>>

(* Faulty variants are the operators that nothing uses: here the sum is    *)
(* taken for the last code.                                                *)
NotedAlone(c) ==
  /\ BAKMEM' = [BAKMEM EXCEPT ![c] = Code(c)]
  /\ BAKMEM2' = Code(c)

(* The sum is formed of what is in the other register.                     *)
Noted(c) ==
  /\ BAKMEM' = [BAKMEM EXCEPT ![c] = Code(c)]
  /\ BAKMEM2' = BAKMEM'["LC"] + BAKMEM'["UC"]

PortAsleep(c) ==
  /\ phase = "sleep"
  /\ Served(c)
  /\ Noted(c)
  /\ status' = status \union {c}
  /\ owed' = owed \union {c}
  /\ UNCHANGED <<open, magnet, tasking, phase, cover, LoggedStatus, writeStatus, eeprom,
                 bounds, noticed, missed, known, cleared>>

-----------------------------------------------------------------------------
(* LCTamperDetected and UCTamperDetected: an event, a bit and the request  *)
(* to write it.                                                            *)
TamperDetected(c) ==
  /\ \E ok \in BOOLEAN :
       /\ Access(ok)
       /\ noticed' = IF ok THEN noticed \union {c} ELSE noticed
       /\ missed' = IF ok THEN missed ELSE missed \union {c}
  /\ status' = status \union {c}
  /\ writeStatus' = TRUE
  /\ cleared' = cleared \ {c}
  /\ owed' = owed \ {c}
  /\ UNCHANGED <<LoggedStatus, eeprom>>

(* ProcessTamperLC and ProcessTamperUC look at the switch, ...             *)
ProcessTamper(c) ==
  /\ phase = "main" /\ c \in tasks
  /\ tasks' = tasks \ {c}
  /\ cover' = c
  /\ phase' = IF c \in open THEN "log" ELSE "release"
  /\ UNCHANGED <<hardware, armed, Scheduled, bits, backup, bounds, history>>

LogTamper ==
  /\ phase = "log"
  /\ TamperDetected(cover)
  /\ phase' = "release"
  /\ UNCHANGED <<hardware, tasking, cover, backup, openings, moves, fails, clears, known>>

(* A faulty variant: only a task that finds the cover open does so.        *)
ReleasedIfOpen ==
  Scheduled' = IF cover \in open THEN Scheduled \ {cover} ELSE Scheduled

(* ... and take requests again at the end.                                 *)
Released == Scheduled' = Scheduled \ {cover}

Release ==
  /\ phase = "release"
  /\ Released
  /\ phase' = "main"
  /\ UNCHANGED <<hardware, armed, tasks, cover, bits, backup, bounds, history>>

-----------------------------------------------------------------------------
(* Every second: the indicators, and the status if it is to be written.    *)

(* CheckMagneticTamper: a magnet that stays is logged every other second.  *)
MagnetLogged == magnet /\ ~LoggedStatus

NewStatus == IF MagnetLogged THEN status \union {"magnet"} ELSE status \ {"magnet"}

(* The request is withdrawn whether or not the write succeeds.             *)
WriteStatus(bitsWritten) ==
  /\ \E ok \in BOOLEAN :
       /\ Access(ok)
       /\ eeprom' = IF ok THEN bitsWritten ELSE eeprom
  /\ writeStatus' = FALSE

per_second_activity ==
  /\ phase = "main"
  /\ status' = NewStatus
  /\ LoggedStatus' = MagnetLogged
  /\ IF writeStatus
     THEN WriteStatus(NewStatus)
     ELSE UNCHANGED <<writeStatus, eeprom, errors>>
  /\ UNCHANGED <<hardware, tasking, phase, cover, backup, openings, moves, fails, clears, history>>

(* The imbalance of live and neutral: the bit changes, nothing asks for it *)
(* to be written.                                                          *)
NeutralTamper ==
  /\ phase = "main" /\ Move
  /\ \/ status' = status \union {"neutral"}   \* log_neutral_tamper
     \/ status' = status \ {"neutral"}        \* the balance is restored
  /\ UNCHANGED <<hardware, tasking, phase, cover, LoggedStatus, writeStatus, eeprom,
                 backup, openings, fails, errors, clears, history>>

(* A faulty variant: no break after the first of the alarms.               *)
ResetBothCovers(t) ==
  /\ phase = "main" /\ clears < MaxClears
  /\ clears' = clears + 1
  /\ status' = IF t = "UC" THEN status \ Covers ELSE status \ {t}
  /\ writeStatus' = TRUE
  /\ cleared' = cleared \union ({t} \cap Covers)
  /\ UNCHANGED <<hardware, tasking, phase, cover, LoggedStatus, eeprom, backup,
                 openings, moves, fails, errors, noticed, missed, owed, known>>

(* A client resets one alarm: reset_alarms and, what differs only in the   *)
(* event it logs, reset_persistent_events.                                 *)
reset_alarms(t) ==
  /\ phase = "main" /\ clears < MaxClears
  /\ clears' = clears + 1
  /\ status' = status \ {t}
  /\ writeStatus' = TRUE
  /\ cleared' = cleared \union ({t} \cap Covers)
  /\ UNCHANGED <<hardware, tasking, phase, cover, LoggedStatus, eeprom, backup,
                 openings, moves, fails, errors, noticed, missed, owed, known>>

(* The task of initTampperSwitchs, five seconds after the reset.           *)
initTamper ==
  /\ phase = "main" /\ ~armed
  /\ armed' = TRUE
  /\ flag' = {}
  /\ \E ok \in BOOLEAN :
       /\ Access(ok)
       /\ status' = IF ok THEN eeprom ELSE status
       /\ known' = ok
  /\ UNCHANGED <<open, magnet, Scheduled, tasks, phase, cover, LoggedStatus, writeStatus,
                 eeprom, backup, openings, moves, fails, clears, noticed, missed, owed, cleared>>

-----------------------------------------------------------------------------
(* The supply.                                                             *)

PowerFail ==
  /\ phase \in {"main", "log", "release"} /\ fails < MaxFails
  /\ fails' = fails + 1
  /\ phase' = "sleep"
  /\ UNCHANGED <<hardware, tasking, cover, bits, backup, openings, moves, errors, clears, history>>

(* custom_power_restore_handler, with interrupts off: ...                  *)
RestorePower ==
  /\ phase = "sleep"
  /\ phase' = IF BAKMEM2 = Sum /\ Sum # 0 THEN "logLC" ELSE "reset"
  /\ UNCHANGED <<hardware, tasking, cover, bits, backup, bounds, history>>

(* ... each cover that is noted, ...                                       *)
RestoreCover(c, before, after) ==
  /\ phase = before
  /\ phase' = after
  /\ IF BAKMEM[c] = Code(c)
     THEN TamperDetected(c) /\ BAKMEM' = [BAKMEM EXCEPT ![c] = 0]
     ELSE UNCHANGED <<BAKMEM, bits, errors, noticed, missed, owed, cleared>>
  /\ UNCHANGED <<hardware, tasking, cover, BAKMEM2, openings, moves, fails, clears, known>>

(* A faulty variant: the upper cover only when the lower one is not noted. *)
RestoreLCElseUC ==
  RestoreCover("LC", "logLC", IF BAKMEM["LC"] = 0 THEN "logUC" ELSE "save")

RestoreLC == RestoreCover("LC", "logLC", "logUC")
RestoreUC == RestoreCover("UC", "logUC", "save")

(* ... the status ...                                                      *)
RestoreStatus ==
  /\ phase = "save"
  /\ phase' = "reset"
  /\ \E ok \in BOOLEAN :
       /\ Access(ok)
       /\ eeprom' = IF ok THEN status ELSE eeprom
  /\ UNCHANGED <<hardware, tasking, cover, status, LoggedStatus, writeStatus, backup,
                 openings, moves, fails, clears, history>>

(* ... and a reset.  custom_initialisation clears the backup registers.    *)
Boot ==
  /\ phase' = "main"
  /\ armed' = FALSE
  /\ flag' = {} /\ Scheduled' = {} /\ tasks' = {}
  /\ status' = {} /\ LoggedStatus' = FALSE /\ writeStatus' = FALSE
  /\ BAKMEM' = [c \in Covers |-> 0] /\ BAKMEM2' = 0
  /\ missed' = missed \union (Covers \ noticed)
  /\ known' = FALSE
  /\ UNCHANGED <<open, magnet, cover, eeprom, openings, moves, fails, errors, clears, noticed,
                 cleared>>

Reset_System == phase = "reset" /\ Boot /\ UNCHANGED owed

(* The battery gives out before the supply returns or in the handler.      *)
BatteryEmpty ==
  /\ phase \notin {"main", "log", "release"}
  /\ Boot
  /\ owed' = {}

-----------------------------------------------------------------------------
(* The meter as it is set up at the factory, its covers closed.            *)
Init ==
  /\ open = {} /\ flag = {} /\ magnet = FALSE
  /\ armed = FALSE /\ Scheduled = {} /\ tasks = {}
  /\ phase = "main" /\ cover = "LC"
  /\ status = {} /\ LoggedStatus = FALSE /\ writeStatus = FALSE /\ eeprom = {}
  /\ BAKMEM = [c \in Covers |-> 0] /\ BAKMEM2 = 0
  /\ openings = 0 /\ moves = 0 /\ fails = 0 /\ errors = 0 /\ clears = 0
  /\ noticed = {} /\ missed = {} /\ owed = {} /\ known = FALSE /\ cleared = {}

Restore == RestorePower \/ RestoreLC \/ RestoreUC \/ RestoreStatus \/ Reset_System

Next ==
  \/ \E c \in Covers : OpenCover(c) \/ CloseCover(c) \/ PortAwake(c) \/ PortAsleep(c)
  \/ MoveMagnet
  \/ \E c \in Covers : ProcessTamper(c)
  \/ LogTamper
  \/ Release
  \/ per_second_activity
  \/ NeutralTamper
  \/ \E t \in Tampers : reset_alarms(t)
  \/ initTamper
  \/ PowerFail
  \/ Restore
  \/ BatteryEmpty

(* Interrupts are served, and the main loop runs each of its tasks in turn *)
(* for as long as it runs at all; a handler that has begun comes to an end. *)
Fairness ==
  /\ \A c \in Covers : WF_vars(PortAwake(c)) /\ SF_vars(ProcessTamper(c))
  /\ WF_vars(LogTamper) /\ WF_vars(Release)
  /\ WF_vars(RestoreLC \/ RestoreUC \/ RestoreStatus \/ Reset_System)

Spec == Init /\ [][Next]_vars /\ Fairness

-----------------------------------------------------------------------------
(* The sum guards both registers: it is right for as long as openings are  *)
(* only noted, and a request that is remembered as scheduled has a task    *)
(* that will withdraw it, but for the one that runs.                       *)
TypeOK ==
  /\ open \subseteq Covers /\ flag \subseteq Covers /\ magnet \in BOOLEAN
  /\ armed \in BOOLEAN
  /\ phase \in Phases /\ cover \in Covers
  /\ Scheduled \subseteq Covers /\ tasks \subseteq Scheduled
  /\ status \subseteq Tampers /\ eeprom \subseteq Tampers
  /\ LoggedStatus \in BOOLEAN /\ writeStatus \in BOOLEAN
  /\ \A c \in Covers : BAKMEM[c] \in {0, Code(c)}
  /\ phase = "sleep" => BAKMEM2 = Sum
  /\ phase = "main" => Scheduled = tasks

(* What the meter noted on its battery is logged before it works again:    *)
(* an opening of either cover, in whatever order they are opened and       *)
(* however often, unless the battery is lost too or EEPROM fails.          *)
OpeningKept == phase \in {"main", "log", "release"} => owed = {}

(* A cover that is opened while the meter runs and that stays open is      *)
(* noticed: the handler ignores an edge only when the switch is looked at  *)
(* after it, but for the edges in missed.                                  *)
OpeningNoticed ==
  \A c \in Covers :
    c \in open /\ armed /\ c \notin noticed /\ c \notin missed
      ~> c \notin open \/ c \in noticed \/ c \in missed \/ phase = "sleep"

(* A recorded tamper of a cover lasts, over any number of failures and     *)
(* resets, until a client resets it; but for a status that is written      *)
(* before the bits have been read again.                                   *)
CoverLatched ==
  [][\A c \in Covers : c \in eeprom /\ c \notin eeprom' => c \in cleared \/ ~known]_vars
=============================================================================
