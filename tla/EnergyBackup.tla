---------------------------- MODULE EnergyBackup ----------------------------
(***************************************************************************)
(* The energy registers of the SM502 meter and the two places that must    *)
(* carry them over a power failure: information flash segment B, erased    *)
(* and rewritten as a whole, and an EEPROM image written in place whose    *)
(* last word is a checksum.                                                *)
(*                                                                         *)
(* Three agents run against each other: the main program (boot, restore,   *)
(* metering, periodic backup), the interrupt handlers that write flash on  *)
(* a power failure, and the supply, which may go at any step.              *)
(*                                                                         *)
(* All registers that are saved together are one number, "energy".  An     *)
(* EEPROM image is a value and whether its checksum is the right one.      *)
(***************************************************************************)
EXTENDS Naturals

CONSTANTS
  KwhThreshold,   \* energy between two EEPROM backups (ENERGY_KWATT_HOUT_THRESHOLD)
  FlashEvery,     \* EEPROM backups per flash backup (ENERGY_THRESHOLD_FOR_FLASH_BACKUP)
  MaxEnergy       \* bound: metering stops here

ASSUME ThresholdsArePositive ==
  /\ KwhThreshold \in Nat \ {0}
  /\ FlashEvery \in Nat \ {0}
  /\ MaxEnergy \in Nat

VARIABLES
  energy,       \* the registers of phase in RAM
  flash,        \* struct info_mem_a_s backup: its valid_backup word and its registers
  eeprom,       \* the image at PowerFaileEnergyLogStart
  pc,           \* where the main program is
  after,        \* where perform_flash_backup returns to
  isr,          \* the interrupt handler that is writing flash
  buf,          \* backup2: the record about to be written to flash
  backingUp,    \* __backingUp
  operational,  \* meter_state == OPERATIONAL
  logged,       \* status.LogEnergyLogged
  acc,          \* eeprom_backup_energy_counter
  flashCnt,     \* flash_backup_energy_counter
  before,       \* history: energy when the meter last stopped metering
  orderly,      \* history: the meter stopped after saving its registers
  mishaps       \* history: what supply and EEPROM have done amiss (Mishaps)

vars == <<energy, flash, eeprom, pc, after, isr, buf, backingUp, operational,
          logged, acc, flashCnt, before, orderly, mishaps>>

-----------------------------------------------------------------------------
(* The three valid_backup words, and a segment without one. *)
Normal     == "normal"
LowBattery == "low_battery"
OnBattery  == "on_battery"
NoTag      == "none"

Tags    == {Normal, LowBattery, OnBattery}
Urgent  == {LowBattery, OnBattery}
Blank   == [tag |-> NoTag, val |-> 0]
Amounts == 0 .. MaxEnergy

(* "refused": all MAX_LOG_RETRAY attempts of an EEPROM backup fail.        *)
(* A "fault": the supply does not outlast the flash write of an interrupt *)
(* handler.  A "flicker": mains fails again, and a handler saves the      *)
(* registers, before they have been restored.                             *)
Mishaps    == {"refused", "fault", "flicker"}
Dependable == mishaps = {}

BootPCs    == {"init", "select", "restore", "rs_ee", "rs_ee_w", "rs_copy",
               "rs_erase", "rs_write", "start"}
MeterPCs   == {"run", "ee", "ee_w", "reset"}
FlashPCs   == {"fb_call", "fb_erase", "fb_write", "fb_done"}
PCs        == BootPCs \union MeterPCs \union FlashPCs \union {"hibernate"}

(* Metering has begun: perform_flash_backup is also called during boot,   *)
(* and then returns to "start".                                           *)
Metering == pc \in MeterPCs \/ (pc \in FlashPCs /\ after # "start")

(* Between flash_clr and the end of flashBackup interrupts are disabled.  *)
InterruptsOn == isr = "none" /\ pc \notin {"rs_write", "fb_write", "hibernate"}

(* The registers still hold the zeros of the C start-up code.             *)
RegistersCleared == pc \in {"init", "select", "restore"}

(* The restore order: an urgent flash backup, then the EEPROM image, then *)
(* a normal flash backup; and what it would restore if the meter booted   *)
(* now.                                                                   *)
FlashChosen == flash.tag \in Urgent \/ (flash.tag = Normal /\ ~eeprom.ok)
Recoverable == IF FlashChosen THEN flash.val ELSE IF eeprom.ok THEN eeprom.val ELSE 0

(* The energy registers are backed up at least once in this much energy.  *)
LossBound == KwhThreshold * FlashEvery

-----------------------------------------------------------------------------
(* A meter that boots for the first time logs FIRST_BOOT and starts.      *)
Init ==
  /\ energy = 0
  /\ flash = Blank
  /\ eeprom = [ok |-> FALSE, val |-> 0]
  /\ pc = "start"
  /\ after = "run"
  /\ isr = "none"
  /\ buf = Blank
  /\ backingUp = FALSE
  /\ operational = TRUE
  /\ logged = TRUE
  /\ acc = 0
  /\ flashCnt = 0
  /\ before = 0
  /\ orderly = TRUE
  /\ mishaps = {}

(* History: saved says whether the registers were saved when metering     *)
(* stopped; a boot that is cut short leaves the history as it was.        *)
StopMetering(saved) ==
  /\ before' = IF Metering THEN energy ELSE before
  /\ orderly' = IF Metering THEN saved ELSE orderly

(* The meter loses its RAM.                                               *)
Reboot(saved) ==
  /\ pc' = "init"
  /\ after' = "run"
  /\ isr' = "none"
  /\ energy' = 0
  /\ backingUp' = FALSE
  /\ logged' = FALSE
  /\ acc' = 0
  /\ flashCnt' = 0
  /\ buf' = Blank
  /\ StopMetering(saved)

(* meter_state is in a NOINIT section: after the RAM lost its supply it   *)
(* holds any value.                                                       *)
AnyMeterState == operational' \in BOOLEAN

-----------------------------------------------------------------------------
(* Boot.                                                                  *)

ProcessDiagnosisResult ==
  /\ isr = "none" /\ pc = "init"
  /\ operational' = TRUE
  /\ pc' = "select"
  /\ UNCHANGED <<energy, flash, eeprom, after, isr, buf, backingUp, logged,
                 acc, flashCnt, before, orderly, mishaps>>

(* main: on-battery and low-battery flash, then EEPROM, then normal flash. *)
SelectFlash ==
  /\ isr = "none" /\ pc = "select"
  /\ FlashChosen
  /\ pc' = "restore"
  /\ UNCHANGED <<energy, flash, eeprom, after, isr, buf, backingUp, operational,
                 logged, acc, flashCnt, before, orderly, mishaps>>

(* Faulty variant: the EEPROM image is asked first.                       *)
SelectEepromFirst ==
  /\ isr = "none" /\ pc = "select"
  /\ eeprom.ok
  /\ energy' = eeprom.val
  /\ buf' = [buf EXCEPT !.tag = LowBattery]
  /\ pc' = "fb_call" /\ after' = "start"
  /\ UNCHANGED <<flash, eeprom, isr, backingUp, operational, logged, acc,
                 flashCnt, before, orderly, mishaps>>

SelectEeprom ==
  /\ isr = "none" /\ pc = "select"
  /\ flash.tag \notin Urgent /\ eeprom.ok
  /\ energy' = eeprom.val
  /\ buf' = [buf EXCEPT !.tag = LowBattery]
  /\ pc' = "fb_call" /\ after' = "start"
  /\ UNCHANGED <<flash, eeprom, isr, backingUp, operational, logged, acc,
                 flashCnt, before, orderly, mishaps>>

RestorationFailed ==
  /\ isr = "none" /\ pc = "select"
  /\ flash.tag = NoTag /\ ~eeprom.ok
  /\ pc' = "start"
  /\ UNCHANGED <<energy, flash, eeprom, after, isr, buf, backingUp, operational,
                 logged, acc, flashCnt, before, orderly, mishaps>>

(* Faulty variant: the restored registers are not saved to the EEPROM     *)
(* before the flash segment is rewritten.                                 *)
RestoreWithoutEeprom ==
  /\ isr = "none" /\ pc = "restore"
  /\ energy' = flash.val
  /\ pc' = "rs_copy"
  /\ UNCHANGED <<flash, eeprom, after, isr, buf, backingUp, operational, logged,
                 acc, flashCnt, before, orderly, mishaps>>

(* restoreBackup: registers, EEPROM image, then the flash segment again   *)
(* with the tag of a normal backup.                                       *)
RestoreRegisters ==
  /\ isr = "none" /\ pc = "restore"
  /\ energy' = flash.val
  /\ pc' = "rs_ee"
  /\ UNCHANGED <<flash, eeprom, after, isr, buf, backingUp, operational, logged,
                 acc, flashCnt, before, orderly, mishaps>>

CopyBackup ==
  /\ isr = "none" /\ pc = "rs_copy"
  /\ buf' = [tag |-> Normal, val |-> flash.val]
  /\ pc' = "rs_erase"
  /\ UNCHANGED <<energy, flash, eeprom, after, isr, backingUp, operational,
                 logged, acc, flashCnt, before, orderly, mishaps>>

StartMetering ==
  /\ isr = "none" /\ pc = "start"
  /\ logged' = TRUE
  /\ pc' = "run"
  /\ UNCHANGED <<energy, flash, eeprom, after, isr, buf, backingUp, operational,
                 acc, flashCnt, before, orderly, mishaps>>

-----------------------------------------------------------------------------
(* perform_eeprom_backup, called by restoreBackup and by                   *)
(* backup_energy_parameters.  Its first write breaks the image, unless it *)
(* is refused; the last one completes it.                                 *)

BeginEepromBackup ==
  /\ isr = "none" /\ pc \in {"ee", "rs_ee"}
  /\ eeprom' = [eeprom EXCEPT !.ok = FALSE] \/ UNCHANGED eeprom
  /\ pc' = IF pc = "ee" THEN "ee_w" ELSE "rs_ee_w"
  /\ UNCHANGED <<energy, flash, after, isr, buf, backingUp, operational, logged,
                 acc, flashCnt, before, orderly, mishaps>>

(* One of the attempts succeeds, or none.  Neither caller looks at the    *)
(* result: after a failed backup the image is broken, or the old one if   *)
(* every first write was refused, and nothing else differs.               *)
EepromImageWritten ==
  \/ eeprom' = [ok |-> TRUE, val |-> energy] /\ UNCHANGED mishaps
  \/ UNCHANGED eeprom /\ mishaps' = mishaps \union {"refused"}

EndRestoreEeprom ==
  /\ isr = "none" /\ pc = "rs_ee_w"
  /\ EepromImageWritten
  /\ pc' = "rs_copy"
  /\ UNCHANGED <<energy, flash, after, isr, buf, backingUp, operational, logged,
                 acc, flashCnt, before, orderly>>

backup_energy_parameters ==
  /\ isr = "none" /\ pc = "ee_w"
  /\ EepromImageWritten
  /\ acc' = IF acc > KwhThreshold THEN acc - KwhThreshold ELSE 0
  /\ flashCnt' = flashCnt + 1
  /\ IF flashCnt + 1 >= FlashEvery
       THEN /\ buf' = [buf EXCEPT !.tag = Normal]
            /\ pc' = "fb_call" /\ after' = "run"
       ELSE pc' = "run" /\ UNCHANGED <<buf, after>>
  /\ UNCHANGED <<energy, flash, isr, backingUp, operational, logged, before, orderly>>

-----------------------------------------------------------------------------
(* Metering.                                                              *)

(* Faulty variant: off by one in the EEPROM backup threshold.             *)
MeasureLate ==
  /\ isr = "none" /\ pc = "run"
  /\ energy < MaxEnergy
  /\ energy' = energy + 1
  /\ acc' = acc + 1
  /\ pc' = IF acc + 1 > KwhThreshold THEN "ee" ELSE "run"
  /\ UNCHANGED <<flash, eeprom, after, isr, buf, backingUp, operational, logged,
                 flashCnt, before, orderly, mishaps>>

(* One measurement result; check_for_backup starts a backup in the same   *)
(* pass of the main loop when the threshold is reached.                   *)
Measure ==
  /\ isr = "none" /\ pc = "run"
  /\ energy < MaxEnergy
  /\ energy' = energy + 1
  /\ acc' = acc + 1
  /\ pc' = IF acc + 1 >= KwhThreshold THEN "ee" ELSE "run"
  /\ UNCHANGED <<flash, eeprom, after, isr, buf, backingUp, operational, logged,
                 flashCnt, before, orderly, mishaps>>

(* The scheduled task comes due every BACKUP_TIME whatever was consumed.  *)
BackupTaskDue ==
  /\ isr = "none" /\ pc = "run"
  /\ pc' = "ee"
  /\ UNCHANGED <<energy, flash, eeprom, after, isr, buf, backingUp, operational,
                 logged, acc, flashCnt, before, orderly, mishaps>>

per_minute_activity ==
  /\ isr = "none" /\ pc = "run"
  /\ logged
  /\ logged' = FALSE
  /\ UNCHANGED <<energy, flash, eeprom, pc, after, isr, buf, backingUp,
                 operational, acc, flashCnt, before, orderly, mishaps>>

(* A client asks for a reset: a low-battery backup, then Reset_System.    *)
bor_reset ==
  /\ isr = "none" /\ pc = "run"
  /\ buf' = [buf EXCEPT !.tag = LowBattery]
  /\ pc' = "fb_call" /\ after' = "reset"
  /\ UNCHANGED <<energy, flash, eeprom, isr, backingUp, operational, logged, acc,
                 flashCnt, before, orderly, mishaps>>

Reset_System ==
  /\ isr = "none" /\ pc = "reset"
  /\ Reboot(TRUE)
  /\ UNCHANGED <<flash, eeprom, operational, mishaps>>

-----------------------------------------------------------------------------
(* perform_flash_backup on the main program's side: the record is put     *)
(* together under __backingUp, the segment is erased, then rewritten with *)
(* valid_backup as its last word.                                         *)

perform_flash_backup ==
  /\ isr = "none" /\ pc = "fb_call"
  /\ ~backingUp
  /\ backingUp' = TRUE
  /\ buf' = [buf EXCEPT !.val = energy]
  /\ pc' = "fb_erase"
  /\ UNCHANGED <<energy, flash, eeprom, after, isr, operational, logged, acc,
                 flashCnt, before, orderly, mishaps>>

flash_clr ==
  /\ isr = "none" /\ pc \in {"fb_erase", "rs_erase"}
  /\ flash' = Blank
  /\ pc' = IF pc = "fb_erase" THEN "fb_write" ELSE "rs_write"
  /\ UNCHANGED <<energy, eeprom, after, isr, buf, backingUp, operational, logged,
                 acc, flashCnt, before, orderly, mishaps>>

flashBackup ==
  /\ isr = "none" /\ pc \in {"fb_write", "rs_write"}
  /\ flash' = buf
  /\ pc' = IF pc = "fb_write" THEN "fb_done" ELSE "start"
  /\ UNCHANGED <<energy, eeprom, after, isr, buf, backingUp, operational, logged,
                 acc, flashCnt, before, orderly, mishaps>>

(* Faulty variant: the counter of EEPROM backups is never reset.          *)
FlashBackupDoneNoReset ==
  /\ isr = "none" /\ pc = "fb_done"
  /\ backingUp' = FALSE
  /\ pc' = after
  /\ UNCHANGED <<energy, flash, eeprom, after, isr, buf, operational, logged, acc,
                 flashCnt, before, orderly, mishaps>>

FlashBackupDone ==
  /\ isr = "none" /\ pc = "fb_done"
  /\ backingUp' = FALSE
  /\ flashCnt' = IF after = "run" THEN 0 ELSE flashCnt
  /\ pc' = after
  /\ UNCHANGED <<energy, flash, eeprom, after, isr, buf, operational, logged, acc,
                 before, orderly, mishaps>>

-----------------------------------------------------------------------------
(* Interrupt handlers.  A handler that writes flash leaves the segment    *)
(* blank (isr # "none") until InterruptBackupDone.                        *)

(* History: a handler that saves the registers before they have been      *)
(* restored.                                                              *)
NoteFlicker ==
  mishaps' = IF RegistersCleared THEN mishaps \union {"flicker"} ELSE mishaps

(* AUX_ISR, switched to AUX2: the battery has taken over.  The EEPROM     *)
(* port is off and the main program never runs again.                     *)
MainsToBattery ==
  /\ InterruptsOn
  /\ \/ /\ operational /\ ~backingUp
        /\ flash' = Blank
        /\ isr' = "aux"
        /\ NoteFlicker
        /\ UNCHANGED <<pc, operational, before, orderly>>
     \/ /\ ~operational \/ backingUp
        /\ pc' = "hibernate"
        /\ operational' = FALSE
        /\ StopMetering(FALSE)
        /\ UNCHANGED <<flash, isr, mishaps>>
  /\ UNCHANGED <<energy, eeprom, after, buf, backingUp, logged, acc, flashCnt>>

(* Faulty variant: the backup on battery is tagged as a normal one.       *)
HibernateWithNormalTag ==
  /\ isr = "aux"
  /\ flash' = [tag |-> Normal, val |-> energy]
  /\ isr' = "none"
  /\ pc' = "hibernate"
  /\ operational' = FALSE
  /\ StopMetering(TRUE)
  /\ UNCHANGED <<energy, eeprom, after, buf, backingUp, logged, acc, flashCnt, mishaps>>

HibernateWithBackup ==
  /\ isr = "aux"
  /\ flash' = [tag |-> OnBattery, val |-> energy]
  /\ isr' = "none"
  /\ pc' = "hibernate"
  /\ operational' = FALSE
  /\ StopMetering(TRUE)
  /\ UNCHANGED <<energy, eeprom, after, buf, backingUp, logged, acc, flashCnt, mishaps>>

(* AUX_ISR, switched to DVCC: mains is back and the meter is reset with   *)
(* meter_state = RESTARTING.                                              *)
MainsRestored ==
  /\ isr = "none" /\ pc = "hibernate"
  /\ operational' = FALSE
  /\ Reboot(FALSE)
  /\ UNCHANGED <<flash, eeprom, mishaps>>

(* The sampling handler has missed Max_F_Power_Faile zero crossings.      *)
PowerFailDetected ==
  /\ InterruptsOn /\ Metering
  /\ ~logged /\ ~backingUp
  /\ flash' = Blank
  /\ isr' = "zero_crossing"
  /\ UNCHANGED <<energy, eeprom, pc, after, buf, backingUp, operational, logged,
                 acc, flashCnt, before, orderly, mishaps>>

perform_low_battery_backup ==
  /\ isr = "zero_crossing"
  /\ flash' = [tag |-> LowBattery, val |-> energy]
  /\ isr' = "none"
  /\ logged' = TRUE
  /\ UNCHANGED <<energy, eeprom, pc, after, buf, backingUp, operational, acc,
                 flashCnt, before, orderly, mishaps>>

(* The oscillator fault handler saves the registers as an on-battery      *)
(* backup whatever meter_state is, then resets.                           *)
OscillatorFault ==
  /\ InterruptsOn
  /\ \/ /\ ~backingUp
        /\ flash' = Blank
        /\ isr' = "oscillator"
        /\ NoteFlicker
        /\ UNCHANGED <<energy, eeprom, pc, after, buf, backingUp, operational,
                       logged, acc, flashCnt, before, orderly>>
     \/ /\ backingUp
        /\ Reboot(FALSE)
        /\ UNCHANGED <<flash, eeprom, operational, mishaps>>

ResetAfterFault ==
  /\ isr = "oscillator"
  /\ flash' = [tag |-> OnBattery, val |-> energy]
  /\ Reboot(TRUE)
  /\ UNCHANGED <<eeprom, operational, mishaps>>

(* The supply is gone: no battery, or a dead one.                         *)
PowerLoss ==
  /\ AnyMeterState
  /\ mishaps' = IF isr = "none" THEN mishaps ELSE mishaps \union {"fault"}
  /\ Reboot(FALSE)
  /\ UNCHANGED <<flash, eeprom>>

-----------------------------------------------------------------------------
MainStep ==
  \/ ProcessDiagnosisResult \/ SelectFlash \/ SelectEeprom \/ RestorationFailed
  \/ RestoreRegisters \/ CopyBackup \/ StartMetering
  \/ BeginEepromBackup \/ EndRestoreEeprom \/ backup_energy_parameters
  \/ Measure \/ BackupTaskDue \/ per_minute_activity
  \/ bor_reset \/ Reset_System
  \/ perform_flash_backup \/ flash_clr \/ flashBackup \/ FlashBackupDone

InterruptStep ==
  \/ MainsToBattery \/ HibernateWithBackup \/ MainsRestored
  \/ PowerFailDetected \/ perform_low_battery_backup
  \/ OscillatorFault \/ ResetAfterFault

Next == MainStep \/ InterruptStep \/ PowerLoss

Spec == Init /\ [][Next]_vars

-----------------------------------------------------------------------------
(* Properties.                                                            *)

(* Every variable has its type.                                           *)
TypeOK ==
  /\ energy \in Amounts
  /\ flash \in [tag : Tags \union {NoTag}, val : Amounts]
  /\ eeprom \in [ok : BOOLEAN, val : Amounts]
  /\ pc \in PCs
  /\ after \in {"run", "start", "reset"}
  /\ isr \in {"none", "aux", "zero_crossing", "oscillator"}
  /\ buf \in [tag : Tags \union {NoTag}, val : Amounts]
  /\ backingUp \in BOOLEAN
  /\ operational \in BOOLEAN
  /\ logged \in BOOLEAN
  /\ acc \in 0 .. KwhThreshold
  /\ flashCnt \in 0 .. FlashEvery
  /\ before \in Amounts
  /\ orderly \in BOOLEAN
  /\ mishaps \in SUBSET Mishaps

(* What a boot would restore after a power loss now; a handler that has   *)
(* erased the segment completes its backup when the supply holds up.      *)
Secured == IF isr # "none" THEN energy ELSE Recoverable

(* However often mains fails, however often the boot itself is cut short, *)
(* and wherever the supply gives out, the registers a boot restores are   *)
(* never more than what the meter showed when it stopped metering, unless *)
(* the EEPROM has refused a backup: then an image from before an older,   *)
(* more urgent flash record may stay, and a later boot restores it.       *)
NeverOverbills ==
  "refused" \notin mishaps /\ pc = "start" => energy <= before

(* A power failure or reset that was handled by a backup (on battery, or  *)
(* on request of the client) loses nothing, whatever interrupts the       *)
(* restore that follows, until the first mishap.                          *)
OrderlyRestoreExact ==
  Dependable /\ pc = "start" /\ orderly => energy = before

(* While the meter meters, the copy that a boot would choose is never     *)
(* ahead of the registers and lags by at most the energy between two flash *)
(* backups (54 kWh), also in the middle of an EEPROM or flash write, and  *)
(* so does what a restore brings back, until the first mishap.            *)
LossBounded ==
  Dependable =>
    /\ Metering => Secured <= energy /\ energy <= Secured + LossBound
    /\ pc = "start" => before <= energy + LossBound

(* Recovery is idempotent: no step of the boot, and no failure during it, *)
(* makes less energy recoverable than there was, unless it is a mishap or *)
(* follows one.                                                           *)
RecoveryIdempotent ==
  [][Dependable' /\ ~Metering /\ ~Metering' => Secured' >= Secured]_vars

(* A hibernating meter has its registers in flash, unless the handler     *)
(* found a flash backup under way (__backingUp), until the first mishap.  *)
HibernatesSaved ==
  Dependable /\ pc = "hibernate" /\ ~backingUp /\ orderly => Recoverable = before
=============================================================================
