------------------------- MODULE EnergyBackupProofs -------------------------
(***************************************************************************)
(* What the runs of EnergyBackup show for a small meter, proved for every  *)
(* threshold.  NeverOverbills holds whatever the supply does, until the    *)
(* EEPROM refuses a backup; the other properties hold until the first      *)
(* mishap: an EEPROM backup that is refused, a supply that does not        *)
(* outlast an interrupt handler, mains that fails again before the         *)
(* registers are restored.                                                 *)
(***************************************************************************)
EXTENDS EnergyBackup, TLAPS

(* Where the main program is about to write buf to flash.                 *)
Filled == pc \in {"fb_erase", "fb_write", "fb_done"}

(* The counters stay below their thresholds while the meter runs.         *)
Counters ==
  /\ pc \in BootPCs \/ (pc \in FlashPCs /\ after = "start") => acc = 0 /\ flashCnt = 0
  /\ pc = "run" \/ (pc \in FlashPCs /\ after = "run") => acc < KwhThreshold
  /\ pc \in MeterPCs \/ (pc \in FlashPCs /\ after = "reset") => flashCnt < FlashEvery

(* A record is written to flash with a tag, so a segment without one is   *)
(* blank.                                                                 *)
Tagged ==
  /\ pc \in FlashPCs \union {"rs_erase", "rs_write"} => buf.tag # NoTag
  /\ flash.tag = NoTag => flash.val = 0
  /\ RegistersCleared => buf.val = 0 /\ energy = 0

(* What the meter has shown.                                              *)
Shown == IF Metering THEN energy ELSE before

(* No copy is ahead of what the meter has shown.  Once a copy is restored *)
(* the others are no longer ahead of the registers, but for the EEPROM    *)
(* image a flash backup has overruled, which restoreBackup overwrites.    *)
NotAhead ==
  /\ energy <= Shown
  /\ flash.val <= Shown
  /\ eeprom.ok => eeprom.val <= Shown
  /\ buf.val <= energy
  /\ ~RegistersCleared /\ pc # "hibernate" => flash.val <= energy
  /\ ~RegistersCleared /\ pc \notin {"hibernate", "rs_ee", "rs_ee_w"}
       => (eeprom.ok => eeprom.val <= energy)

(* A normal flash backup follows an EEPROM backup of the same registers.  *)
NormalFollowsEeprom ==
  /\ flash.tag = Normal /\ eeprom.ok => flash.val <= eeprom.val
  /\ pc \in FlashPCs /\ buf.tag = Normal /\ eeprom.ok => eeprom.val = energy
  /\ pc \in {"rs_copy", "rs_erase", "rs_write"} /\ eeprom.ok => eeprom.val = energy

BaseInv == TypeOK /\ Counters /\ Tagged
CopyInv == BaseInv /\ NotAhead /\ NormalFollowsEeprom

(* The EEPROM has completed every backup that the supply let it complete. *)
Accepting == "refused" \notin mishaps

-----------------------------------------------------------------------------
(* What holds until the first mishap.                                     *)

(* A restore is under way or done, and metering has not begun.            *)
Restored == pc \in BootPCs \ {"init", "select", "restore"}
            \/ (pc \in FlashPCs /\ after = "start")

(* __backingUp guards the main program's flash write; a handler that      *)
(* writes flash has found it clear and meter_state OPERATIONAL.           *)
Guards ==
  /\ pc # "hibernate" => (backingUp <=> Filled)
  /\ Filled => buf.val = energy
  /\ pc \notin {"init", "hibernate"} => operational
  /\ isr # "none" => flash = Blank /\ ~backingUp /\ pc # "hibernate" /\ ~RegistersCleared
  /\ isr = "zero_crossing" => Metering
  /\ pc \in {"fb_write", "rs_write"} => flash = Blank /\ isr = "none"

(* How the restored registers hand over from one copy to the next: the    *)
(* flash record until the EEPROM image is complete, the image until the   *)
(* flash segment is rewritten.                                            *)
HandOver ==
  /\ pc = "restore" => flash.val = Recoverable /\ flash.tag # NoTag
  /\ Restored /\ isr = "none" => Recoverable = energy
  /\ pc = "restore" => flash.tag \in Urgent \/ ~eeprom.ok
  /\ pc \in {"rs_ee", "rs_ee_w"} /\ isr = "none"
       => flash.tag \in Urgent \/ (~eeprom.ok /\ flash.tag # NoTag)
  /\ pc \in {"rs_ee", "rs_ee_w", "rs_copy"} /\ isr = "none" => flash.val = energy
  /\ pc \in {"rs_copy", "rs_erase", "rs_write"} \/ (pc \in FlashPCs /\ after = "start")
       => eeprom.ok /\ eeprom.val = energy
  /\ pc \in {"rs_erase", "rs_write"} => buf = [tag |-> Normal, val |-> energy]
  /\ pc = "start" /\ isr = "none"
       => flash.val = energy /\ energy = (IF eeprom.ok THEN eeprom.val ELSE 0)

(* How far each copy lags behind the registers while the meter meters.    *)
Lags ==
  /\ Metering /\ isr = "none" /\ pc # "fb_write"
       => energy <= flash.val + KwhThreshold * flashCnt + acc
  /\ Metering /\ (pc = "ee_w" => eeprom.ok)
       => energy <= (IF eeprom.ok THEN eeprom.val ELSE 0) + acc
  /\ pc \in FlashPCs /\ after = "run" => acc = 0 /\ eeprom.ok

(* A reset follows a low-battery backup.                                  *)
ResetSaved ==
  /\ pc \in FlashPCs /\ after = "reset" => buf.tag = LowBattery
  /\ pc = "fb_done" => flash = buf
  /\ pc = "reset" /\ isr = "none" => flash.tag \in Urgent /\ flash.val = energy

(* What v, restored now, would lose.                                      *)
Loses(v) == before <= v + LossBound /\ (orderly => v = before)

Recovers ==
  /\ RegistersCleared \/ pc = "hibernate" => Loses(Recoverable)
  /\ Restored => Loses(energy)

LossInv == CopyInv /\ Guards /\ HandOver /\ Lags /\ ResetSaved /\ Recovers

-----------------------------------------------------------------------------
(* What StopMetering, Reboot and EepromImageWritten leave is well typed.  *)
LEMMA StopType ==
  ASSUME TypeOK, NEW s \in BOOLEAN, StopMetering(s)
  PROVE  before' \in Amounts /\ orderly' \in BOOLEAN
BY DEF TypeOK, StopMetering

(* A reboot leaves every variable in its type. *)
LEMMA RebootType ==
  ASSUME TypeOK, NEW s \in BOOLEAN, Reboot(s), operational' \in BOOLEAN,
         flash' \in [tag : Tags \union {NoTag}, val : Amounts],
         eeprom' \in [ok : BOOLEAN, val : Amounts],
         mishaps' \in SUBSET Mishaps
  PROVE  TypeOK'
<1> USE DEF Reboot
<1>1. before' \in Amounts /\ orderly' \in BOOLEAN
  BY StopType
<1>2. energy' \in Amounts /\ buf' \in [tag : Tags \union {NoTag}, val : Amounts]
  BY ThresholdsArePositive DEF Blank, Amounts
<1>3. pc' \in PCs /\ after' \in {"run", "start", "reset"}
      /\ isr' \in {"none", "aux", "zero_crossing", "oscillator"}
  BY DEF PCs, BootPCs
<1>4. acc' \in 0 .. KwhThreshold /\ flashCnt' \in 0 .. FlashEvery
  BY ThresholdsArePositive
<1>5. backingUp' \in BOOLEAN /\ logged' \in BOOLEAN
  OBVIOUS
<1> QED
  BY <1>1, <1>2, <1>3, <1>4, <1>5 DEF TypeOK

(* A backup to EEPROM, written or not, leaves a well-typed image. *)
LEMMA EepromType ==
  ASSUME TypeOK, EepromImageWritten
  PROVE  eeprom' \in [ok : BOOLEAN, val : Amounts] /\ mishaps' \in SUBSET Mishaps
<1>1. CASE eeprom' = [ok |-> TRUE, val |-> energy] /\ UNCHANGED mishaps
  BY <1>1 DEF TypeOK
<1>2. CASE UNCHANGED eeprom /\ mishaps' = mishaps \union {"refused"}
  BY <1>2 DEF TypeOK, Mishaps
<1> QED
  BY <1>1, <1>2 DEF EepromImageWritten

(* A handler notes mishaps only. *)
LEMMA FlickerType ==
  ASSUME TypeOK, NoteFlicker
  PROVE  mishaps' \in SUBSET Mishaps
BY DEF TypeOK, NoteFlicker, Mishaps

(* Every step keeps the types, given that the counters are below their
   thresholds where the main program is about to add to them. *)
LEMMA TypeStep == TypeOK /\ Counters /\ [Next]_vars => TypeOK'
<1> SUFFICES ASSUME TypeOK, Counters, [Next]_vars PROVE TypeOK'
  OBVIOUS
<1>1. CASE ProcessDiagnosisResult
  BY <1>1 DEF ProcessDiagnosisResult, TypeOK, PCs, BootPCs
<1>2. CASE SelectFlash
  BY <1>2 DEF SelectFlash, TypeOK, PCs, BootPCs
<1>3. CASE SelectEeprom
  BY <1>3 DEF SelectEeprom, TypeOK, Tags, PCs, FlashPCs
<1>4. CASE RestorationFailed
  BY <1>4 DEF RestorationFailed, TypeOK, PCs, BootPCs
<1>5. CASE RestoreRegisters
  BY <1>5 DEF RestoreRegisters, TypeOK, PCs, BootPCs
<1>6. CASE CopyBackup
  BY <1>6 DEF CopyBackup, TypeOK, Tags, PCs, BootPCs
<1>7. CASE StartMetering
  BY <1>7 DEF StartMetering, TypeOK, PCs, MeterPCs
<1>8. CASE BeginEepromBackup
  BY <1>8 DEF BeginEepromBackup, TypeOK, PCs, BootPCs, MeterPCs
<1>9. CASE EndRestoreEeprom
  BY <1>9, EepromType DEF TypeOK, EndRestoreEeprom, PCs, BootPCs
<1>10. CASE backup_energy_parameters
  <2> USE <1>10, ThresholdsArePositive DEF backup_energy_parameters, TypeOK
  <2>1. acc' \in 0 .. KwhThreshold /\ flashCnt' \in 0 .. FlashEvery
    BY DEF Counters, MeterPCs
  <2>2. pc' \in PCs /\ after' \in {"run", "start", "reset"}
        /\ buf' \in [tag : Tags \union {NoTag}, val : Amounts]
    BY DEF PCs, MeterPCs, FlashPCs, Tags
  <2> QED
    BY <2>1, <2>2, EepromType
<1>11. CASE Measure
  BY <1>11, ThresholdsArePositive DEF Measure, TypeOK, Counters, Amounts, PCs, MeterPCs
<1>12. CASE BackupTaskDue
  BY <1>12 DEF BackupTaskDue, TypeOK, PCs, MeterPCs
<1>13. CASE per_minute_activity
  BY <1>13 DEF per_minute_activity, TypeOK
<1>14. CASE bor_reset
  BY <1>14 DEF bor_reset, TypeOK, Tags, PCs, FlashPCs
<1>15. CASE Reset_System
  BY <1>15, RebootType DEF Reset_System, TypeOK
<1>16. CASE perform_flash_backup
  BY <1>16 DEF perform_flash_backup, TypeOK, PCs, FlashPCs
<1>17. CASE flash_clr
  BY <1>17, ThresholdsArePositive DEF flash_clr, TypeOK, Blank, Amounts, PCs, BootPCs,
     FlashPCs
<1>18. CASE flashBackup
  BY <1>18 DEF flashBackup, TypeOK, PCs, BootPCs, FlashPCs
<1>19. CASE FlashBackupDone
  <2>1. flashCnt' \in 0 .. FlashEvery
    BY <1>19, ThresholdsArePositive DEF FlashBackupDone, TypeOK
  <2> QED
    BY <2>1, <1>19 DEF FlashBackupDone, TypeOK, PCs, BootPCs, MeterPCs
<1>20. CASE MainsToBattery
  <2>1. CASE /\ UNCHANGED <<pc, operational, before, orderly>>
             /\ flash' = Blank /\ isr' = "aux" /\ NoteFlicker
    BY <1>20, <2>1, FlickerType, ThresholdsArePositive
    DEF TypeOK, MainsToBattery, Blank, Amounts
  <2>2. CASE /\ StopMetering(FALSE) /\ pc' = "hibernate" /\ operational' = FALSE
             /\ UNCHANGED <<flash, isr, mishaps>>
    BY <1>20, <2>2, StopType DEF TypeOK, MainsToBattery, PCs
  <2> QED
    BY <2>1, <2>2, <1>20 DEF MainsToBattery
<1>21. CASE HibernateWithBackup
  <2> USE <1>21 DEF TypeOK, HibernateWithBackup
  <2>1. flash' \in [tag : Tags \union {NoTag}, val : Amounts]
    BY DEF Tags
  <2>2. before' \in Amounts /\ orderly' \in BOOLEAN
    BY StopType
  <2> QED
    BY <2>1, <2>2 DEF PCs
<1>22. CASE MainsRestored
  BY <1>22, RebootType DEF MainsRestored, TypeOK
<1>23. CASE PowerFailDetected
  BY <1>23, ThresholdsArePositive DEF PowerFailDetected, TypeOK, Blank, Amounts
<1>24. CASE perform_low_battery_backup
  BY <1>24 DEF perform_low_battery_backup, TypeOK, Tags
<1>25. CASE OscillatorFault
  <2>1. CASE Reboot(FALSE) /\ UNCHANGED <<flash, eeprom, operational, mishaps>>
    BY <1>25, <2>1, RebootType DEF TypeOK
  <2>2. CASE /\ UNCHANGED <<energy, eeprom, pc, after, buf, backingUp, operational,
                            logged, acc, flashCnt, before, orderly>>
             /\ flash' = Blank /\ isr' = "oscillator" /\ NoteFlicker
    BY <1>25, <2>2, FlickerType, ThresholdsArePositive DEF TypeOK, Blank, Amounts
  <2> QED
    BY <2>1, <2>2, <1>25 DEF OscillatorFault
<1>26. CASE ResetAfterFault
  <2> USE <1>26 DEF TypeOK, ResetAfterFault
  <2>1. flash' \in [tag : Tags \union {NoTag}, val : Amounts]
    BY DEF Tags
  <2> QED
    BY <2>1, RebootType
<1>27. CASE PowerLoss
  <2>1. mishaps' \in SUBSET Mishaps
    BY <1>27 DEF PowerLoss, TypeOK, Mishaps
  <2> QED
    BY <1>27, <2>1, RebootType DEF PowerLoss, AnyMeterState, TypeOK
<1>28. CASE UNCHANGED vars
  BY <1>28 DEF vars, TypeOK
<1> QED
  BY <1>1, <1>2, <1>3, <1>4, <1>5, <1>6, <1>7, <1>8, <1>9, <1>10, <1>11,
     <1>12, <1>13, <1>14, <1>15, <1>16, <1>17, <1>18, <1>19, <1>20,
     <1>21, <1>22, <1>23, <1>24, <1>25, <1>26, <1>27, <1>28
  DEF Next, MainStep, InterruptStep

(* So are counters and tags kept.                                         *)
LEMMA BaseInvStep == BaseInv /\ [Next]_vars => BaseInv'
<1> SUFFICES ASSUME BaseInv, [Next]_vars PROVE BaseInv'
  OBVIOUS
<1>0. TypeOK'
  BY TypeStep DEF BaseInv
<1> USE <1>0, ThresholdsArePositive
    DEF BaseInv, TypeOK, Counters, Tagged, RegistersCleared, BootPCs, MeterPCs, FlashPCs,
        Amounts, Blank, Normal, LowBattery, OnBattery, NoTag, Urgent, Tags, Reboot
<1>1. CASE \/ ProcessDiagnosisResult \/ SelectFlash \/ SelectEeprom \/ RestorationFailed
           \/ RestoreRegisters \/ CopyBackup \/ StartMetering
  BY <1>1 DEF ProcessDiagnosisResult, SelectFlash, SelectEeprom, RestorationFailed,
     RestoreRegisters, CopyBackup, StartMetering
<1>2. CASE BeginEepromBackup \/ EndRestoreEeprom
  BY <1>2 DEF BeginEepromBackup, EndRestoreEeprom
<1>3. CASE backup_energy_parameters
  BY <1>3 DEF backup_energy_parameters
<1>4. CASE Measure
  BY <1>4 DEF Measure
<1>5. CASE BackupTaskDue
  BY <1>5 DEF BackupTaskDue
<1>6. CASE per_minute_activity
  BY <1>6 DEF per_minute_activity
<1>7. CASE bor_reset
  BY <1>7 DEF bor_reset
<1>8. CASE Reset_System
  BY <1>8 DEF Reset_System
<1>9. CASE perform_flash_backup
  BY <1>9 DEF perform_flash_backup
<1>10. CASE flash_clr
  BY <1>10 DEF flash_clr
<1>11. CASE flashBackup
  BY <1>11 DEF flashBackup
<1>12. CASE FlashBackupDone
  BY <1>12 DEF FlashBackupDone
<1>13. CASE MainsToBattery
  <2>1. /\ UNCHANGED <<energy, after, buf, acc, flashCnt>>
        /\ UNCHANGED flash \/ flash' = Blank
        /\ UNCHANGED pc \/ pc' = "hibernate"
    BY <1>13 DEF MainsToBattery
  <2> QED
    BY <2>1
<1>14. CASE HibernateWithBackup
  BY <1>14 DEF HibernateWithBackup
<1>15. CASE MainsRestored
  BY <1>15 DEF MainsRestored
<1>16. CASE PowerFailDetected
  BY <1>16 DEF PowerFailDetected
<1>17. CASE perform_low_battery_backup
  BY <1>17 DEF perform_low_battery_backup
<1>18. CASE OscillatorFault
  <2>1. CASE flash' = Blank /\ UNCHANGED <<energy, pc, after, buf, acc, flashCnt>>
    BY <2>1
  <2>2. CASE Reboot(FALSE) /\ UNCHANGED flash
    BY <2>2
  <2> QED
    BY <1>18, <2>1, <2>2 DEF OscillatorFault
<1>19. CASE ResetAfterFault
  BY <1>19 DEF ResetAfterFault
<1>20. CASE PowerLoss
  BY <1>20 DEF PowerLoss
<1>21. CASE UNCHANGED vars
  BY <1>21 DEF vars
<1> QED
  BY <1>1, <1>2, <1>3, <1>4, <1>5, <1>6, <1>7, <1>8, <1>9, <1>10, <1>11,
     <1>12, <1>13, <1>14, <1>15, <1>16, <1>17, <1>18, <1>19, <1>20, <1>21
  DEF Next, MainStep, InterruptStep

(* A reboot takes no copy ahead of what the meter has shown.              *)
LEMMA RebootCopies ==
  ASSUME CopyInv, TypeOK', NEW s \in BOOLEAN, Reboot(s), UNCHANGED <<flash, eeprom>>
  PROVE  CopyInv'
<1> USE ThresholdsArePositive
    DEF CopyInv, BaseInv, TypeOK, Reboot, Shown, Metering, RegistersCleared, BootPCs, MeterPCs,
        FlashPCs, Amounts, Blank, NoTag
<1>1. Counters'
  BY DEF Counters
<1>2. Tagged'
  BY DEF Tagged
<1>3. NotAhead'
  BY DEF NotAhead, StopMetering
<1>4. NormalFollowsEeprom'
  BY DEF NormalFollowsEeprom
<1> QED
  BY <1>1, <1>2, <1>3, <1>4

(* No step puts a copy, in flash, EEPROM or on its way to flash, ahead of
   what the meter has shown. *)
LEMMA CopyInvStep == Accepting' /\ CopyInv /\ [Next]_vars => CopyInv'
<1> SUFFICES ASSUME Accepting', CopyInv, [Next]_vars PROVE CopyInv'
  OBVIOUS
<1>0. BaseInv'
  BY BaseInvStep DEF CopyInv
<1> USE <1>0, ThresholdsArePositive
    DEF CopyInv, BaseInv, TypeOK, Counters, Tagged, NotAhead, NormalFollowsEeprom, Shown,
        Metering, RegistersCleared, BootPCs, MeterPCs, FlashPCs, Amounts, Blank,
        Normal, LowBattery, OnBattery, NoTag, Urgent
<1>1. CASE ProcessDiagnosisResult
  BY <1>1 DEF ProcessDiagnosisResult
<1>2. CASE SelectFlash
  BY <1>2 DEF SelectFlash
<1>3. CASE SelectEeprom
  BY <1>3 DEF SelectEeprom, Tags
<1>4. CASE RestorationFailed
  BY <1>4 DEF RestorationFailed
<1>5. CASE RestoreRegisters
  <2>1. Counters'
    BY <1>5 DEF RestoreRegisters
  <2>2. Tagged'
    BY <1>5 DEF RestoreRegisters
  <2>3. NotAhead'
    BY <1>5 DEF RestoreRegisters
  <2>4. NormalFollowsEeprom'
    BY <1>5 DEF RestoreRegisters
  <2> QED
    BY <2>1, <2>2, <2>3, <2>4
<1>6. CASE CopyBackup
  BY <1>6 DEF CopyBackup
<1>7. CASE StartMetering
  BY <1>7 DEF StartMetering
<1>8. CASE BeginEepromBackup
  BY <1>8 DEF BeginEepromBackup
<1>9. CASE EndRestoreEeprom
  <2>1. CASE eeprom' = [ok |-> TRUE, val |-> energy]
    BY <1>9, <2>1 DEF EndRestoreEeprom
  <2>2. CASE mishaps' = mishaps \union {"refused"}
    BY <2>2 DEF Accepting
  <2> QED
    BY <1>9, <2>1, <2>2 DEF EndRestoreEeprom, EepromImageWritten
<1>10. CASE backup_energy_parameters
  <2>1. CASE eeprom' = [ok |-> TRUE, val |-> energy]
    BY <1>10, <2>1 DEF backup_energy_parameters
  <2>2. CASE mishaps' = mishaps \union {"refused"}
    BY <2>2 DEF Accepting
  <2> QED
    BY <1>10, <2>1, <2>2 DEF backup_energy_parameters, EepromImageWritten
<1>11. CASE Measure
  BY <1>11 DEF Measure
<1>12. CASE BackupTaskDue
  BY <1>12 DEF BackupTaskDue
<1>13. CASE per_minute_activity
  BY <1>13 DEF per_minute_activity
<1>14. CASE bor_reset
  BY <1>14 DEF bor_reset
<1>15. CASE Reset_System
  BY <1>15, RebootCopies DEF Reset_System
<1>16. CASE perform_flash_backup
  BY <1>16 DEF perform_flash_backup
<1>17. CASE flash_clr
  BY <1>17 DEF flash_clr
<1>18. CASE flashBackup
  BY <1>18 DEF flashBackup
<1>19. CASE FlashBackupDone
  BY <1>19 DEF FlashBackupDone
<1>20. CASE MainsToBattery
  <2>1. CASE flash' = Blank /\ UNCHANGED <<pc, before>>
    BY <1>20, <2>1 DEF MainsToBattery, InterruptsOn, NoteFlicker
  <2>2. CASE pc' = "hibernate" /\ StopMetering(FALSE) /\ UNCHANGED flash
    BY <1>20, <2>2 DEF MainsToBattery, StopMetering
  <2> QED
    BY <1>20, <2>1, <2>2 DEF MainsToBattery
<1>21. CASE HibernateWithBackup
  BY <1>21 DEF HibernateWithBackup, StopMetering
<1>22. CASE MainsRestored
  BY <1>22, RebootCopies DEF MainsRestored
<1>23. CASE PowerFailDetected
  BY <1>23 DEF PowerFailDetected, InterruptsOn
<1>24. CASE perform_low_battery_backup
  BY <1>24 DEF perform_low_battery_backup
<1>25. CASE OscillatorFault
  <2>1. CASE flash' = Blank /\ UNCHANGED <<energy, eeprom, pc, after, buf, acc,
                                            flashCnt, before>>
    BY <2>1
  <2>2. CASE Reboot(FALSE) /\ UNCHANGED <<flash, eeprom>>
    BY <2>2, RebootCopies
  <2> QED
    BY <1>25, <2>1, <2>2 DEF OscillatorFault
<1>26. CASE ResetAfterFault
  <2>1. Counters'
    BY <1>26 DEF ResetAfterFault, Reboot, StopMetering
  <2>2. Tagged'
    BY <1>26 DEF ResetAfterFault, Reboot, StopMetering
  <2>3. NotAhead'
    BY <1>26 DEF ResetAfterFault, Reboot, StopMetering
  <2>4. NormalFollowsEeprom'
    BY <1>26 DEF ResetAfterFault, Reboot, StopMetering
  <2> QED
    BY <2>1, <2>2, <2>3, <2>4
<1>27. CASE PowerLoss
  BY <1>27, RebootCopies DEF PowerLoss
<1>28. CASE UNCHANGED vars
  BY <1>28 DEF vars
<1> QED
  BY <1>1, <1>2, <1>3, <1>4, <1>5, <1>6, <1>7, <1>8, <1>9, <1>10, <1>11,
     <1>12, <1>13, <1>14, <1>15, <1>16, <1>17, <1>18, <1>19, <1>20,
     <1>21, <1>22, <1>23, <1>24, <1>25, <1>26, <1>27, <1>28
  DEF Next, MainStep, InterruptStep

-----------------------------------------------------------------------------
(* One EEPROM threshold less than a flash period is still a flash period
   less one threshold: the arithmetic of the loss bound. *)
LEMMA KwhProduct ==
  /\ KwhThreshold <= LossBound /\ KwhThreshold * 0 = 0
  /\ \A n \in Nat : n <= FlashEvery => KwhThreshold * n <= LossBound
  /\ \A n \in Nat : n < FlashEvery => KwhThreshold * n + KwhThreshold <= LossBound
  /\ LossBound \in Nat
BY ThresholdsArePositive DEF LossBound

(* What a boot would restore now lags behind the registers by at most the *)
(* loss bound.                                                            *)
LEMMA RecoverableLag ==
  ASSUME CopyInv, Guards, Lags, Metering, isr = "none"
  PROVE  Recoverable <= energy /\ energy <= Recoverable + LossBound
<1> USE DEF CopyInv, BaseInv, TypeOK, Amounts
<1>1. Recoverable <= energy
  BY ThresholdsArePositive DEF Recoverable, FlashChosen, NotAhead, Metering, Shown,
     RegistersCleared, MeterPCs, FlashPCs
<1>2. pc # "fb_write" => energy <= flash.val + LossBound
  <2> SUFFICES ASSUME pc # "fb_write" PROVE energy <= flash.val + LossBound
    OBVIOUS
  <2>1. energy <= flash.val + (KwhThreshold * flashCnt + acc)
    BY ThresholdsArePositive DEF Lags
  <2>2. KwhThreshold * flashCnt + acc <= LossBound
    <3>1. CASE flashCnt < FlashEvery
      BY <3>1, ThresholdsArePositive, KwhProduct
    <3>2. CASE pc \in FlashPCs /\ after = "run"
      BY <3>2, ThresholdsArePositive, KwhProduct DEF Lags
    <3> QED
      BY <3>1, <3>2 DEF Counters, Metering
  <2> QED
    BY <2>1, <2>2, ThresholdsArePositive, KwhProduct
<1>3. (pc = "ee_w" => eeprom.ok) => energy <= (IF eeprom.ok THEN eeprom.val ELSE 0) + LossBound
  BY ThresholdsArePositive, KwhProduct DEF Lags
<1>4. CASE FlashChosen
  <2>1. pc # "fb_write"
    BY <1>4 DEF FlashChosen, Guards, Blank, Urgent, Normal, LowBattery, OnBattery, NoTag
  <2> QED
    BY <1>1, <1>2, <1>4, <2>1 DEF Recoverable
<1>5. CASE ~FlashChosen /\ eeprom.ok
  BY <1>1, <1>3, <1>5 DEF Recoverable, NormalFollowsEeprom
<1>6. CASE ~FlashChosen /\ ~eeprom.ok
  <2>1. flash.val = 0
    BY <1>6 DEF FlashChosen, Tagged, Tags, Urgent, Normal, LowBattery, OnBattery, NoTag
  <2> QED
    BY <1>1, <1>2, <1>3, <1>6, <2>1 DEF Recoverable
<1> QED
  BY <1>4, <1>5, <1>6

(* Every step keeps what the guards of the backups rely on. *)
LEMMA GuardsStep == Dependable /\ Dependable' /\ LossInv /\ [Next]_vars => Guards'
<1> SUFFICES ASSUME Dependable, Dependable', LossInv, [Next]_vars PROVE Guards'
  OBVIOUS
<1>0. TypeOK'
  BY TypeStep DEF LossInv, CopyInv, BaseInv
<1> USE <1>0, ThresholdsArePositive
    DEF Dependable, LossInv, CopyInv, BaseInv, TypeOK, Counters, Tagged, NotAhead,
        NormalFollowsEeprom, Guards, HandOver, Filled, Restored, Recoverable,
        FlashChosen,
        Metering, RegistersCleared, BootPCs, MeterPCs, FlashPCs, Amounts, Blank,
        Normal, LowBattery, OnBattery, NoTag, Urgent, Tags
<1>1. CASE ProcessDiagnosisResult
  BY <1>1 DEF ProcessDiagnosisResult
<1>2. CASE SelectFlash
  BY <1>2 DEF SelectFlash
<1>3. CASE SelectEeprom
  BY <1>3 DEF SelectEeprom
<1>4. CASE RestorationFailed
  BY <1>4 DEF RestorationFailed
<1>5. CASE RestoreRegisters
  BY <1>5 DEF RestoreRegisters
<1>6. CASE CopyBackup
  BY <1>6 DEF CopyBackup
<1>7. CASE StartMetering
  BY <1>7 DEF StartMetering
<1>8. CASE BeginEepromBackup
  BY <1>8 DEF BeginEepromBackup
<1>9. CASE EndRestoreEeprom
  BY <1>9 DEF EndRestoreEeprom, EepromImageWritten
<1>10. CASE backup_energy_parameters
  BY <1>10 DEF backup_energy_parameters, EepromImageWritten
<1>11. CASE Measure
  BY <1>11 DEF Measure
<1>12. CASE BackupTaskDue
  BY <1>12 DEF BackupTaskDue
<1>13. CASE per_minute_activity
  BY <1>13 DEF per_minute_activity
<1>14. CASE bor_reset
  BY <1>14 DEF bor_reset
<1>15. CASE Reset_System
  BY <1>15 DEF Reset_System, Reboot, StopMetering
<1>16. CASE perform_flash_backup
  BY <1>16 DEF perform_flash_backup
<1>17. CASE flash_clr
  BY <1>17 DEF flash_clr
<1>18. CASE flashBackup
  BY <1>18 DEF flashBackup
<1>19. CASE FlashBackupDone
  BY <1>19 DEF FlashBackupDone
<1>20. CASE MainsToBattery
  <2>1. CASE flash' = Blank /\ isr' = "aux" /\ UNCHANGED <<pc, operational>> /\ ~backingUp
    BY <1>20, <2>1 DEF MainsToBattery, InterruptsOn, NoteFlicker
  <2>2. CASE pc' = "hibernate" /\ UNCHANGED <<flash, isr>>
    BY <1>20, <2>2 DEF MainsToBattery, InterruptsOn, NoteFlicker
  <2> QED
    BY <1>20, <2>1, <2>2 DEF MainsToBattery
<1>21. CASE HibernateWithBackup
  BY <1>21 DEF HibernateWithBackup, StopMetering
<1>22. CASE MainsRestored
  BY <1>22 DEF MainsRestored, Reboot, StopMetering
<1>23. CASE PowerFailDetected
  BY <1>23 DEF PowerFailDetected, InterruptsOn
<1>24. CASE perform_low_battery_backup
  BY <1>24 DEF perform_low_battery_backup
<1>25. CASE OscillatorFault
  <2>1. CASE /\ flash' = Blank /\ isr' = "oscillator" /\ ~backingUp
             /\ UNCHANGED <<pc, energy, after, buf, backingUp, operational>>
    BY <1>25, <2>1 DEF OscillatorFault, InterruptsOn, NoteFlicker
  <2>2. CASE Reboot(FALSE)
    BY <1>25, <2>2 DEF Reboot
  <2> QED
    BY <1>25, <2>1, <2>2 DEF OscillatorFault
<1>26. CASE ResetAfterFault
  BY <1>26 DEF ResetAfterFault, Reboot, StopMetering
<1>27. CASE PowerLoss
  BY <1>27 DEF PowerLoss, Reboot, AnyMeterState, StopMetering
<1>28. CASE UNCHANGED vars
  BY <1>28 DEF vars
<1> QED
  BY <1>1, <1>2, <1>3, <1>4, <1>5, <1>6, <1>7, <1>8, <1>9, <1>10, <1>11,
     <1>12, <1>13, <1>14, <1>15, <1>16, <1>17, <1>18, <1>19, <1>20,
     <1>21, <1>22, <1>23, <1>24, <1>25, <1>26, <1>27, <1>28
  DEF Next, MainStep, InterruptStep

(* Every step keeps what one writer of the flash segment leaves to the next. *)
LEMMA HandOverStep == Dependable /\ Dependable' /\ LossInv /\ [Next]_vars => HandOver'
<1> SUFFICES ASSUME Dependable, Dependable', LossInv, [Next]_vars PROVE HandOver'
  OBVIOUS
<1>0. TypeOK'
  BY TypeStep DEF LossInv, CopyInv, BaseInv
<1> USE <1>0, ThresholdsArePositive
    DEF Dependable, LossInv, CopyInv, BaseInv, TypeOK, Counters, Tagged, NotAhead,
        NormalFollowsEeprom, Guards, HandOver, ResetSaved, Filled, Restored,
        Recoverable, FlashChosen,
        Metering, RegistersCleared, BootPCs, MeterPCs, FlashPCs, Amounts, Blank,
        Normal, LowBattery, OnBattery, NoTag, Urgent, Tags
<1>1. CASE ProcessDiagnosisResult
  BY <1>1 DEF ProcessDiagnosisResult
<1>2. CASE SelectFlash
  BY <1>2 DEF SelectFlash
<1>3. CASE SelectEeprom
  BY <1>3 DEF SelectEeprom
<1>4. CASE RestorationFailed
  BY <1>4 DEF RestorationFailed
<1>5. CASE RestoreRegisters
  BY <1>5 DEF RestoreRegisters
<1>6. CASE CopyBackup
  BY <1>6 DEF CopyBackup
<1>7. CASE StartMetering
  BY <1>7 DEF StartMetering
<1>8. CASE BeginEepromBackup
  BY <1>8 DEF BeginEepromBackup
<1>9. CASE EndRestoreEeprom
  BY <1>9 DEF EndRestoreEeprom, EepromImageWritten
<1>10. CASE backup_energy_parameters
  BY <1>10 DEF backup_energy_parameters, EepromImageWritten
<1>11. CASE Measure
  BY <1>11 DEF Measure
<1>12. CASE BackupTaskDue
  BY <1>12 DEF BackupTaskDue
<1>13. CASE per_minute_activity
  BY <1>13 DEF per_minute_activity
<1>14. CASE bor_reset
  BY <1>14 DEF bor_reset
<1>15. CASE Reset_System
  BY <1>15 DEF Reset_System, Reboot, StopMetering
<1>16. CASE perform_flash_backup
  BY <1>16 DEF perform_flash_backup
<1>17. CASE flash_clr
  BY <1>17 DEF flash_clr
<1>18. CASE flashBackup
  BY <1>18 DEF flashBackup
<1>19. CASE FlashBackupDone
  BY <1>19 DEF FlashBackupDone
<1>20. CASE MainsToBattery
  BY <1>20 DEF MainsToBattery, StopMetering, InterruptsOn, NoteFlicker
<1>21. CASE HibernateWithBackup
  BY <1>21 DEF HibernateWithBackup, StopMetering
<1>22. CASE MainsRestored
  BY <1>22 DEF MainsRestored, Reboot, StopMetering
<1>23. CASE PowerFailDetected
  BY <1>23 DEF PowerFailDetected, InterruptsOn
<1>24. CASE perform_low_battery_backup
  BY <1>24 DEF perform_low_battery_backup
<1>25. CASE OscillatorFault
  BY <1>25 DEF OscillatorFault, Reboot, InterruptsOn, NoteFlicker, StopMetering
<1>26. CASE ResetAfterFault
  BY <1>26 DEF ResetAfterFault, Reboot, StopMetering
<1>27. CASE PowerLoss
  BY <1>27 DEF PowerLoss, Reboot, AnyMeterState, StopMetering
<1>28. CASE UNCHANGED vars
  BY <1>28 DEF vars
<1> QED
  BY <1>1, <1>2, <1>3, <1>4, <1>5, <1>6, <1>7, <1>8, <1>9, <1>10, <1>11,
     <1>12, <1>13, <1>14, <1>15, <1>16, <1>17, <1>18, <1>19, <1>20,
     <1>21, <1>22, <1>23, <1>24, <1>25, <1>26, <1>27, <1>28
  DEF Next, MainStep, InterruptStep

(* Every step keeps the distance between the registers and their copies
   within the thresholds. *)
LEMMA LagsStep == Dependable /\ Dependable' /\ LossInv /\ [Next]_vars => Lags'
<1> SUFFICES ASSUME Dependable, Dependable', LossInv, [Next]_vars PROVE Lags'
  OBVIOUS
<1>0. TypeOK'
  BY TypeStep DEF LossInv, CopyInv, BaseInv
<1> USE <1>0, ThresholdsArePositive
    DEF Dependable, LossInv, CopyInv, BaseInv, TypeOK, Counters, Tagged, NotAhead,
        NormalFollowsEeprom, Guards, HandOver, ResetSaved, Lags, Filled, Restored,
        Recoverable, FlashChosen,
        Metering, RegistersCleared, BootPCs, MeterPCs, FlashPCs, Amounts, Blank,
        Normal, LowBattery, OnBattery, NoTag, Urgent, Tags
<1>1. CASE ProcessDiagnosisResult
  BY <1>1 DEF ProcessDiagnosisResult
<1>2. CASE SelectFlash
  BY <1>2 DEF SelectFlash
<1>3. CASE SelectEeprom
  BY <1>3 DEF SelectEeprom
<1>4. CASE RestorationFailed
  BY <1>4 DEF RestorationFailed
<1>5. CASE RestoreRegisters
  BY <1>5 DEF RestoreRegisters
<1>6. CASE CopyBackup
  BY <1>6 DEF CopyBackup
<1>7. CASE StartMetering
  BY <1>7, KwhProduct DEF StartMetering
<1>8. CASE BeginEepromBackup
  BY <1>8 DEF BeginEepromBackup
<1>9. CASE EndRestoreEeprom
  BY <1>9 DEF EndRestoreEeprom, EepromImageWritten
<1>10. CASE backup_energy_parameters
  BY <1>10 DEF backup_energy_parameters, EepromImageWritten
<1>11. CASE Measure
  BY <1>11 DEF Measure
<1>12. CASE BackupTaskDue
  BY <1>12 DEF BackupTaskDue
<1>13. CASE per_minute_activity
  BY <1>13 DEF per_minute_activity
<1>14. CASE bor_reset
  BY <1>14 DEF bor_reset
<1>15. CASE Reset_System
  BY <1>15 DEF Reset_System, Reboot, StopMetering
<1>16. CASE perform_flash_backup
  BY <1>16 DEF perform_flash_backup
<1>17. CASE flash_clr
  BY <1>17 DEF flash_clr
<1>18. CASE flashBackup
  BY <1>18 DEF flashBackup
<1>19. CASE FlashBackupDone
  BY <1>19 DEF FlashBackupDone
<1>20. CASE MainsToBattery
  BY <1>20 DEF MainsToBattery, StopMetering, InterruptsOn, NoteFlicker
<1>21. CASE HibernateWithBackup
  BY <1>21 DEF HibernateWithBackup, StopMetering
<1>22. CASE MainsRestored
  BY <1>22 DEF MainsRestored, Reboot, StopMetering
<1>23. CASE PowerFailDetected
  BY <1>23 DEF PowerFailDetected, InterruptsOn
<1>24. CASE perform_low_battery_backup
  BY <1>24 DEF perform_low_battery_backup
<1>25. CASE OscillatorFault
  BY <1>25 DEF OscillatorFault, Reboot, InterruptsOn, NoteFlicker, StopMetering
<1>26. CASE ResetAfterFault
  BY <1>26 DEF ResetAfterFault, Reboot, StopMetering
<1>27. CASE PowerLoss
  BY <1>27 DEF PowerLoss, Reboot, AnyMeterState, StopMetering
<1>28. CASE UNCHANGED vars
  BY <1>28 DEF vars
<1> QED
  BY <1>1, <1>2, <1>3, <1>4, <1>5, <1>6, <1>7, <1>8, <1>9, <1>10, <1>11,
     <1>12, <1>13, <1>14, <1>15, <1>16, <1>17, <1>18, <1>19, <1>20,
     <1>21, <1>22, <1>23, <1>24, <1>25, <1>26, <1>27, <1>28
  DEF Next, MainStep, InterruptStep

(* A requested reset happens with the registers saved, whatever interrupts it. *)
LEMMA ResetSavedStep == Dependable /\ Dependable' /\ LossInv /\ [Next]_vars => ResetSaved'
<1> SUFFICES ASSUME Dependable, Dependable', LossInv, [Next]_vars PROVE ResetSaved'
  OBVIOUS
<1>0. TypeOK'
  BY TypeStep DEF LossInv, CopyInv, BaseInv
<1> USE <1>0, ThresholdsArePositive
    DEF Dependable, LossInv, CopyInv, BaseInv, TypeOK, Counters, Tagged, NotAhead,
        NormalFollowsEeprom, Guards, ResetSaved, Filled, Restored, Recoverable,
        FlashChosen,
        Metering, RegistersCleared, BootPCs, MeterPCs, FlashPCs, Amounts, Blank,
        Normal, LowBattery, OnBattery, NoTag, Urgent, Tags
<1>1. CASE ProcessDiagnosisResult
  BY <1>1 DEF ProcessDiagnosisResult
<1>2. CASE SelectFlash
  BY <1>2 DEF SelectFlash
<1>3. CASE SelectEeprom
  BY <1>3 DEF SelectEeprom
<1>4. CASE RestorationFailed
  BY <1>4 DEF RestorationFailed
<1>5. CASE RestoreRegisters
  BY <1>5 DEF RestoreRegisters
<1>6. CASE CopyBackup
  BY <1>6 DEF CopyBackup
<1>7. CASE StartMetering
  BY <1>7 DEF StartMetering
<1>8. CASE BeginEepromBackup
  BY <1>8 DEF BeginEepromBackup
<1>9. CASE EndRestoreEeprom
  BY <1>9 DEF EndRestoreEeprom, EepromImageWritten
<1>10. CASE backup_energy_parameters
  BY <1>10 DEF backup_energy_parameters, EepromImageWritten
<1>11. CASE Measure
  BY <1>11 DEF Measure
<1>12. CASE BackupTaskDue
  BY <1>12 DEF BackupTaskDue
<1>13. CASE per_minute_activity
  BY <1>13 DEF per_minute_activity
<1>14. CASE bor_reset
  BY <1>14 DEF bor_reset
<1>15. CASE Reset_System
  BY <1>15 DEF Reset_System, Reboot, StopMetering
<1>16. CASE perform_flash_backup
  BY <1>16 DEF perform_flash_backup
<1>17. CASE flash_clr
  BY <1>17 DEF flash_clr
<1>18. CASE flashBackup
  BY <1>18 DEF flashBackup
<1>19. CASE FlashBackupDone
  BY <1>19 DEF FlashBackupDone
<1>20. CASE MainsToBattery
  BY <1>20 DEF MainsToBattery, StopMetering, InterruptsOn, NoteFlicker
<1>21. CASE HibernateWithBackup
  BY <1>21 DEF HibernateWithBackup, StopMetering
<1>22. CASE MainsRestored
  BY <1>22 DEF MainsRestored, Reboot, StopMetering
<1>23. CASE PowerFailDetected
  BY <1>23 DEF PowerFailDetected, InterruptsOn
<1>24. CASE perform_low_battery_backup
  BY <1>24 DEF perform_low_battery_backup
<1>25. CASE OscillatorFault
  BY <1>25 DEF OscillatorFault, Reboot, InterruptsOn, NoteFlicker, StopMetering
<1>26. CASE ResetAfterFault
  BY <1>26 DEF ResetAfterFault, Reboot, StopMetering
<1>27. CASE PowerLoss
  BY <1>27 DEF PowerLoss, Reboot, AnyMeterState, StopMetering
<1>28. CASE UNCHANGED vars
  BY <1>28 DEF vars
<1> QED
  BY <1>1, <1>2, <1>3, <1>4, <1>5, <1>6, <1>7, <1>8, <1>9, <1>10, <1>11,
     <1>12, <1>13, <1>14, <1>15, <1>16, <1>17, <1>18, <1>19, <1>20,
     <1>21, <1>22, <1>23, <1>24, <1>25, <1>26, <1>27, <1>28
  DEF Next, MainStep, InterruptStep

(* A reboot without a backup recovers what Recoverable promised.          *)
LEMMA RebootRecovers ==
  ASSUME Dependable, LossInv, TypeOK', Reboot(FALSE), UNCHANGED <<flash, eeprom>>, isr = "none"
  PROVE  Recovers'
<1> USE DEF LossInv, CopyInv, BaseInv, TypeOK, Amounts, Reboot, StopMetering, Recovers, Loses
<1>1. UNCHANGED Recoverable
  BY DEF Recoverable, FlashChosen
<1>2. CASE Metering
  BY <1>1, <1>2, RecoverableLag DEF BootPCs, FlashPCs, Restored, RegistersCleared
<1>3. CASE ~Metering
  <2>1. Loses(Recoverable)
    BY <1>3 DEF HandOver, Metering, PCs, BootPCs, FlashPCs, Restored, RegistersCleared
  <2> QED
    BY <1>1, <1>3, <2>1 DEF BootPCs, FlashPCs, Restored, RegistersCleared
<1> QED
  BY <1>2, <1>3

(* A boot that has chosen a copy ends with the registers it promised. *)
LEMMA RecoversStep == Dependable /\ Dependable' /\ LossInv /\ [Next]_vars => Recovers'
<1> SUFFICES ASSUME Dependable, Dependable', LossInv, [Next]_vars PROVE Recovers'
  OBVIOUS
<1>0. TypeOK'
  BY TypeStep DEF LossInv, CopyInv, BaseInv
<1> USE <1>0, ThresholdsArePositive
    DEF Dependable, LossInv, CopyInv, BaseInv, TypeOK, Counters, Tagged, NotAhead,
        NormalFollowsEeprom, Guards, HandOver, Recovers, ResetSaved, Filled, Restored,
        Recoverable, FlashChosen,
        Metering, RegistersCleared, BootPCs, MeterPCs, FlashPCs, Amounts, Blank,
        Normal, LowBattery, OnBattery, NoTag, Urgent, Tags, Loses
<1>1. CASE ProcessDiagnosisResult
  BY <1>1 DEF ProcessDiagnosisResult
<1>2. CASE SelectFlash
  BY <1>2, RecoverableLag DEF SelectFlash
<1>3. CASE SelectEeprom
  BY <1>3, RecoverableLag DEF SelectEeprom
<1>4. CASE RestorationFailed
  BY <1>4, RecoverableLag DEF RestorationFailed
<1>5. CASE RestoreRegisters
  BY <1>5, RecoverableLag DEF RestoreRegisters
<1>6. CASE CopyBackup
  BY <1>6, RecoverableLag DEF CopyBackup
<1>7. CASE StartMetering
  BY <1>7, RecoverableLag DEF StartMetering
<1>8. CASE BeginEepromBackup
  BY <1>8, RecoverableLag DEF BeginEepromBackup
<1>9. CASE EndRestoreEeprom
  BY <1>9, RecoverableLag DEF EndRestoreEeprom, EepromImageWritten
<1>10. CASE backup_energy_parameters
  BY <1>10, RecoverableLag DEF backup_energy_parameters, EepromImageWritten
<1>11. CASE Measure
  BY <1>11, RecoverableLag DEF Measure
<1>12. CASE BackupTaskDue
  BY <1>12, RecoverableLag DEF BackupTaskDue
<1>13. CASE per_minute_activity
  BY <1>13, RecoverableLag DEF per_minute_activity
<1>14. CASE bor_reset
  BY <1>14, RecoverableLag DEF bor_reset
<1>15. CASE Reset_System
  BY <1>15, RecoverableLag DEF Reset_System, Reboot, StopMetering
<1>16. CASE perform_flash_backup
  BY <1>16, RecoverableLag DEF perform_flash_backup
<1>17. CASE flash_clr
  BY <1>17, RecoverableLag DEF flash_clr
<1>18. CASE flashBackup
  BY <1>18, RecoverableLag DEF flashBackup
<1>19. CASE FlashBackupDone
  BY <1>19, RecoverableLag DEF FlashBackupDone
<1>20. CASE MainsToBattery
  <2>1. CASE UNCHANGED <<pc, energy, after, before, orderly>>
    BY <1>20, <2>1 DEF MainsToBattery, InterruptsOn, NoteFlicker
  <2>2. CASE pc' = "hibernate" /\ StopMetering(FALSE) /\ UNCHANGED <<flash, isr>>
    BY <1>20, <2>2, RecoverableLag DEF MainsToBattery, StopMetering, InterruptsOn
  <2> QED
    BY <1>20, <2>1, <2>2 DEF MainsToBattery
<1>21. CASE HibernateWithBackup
  <2>1. Recoverable' = energy
    BY <1>21 DEF HibernateWithBackup
  <2>2. CASE Metering
    BY <1>21, <2>1, <2>2, KwhProduct DEF HibernateWithBackup, StopMetering
  <2>3. CASE ~Metering
    BY <1>21, <2>1, <2>3 DEF HibernateWithBackup, StopMetering, PCs
  <2> QED
    BY <2>2, <2>3
<1>22. CASE MainsRestored
  BY <1>22, RebootRecovers DEF MainsRestored
<1>23. CASE PowerFailDetected
  BY <1>23, RecoverableLag DEF PowerFailDetected, InterruptsOn
<1>24. CASE perform_low_battery_backup
  BY <1>24, RecoverableLag DEF perform_low_battery_backup
<1>25. CASE OscillatorFault
  <2>1. CASE isr' = "oscillator" /\ UNCHANGED <<pc, energy, after, before, orderly>>
    BY <1>25, <2>1 DEF OscillatorFault, InterruptsOn, NoteFlicker
  <2>2. CASE Reboot(FALSE) /\ UNCHANGED <<flash, eeprom, operational>>
    BY <1>25, <2>2, RebootRecovers DEF OscillatorFault, InterruptsOn, NoteFlicker
  <2> QED
    BY <1>25, <2>1, <2>2 DEF OscillatorFault
<1>26. CASE ResetAfterFault
  <2>1. Recoverable' = energy
    BY <1>26 DEF ResetAfterFault
  <2>2. CASE Metering
    BY <1>26, <2>1, <2>2, KwhProduct DEF ResetAfterFault, Reboot, StopMetering
  <2>3. CASE ~Metering
    BY <1>26, <2>1, <2>3 DEF ResetAfterFault, Reboot, StopMetering, PCs
  <2> QED
    BY <2>2, <2>3
<1>27. CASE PowerLoss
  BY <1>27, RebootRecovers DEF PowerLoss
<1>28. CASE UNCHANGED vars
  BY <1>28 DEF vars
<1> QED
  BY <1>1, <1>2, <1>3, <1>4, <1>5, <1>6, <1>7, <1>8, <1>9, <1>10, <1>11,
     <1>12, <1>13, <1>14, <1>15, <1>16, <1>17, <1>18, <1>19, <1>20,
     <1>21, <1>22, <1>23, <1>24, <1>25, <1>26, <1>27, <1>28
  DEF Next, MainStep, InterruptStep

-----------------------------------------------------------------------------
(* A blank meter loses nothing. *)
LEMMA InitLossInv == Init => LossInv
<1> SUFFICES ASSUME Init PROVE LossInv
  OBVIOUS
<1> USE ThresholdsArePositive
    DEF Init, BootPCs, MeterPCs, FlashPCs, Blank, Amounts, NoTag, Metering,
        RegistersCleared
<1>1. TypeOK
  <2>1. /\ flash \in [tag : Tags \union {NoTag}, val : Amounts]
        /\ buf \in [tag : Tags \union {NoTag}, val : Amounts]
        /\ eeprom \in [ok : BOOLEAN, val : Amounts]
    OBVIOUS
  <2>2. /\ pc \in PCs /\ after \in {"run", "start", "reset"}
        /\ isr \in {"none", "aux", "zero_crossing", "oscillator"}
    BY DEF PCs
  <2>3. energy \in Amounts /\ before \in Amounts
    OBVIOUS
  <2>4. acc \in 0 .. KwhThreshold /\ flashCnt \in 0 .. FlashEvery
    OBVIOUS
  <2>5. backingUp \in BOOLEAN /\ operational \in BOOLEAN /\ logged \in BOOLEAN /\ orderly \in BOOLEAN
    OBVIOUS
  <2> QED
    BY <2>1, <2>2, <2>3, <2>4, <2>5 DEF TypeOK
<1>2. CopyInv
  BY <1>1 DEF CopyInv, BaseInv, Counters, Tagged, NotAhead, NormalFollowsEeprom, Shown, Normal
<1>3. Guards /\ Lags /\ ResetSaved
  BY DEF Guards, Filled, Lags, ResetSaved
<1>4. HandOver /\ Recovers
  BY KwhProduct DEF HandOver, Recovers, Restored, Recoverable, FlashChosen, Loses,
     Urgent, Normal,
     LowBattery, OnBattery
<1> QED
  BY <1>2, <1>3, <1>4 DEF LossInv

(* Mishaps are never forgotten. *)
LEMMA MishapsStay == [Next]_vars => mishaps \subseteq mishaps'
<1> SUFFICES ASSUME [Next]_vars PROVE mishaps \subseteq mishaps'
  OBVIOUS
<1>1. CASE MainStep
  BY <1>1 DEF MainStep, ProcessDiagnosisResult, SelectFlash, SelectEeprom,
     RestorationFailed, RestoreRegisters, CopyBackup, StartMetering, BeginEepromBackup,
     EndRestoreEeprom, backup_energy_parameters, EepromImageWritten, Measure,
     BackupTaskDue, per_minute_activity, bor_reset, Reset_System, perform_flash_backup,
     flash_clr, flashBackup, FlashBackupDone
<1>2. CASE InterruptStep
  BY <1>2 DEF InterruptStep, MainsToBattery, HibernateWithBackup, MainsRestored,
     PowerFailDetected, perform_low_battery_backup, OscillatorFault, ResetAfterFault,
     NoteFlicker
<1>3. CASE PowerLoss
  BY <1>3 DEF PowerLoss
<1> QED
  BY <1>1, <1>2, <1>3 DEF Next, vars

(* So a meter is dependable, and its EEPROM has accepted all, from the start. *)
LEMMA StaysDependable == [Next]_vars /\ Dependable' => Dependable
BY MishapsStay DEF Dependable

LEMMA StaysAccepting == [Next]_vars /\ Accepting' => Accepting
BY MishapsStay DEF Accepting

(* The conjuncts of LossInv, each kept by its own lemma, are kept together. *)
LEMMA LossInvStep == Dependable /\ Dependable' /\ LossInv /\ [Next]_vars => LossInv'
<1>1. Dependable' => Accepting'
  BY DEF Dependable, Accepting
<1> QED
  BY <1>1, CopyInvStep, GuardsStep, HandOverStep, LagsStep, ResetSavedStep, RecoversStep DEF
   LossInv

(* Until the first mishap the loss invariant holds. *)
LEMMA LossInvariant == Spec => [](Dependable => LossInv)
<1>1. Init => LossInv
  BY InitLossInv
<1>2. (Dependable => LossInv) /\ [Next]_vars => (Dependable => LossInv)'
  BY StaysDependable, LossInvStep
<1> QED
  BY <1>1, <1>2, PTL DEF Spec

(* No copy is ahead of what the meter has shown until the EEPROM refuses a
   backup, whatever the supply does. *)
LEMMA CopyInvariant == Spec => [](Accepting => CopyInv)
<1>1. Init => CopyInv
  BY InitLossInv DEF LossInv
<1>2. (Accepting => CopyInv) /\ [Next]_vars => (Accepting => CopyInv)'
  BY StaysAccepting, CopyInvStep
<1> QED
  BY <1>1, <1>2, PTL DEF Spec

-----------------------------------------------------------------------------
(* Every variable has its type: the counters stay within their thresholds *)
(* (check_for_backup, backup_energy_parameters).                          *)
THEOREM TypeCorrect == Spec => []TypeOK
<1>1. Init => BaseInv
  BY InitLossInv DEF LossInv, CopyInv
<1>2. BaseInv => TypeOK
  BY DEF BaseInv
<1> QED
  BY <1>1, <1>2, BaseInvStep, PTL DEF Spec

(* Until the EEPROM refuses a backup, whatever the supply does, and       *)
(* wherever a boot is cut short, a restore never shows more than the      *)
(* meter had shown.                                                       *)
THEOREM NeverOverbilled == Spec => []NeverOverbills
<1>1. (Accepting => CopyInv) => NeverOverbills
  BY DEF Accepting, CopyInv, BaseInv, NotAhead, NeverOverbills, Shown, Metering, MeterPCs, FlashPCs
<1> QED
  BY <1>1, CopyInvariant, PTL

(* Until the first mishap, what a power failure loses is bounded at every *)
(* point of a backup, and what a restore brings back is within that bound. *)
THEOREM LossIsBounded == Spec => []LossBounded
<1>1. LossInv /\ Metering => Secured <= energy /\ energy <= Secured + LossBound
  <2> SUFFICES ASSUME LossInv, Metering
               PROVE  Secured <= energy /\ energy <= Secured + LossBound
    OBVIOUS
  <2>1. CASE isr = "none"
    BY <2>1, RecoverableLag DEF LossInv, Secured
  <2>2. CASE isr # "none"
    BY <2>2, KwhProduct DEF LossInv, CopyInv, BaseInv, TypeOK, Amounts, Secured
  <2> QED
    BY <2>1, <2>2
<1>2. LossInv /\ pc = "start" => before <= energy + LossBound
  BY DEF LossInv, Recovers, Loses, Restored, BootPCs
<1>3. (Dependable => LossInv) => LossBounded
  BY <1>1, <1>2 DEF LossBounded
<1> QED
  BY <1>3, LossInvariant, PTL

(* Until the first mishap, registers that were saved when the meter       *)
(* stopped are restored as they were.                                     *)
THEOREM OrderlyIsExact == Spec => []OrderlyRestoreExact
<1>1. (Dependable => LossInv) => OrderlyRestoreExact
  BY DEF LossInv, Recovers, Loses, Restored, BootPCs, OrderlyRestoreExact
<1> QED
  BY <1>1, LossInvariant, PTL

(* Until the first mishap, a hibernating meter has its registers in       *)
(* flash.                                                                 *)
THEOREM HibernationSaves == Spec => []HibernatesSaved
<1>1. (Dependable => LossInv) => HibernatesSaved
  BY DEF LossInv, Recovers, Loses, HibernatesSaved
<1> QED
  BY <1>1, LossInvariant, PTL

(* Until the first mishap, no step of a boot, and no failure during it,   *)
(* makes less energy recoverable.                                         *)
THEOREM RecoveryIsIdempotent == Spec => RecoveryIdempotent
<1>1. /\ Dependable => LossInv
      /\ (Dependable => LossInv)'
      /\ [Next]_vars
      => [Dependable' /\ ~Metering /\ ~Metering' => Secured' >= Secured]_vars
  <2> SUFFICES ASSUME Dependable, Dependable', LossInv, LossInv', Next,
                      ~Metering, ~Metering'
               PROVE  Secured' >= Secured
    BY StaysDependable DEF vars
  <2> USE DEF Dependable, LossInv, CopyInv, BaseInv, TypeOK, Amounts
  <2>1. Secured = IF Restored THEN energy ELSE Recoverable
    BY DEF Guards, HandOver, Secured, Metering, Restored, PCs, BootPCs, FlashPCs,
       RegistersCleared
  <2>2. Secured' = (IF Restored THEN energy ELSE Recoverable)'
    BY DEF Guards, HandOver, Secured, Metering, Restored, PCs, BootPCs, FlashPCs,
       RegistersCleared
  <2>3. CASE UNCHANGED <<flash, eeprom, isr>> /\ isr = "none"
    BY <2>3 DEF Secured, Recoverable, FlashChosen
  <2>4. CASE Restored /\ Restored' /\ UNCHANGED energy
    BY <2>1, <2>2, <2>4
  <2>5. CASE Restored /\ flash' = [tag |-> OnBattery, val |-> energy] /\ isr' = "none"
    BY <2>1, <2>5 DEF Secured, Recoverable, FlashChosen, Urgent
  <2>6. CASE MainStep
    <3>1. CASE BeginEepromBackup \/ EndRestoreEeprom \/ backup_energy_parameters
      BY <2>4, <3>1 DEF BeginEepromBackup, EndRestoreEeprom, backup_energy_parameters,
         Restored,
         Metering, BootPCs, MeterPCs
    <3>2. CASE flash_clr \/ flashBackup
      BY <2>4, <3>2 DEF flash_clr, flashBackup, Restored, Metering, BootPCs, FlashPCs
    <3>3. CASE ProcessDiagnosisResult \/ SelectFlash \/ SelectEeprom \/ RestorationFailed
               \/ RestoreRegisters \/ CopyBackup \/ StartMetering
      BY <2>3, <3>3 DEF ProcessDiagnosisResult, SelectFlash, SelectEeprom,
         RestorationFailed,
         RestoreRegisters, CopyBackup, StartMetering
    <3>4. CASE Measure \/ BackupTaskDue \/ per_minute_activity \/ bor_reset \/ Reset_System
               \/ perform_flash_backup \/ FlashBackupDone
      BY <2>3, <3>4 DEF Measure, BackupTaskDue, per_minute_activity, bor_reset,
         Reset_System,
         Reboot, perform_flash_backup, FlashBackupDone
    <3> QED
      BY <2>6, <3>1, <3>2, <3>3, <3>4 DEF MainStep
  <2>7. CASE InterruptStep
    <3>1. CASE MainsToBattery \/ OscillatorFault
      <4>1. CASE UNCHANGED <<flash, eeprom>> /\ isr' = isr
        BY <2>3, <3>1, <4>1 DEF MainsToBattery, OscillatorFault, InterruptsOn
      <4>2. CASE UNCHANGED <<pc, energy, after>> /\ NoteFlicker
        <5>1. ~RegistersCleared
          BY <4>2 DEF NoteFlicker
        <5>2. pc # "hibernate"
          BY <3>1 DEF MainsToBattery, OscillatorFault, InterruptsOn
        <5>3. Restored /\ Restored'
          BY <4>2, <5>1, <5>2 DEF Restored, Metering, PCs, BootPCs, FlashPCs,
             RegistersCleared
        <5> QED
          BY <2>4, <4>2, <5>3
      <4>3. CASE MainsToBattery
        BY <4>1, <4>2, <4>3 DEF MainsToBattery
      <4>4. CASE OscillatorFault
        BY <4>1, <4>2, <4>4 DEF OscillatorFault, InterruptsOn, Reboot
      <4> QED
        BY <3>1, <4>3, <4>4
    <3>2. CASE HibernateWithBackup \/ ResetAfterFault
      BY <2>5, <3>2 DEF HibernateWithBackup, ResetAfterFault, Reboot, Guards,
         Restored, Metering,
         PCs, BootPCs, FlashPCs, RegistersCleared
    <3>3. CASE MainsRestored
      BY <2>3, <3>3 DEF MainsRestored, Reboot
    <3>4. CASE PowerFailDetected \/ perform_low_battery_backup
      BY <3>4 DEF PowerFailDetected, perform_low_battery_backup, Guards
    <3> QED
      BY <2>7, <3>1, <3>2, <3>3, <3>4 DEF InterruptStep
  <2>8. CASE PowerLoss
    BY <2>3, <2>8 DEF PowerLoss, Reboot
  <2> QED
    BY <2>6, <2>7, <2>8 DEF Next
<1> QED
  BY <1>1, LossInvariant, PTL DEF Spec, RecoveryIdempotent
=============================================================================
