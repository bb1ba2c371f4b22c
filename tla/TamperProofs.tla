---------------------------- MODULE TamperProofs ----------------------------
(***************************************************************************)
(* The tamper detection of the covers, for any number of openings, power   *)
(* failures, EEPROM errors and resets by clients.                          *)
(***************************************************************************)
EXTENDS Tamper, TLAPS

Awake == phase \in {"main", "log", "release"}

(* A request is remembered as long as its task waits or runs; the backup   *)
(* registers are empty while the meter runs.                               *)
TypeInv ==
  /\ TypeOK
  /\ BAKMEM \in [Covers -> {0, 2, 3}]
  /\ phase \in {"log", "release"} => cover \in Scheduled /\ tasks = Scheduled \ {cover}
  /\ Awake => BAKMEM = [c \in Covers |-> 0] /\ BAKMEM2 = 0

(* The sum that the restore looks at is 0 only if no cover is noted.       *)
LEMMA SumOfBackup ==
  ASSUME TypeInv
  PROVE  /\ Sum \in Nat
         /\ Sum = 0 => \A c \in Covers : BAKMEM[c] = 0
BY DEF TypeInv, TypeOK, Sum, Covers, Code

(* The boot of a reset, or of a battery that gave out, keeps the invariant.*)
LEMMA BootTypeInv == TypeInv /\ Boot => TypeInv'
<1> SUFFICES ASSUME TypeInv, Boot PROVE TypeInv'
  OBVIOUS
<1> USE DEF TypeInv, TypeOK, Boot, Awake
<1>1. BAKMEM' = [c \in Covers |-> 0] /\ BAKMEM2' = 0 /\ phase' = "main"
  OBVIOUS
<1>2. BAKMEM' \in [Covers -> {0, 2, 3}] /\ \A c \in Covers : BAKMEM'[c] \in {0, Code(c)}
  BY <1>1
<1>3. /\ Scheduled' = {} /\ tasks' = {} /\ flag' = {} /\ status' = {}
      /\ UNCHANGED <<open, magnet, cover, eeprom>>
  OBVIOUS
<1>4. armed' \in BOOLEAN /\ LoggedStatus' \in BOOLEAN /\ writeStatus' \in BOOLEAN
  BY Zenon
<1>5. QED
  BY <1>1, <1>2, <1>3, <1>4 DEF Phases

(* LCTamperDetected and UCTamperDetected leave tamper bits.                *)
LEMMA DetectedBits ==
  ASSUME TypeInv, NEW c \in Covers, TamperDetected(c)
  PROVE  /\ status' \subseteq Tampers /\ eeprom' \subseteq Tampers
         /\ LoggedStatus' \in BOOLEAN /\ writeStatus' \in BOOLEAN
<1>1. status' \subseteq Tampers /\ eeprom' \subseteq Tampers
  BY DEF TypeInv, TypeOK, TamperDetected, Tampers
<1>2. LoggedStatus' \in BOOLEAN /\ writeStatus' \in BOOLEAN
  BY Zenon DEF TypeInv, TypeOK, TamperDetected
<1>3. QED
  BY <1>1, <1>2

(* So does every other step, with or without supply.                       *)
LEMMA TypeInvStep == TypeInv /\ [Next]_vars => TypeInv'
<1> SUFFICES ASSUME TypeInv, [Next]_vars PROVE TypeInv'
  OBVIOUS
<1> USE DEF TypeInv, TypeOK, Awake, hardware, tasking, bits, backup, history, Sum
<1>1. ASSUME NEW c \in Covers, OpenCover(c) PROVE TypeInv'
  BY <1>1 DEF OpenCover
<1>2. ASSUME NEW c \in Covers, CloseCover(c) PROVE TypeInv'
  BY <1>2 DEF CloseCover
<1>3. ASSUME NEW c \in Covers, PortAwake(c) PROVE TypeInv'
  <2>1. /\ flag' \subseteq Covers /\ Scheduled' = Scheduled \union {c}
        /\ tasks' = IF c \in Scheduled THEN tasks ELSE tasks \union {c}
    BY <1>3 DEF PortAwake, Served
  <2>2. tasks' \subseteq Scheduled' /\ (phase = "main" => Scheduled' = tasks')
    BY <2>1
  <2>3. phase \in {"log", "release"} => tasks' = Scheduled' \ {cover}
    <3>1. CASE c \in Scheduled
      BY <2>1, <3>1
    <3>2. CASE c \notin Scheduled
      <4>1. phase \in {"log", "release"} => c # cover
        BY <3>2, <1>3 DEF PortAwake
      <4>2. QED
        BY <2>1, <3>2, <4>1
    <3>3. QED
      BY <3>1, <3>2
  <2>4. UNCHANGED <<open, magnet, armed, phase, cover, bits, backup>>
    BY <1>3 DEF PortAwake
  <2>5. QED
    BY <2>1, <2>2, <2>3, <2>4
<1>4. ASSUME NEW c \in Covers, PortAsleep(c) PROVE TypeInv'
  <2>1. /\ BAKMEM' = [BAKMEM EXCEPT ![c] = Code(c)] /\ phase' = "sleep"
        /\ BAKMEM2' = Sum'
    BY <1>4 DEF PortAsleep, Noted
  <2>2. BAKMEM' \in [Covers -> {0, 2, 3}] /\ \A d \in Covers : BAKMEM'[d] \in {0, Code(d)}
    BY <2>1 DEF Code
  <2>3. flag' \subseteq Covers /\ status' \subseteq Tampers
    BY <1>4 DEF PortAsleep, Served, Tampers
  <2>4. UNCHANGED <<open, magnet, tasking, phase, cover, LoggedStatus, writeStatus, eeprom>>
    BY <1>4 DEF PortAsleep
  <2> HIDE DEF Sum
  <2>5. QED
    BY <2>1, <2>2, <2>3, <2>4
<1>5. CASE MoveMagnet
  <2>1. magnet' \in BOOLEAN
    BY <1>5, Zenon DEF MoveMagnet
  <2>2. QED
    BY <1>5, <2>1 DEF MoveMagnet
<1>6. ASSUME NEW c \in Covers, ProcessTamper(c) PROVE TypeInv'
  BY <1>6 DEF ProcessTamper, Phases
<1>7. CASE LogTamper
  <2>1. /\ status' \subseteq Tampers /\ eeprom' \subseteq Tampers
        /\ LoggedStatus' \in BOOLEAN /\ writeStatus' \in BOOLEAN
    BY <1>7, DetectedBits DEF LogTamper
  <2>2. /\ phase = "log" /\ phase' = "release"
        /\ UNCHANGED <<hardware, tasking, cover, backup>>
    BY <1>7 DEF LogTamper
  <2>3. QED
    BY <2>1, <2>2 DEF Phases
<1>8. CASE Release
  BY <1>8 DEF Release, Released, Phases
<1>9. CASE per_second_activity
  <2>1. status' \subseteq Tampers /\ eeprom' \subseteq Tampers
    BY <1>9 DEF per_second_activity, NewStatus, WriteStatus, Tampers
  <2>2. LoggedStatus' \in BOOLEAN
    BY <1>9, Zenon DEF per_second_activity, MagnetLogged
  <2>3. writeStatus' \in BOOLEAN
    BY <1>9, Zenon DEF per_second_activity, WriteStatus
  <2>4. UNCHANGED <<hardware, tasking, phase, cover, backup>>
    BY <1>9 DEF per_second_activity
  <2>5. QED
    BY <2>1, <2>2, <2>3, <2>4
<1>10. CASE NeutralTamper
  <2>1. status' \subseteq Tampers
    BY <1>10 DEF NeutralTamper, Tampers
  <2>2. QED
    BY <1>10, <2>1 DEF NeutralTamper
<1>11. ASSUME NEW t \in Tampers, reset_alarms(t) PROVE TypeInv'
  BY <1>11 DEF reset_alarms
<1>12. CASE initTamper
  <2>1. armed' \in BOOLEAN
    BY <1>12, Zenon DEF initTamper
  <2>2. status' \subseteq Tampers /\ flag' = {}
    BY <1>12 DEF initTamper
  <2>3. UNCHANGED <<open, magnet, Scheduled, tasks, phase, cover, LoggedStatus, writeStatus,
                    eeprom, backup>>
    BY <1>12 DEF initTamper
  <2>4. QED
    BY <2>1, <2>2, <2>3
<1>13. CASE PowerFail
  <2>1. /\ phase' = "sleep" /\ BAKMEM = [c \in Covers |-> 0] /\ BAKMEM2 = 0
        /\ UNCHANGED <<hardware, tasking, cover, bits, backup>>
    BY <1>13 DEF PowerFail
  <2>2. BAKMEM2' = Sum'
    BY <2>1 DEF Covers
  <2>3. QED
    BY <2>1, <2>2 DEF Phases
<1>14. CASE RestorePower
  BY <1>14 DEF RestorePower, Phases
<1>15. CASE RestoreLC \/ RestoreUC
  <2>1. PICK c \in Covers, after \in {"logUC", "save"} :
          \E before \in {"logLC", "logUC"} : RestoreCover(c, before, after)
    BY <1>15 DEF RestoreLC, RestoreUC, Covers
  <2>2. /\ status' \subseteq Tampers /\ eeprom' \subseteq Tampers
        /\ LoggedStatus' \in BOOLEAN /\ writeStatus' \in BOOLEAN
    BY <2>1, DetectedBits DEF RestoreCover
  <2>3. BAKMEM' \in [Covers -> {0, 2, 3}] /\ \A d \in Covers : BAKMEM'[d] \in {0, Code(d)}
    BY <2>1 DEF RestoreCover
  <2>4. phase' = after /\ UNCHANGED <<hardware, tasking, cover>>
    BY <2>1 DEF RestoreCover
  <2>5. QED
    BY <2>2, <2>3, <2>4 DEF Phases
<1>16. CASE RestoreStatus
  <2>1. eeprom' \subseteq Tampers
    BY <1>16 DEF RestoreStatus
  <2>2. QED
    BY <1>16, <2>1 DEF RestoreStatus, Phases
<1>17. CASE Reset_System \/ BatteryEmpty
  BY <1>17, BootTypeInv DEF Reset_System, BatteryEmpty
<1>18. CASE UNCHANGED vars
  BY <1>18 DEF vars
<1>19. QED
  BY <1>1, <1>2, <1>3, <1>4, <1>5, <1>6, <1>7, <1>8, <1>9, <1>10, <1>11, <1>12, <1>13, <1>14,
     <1>15, <1>16, <1>17, <1>18 DEF Next, Restore

(* Both hold for ever.                                                     *)
LEMMA TypeInvariant == Spec => []TypeInv
<1>1. Init => TypeInv
  BY DEF Init, TypeInv, TypeOK, Awake, Phases, Covers, Code, Sum
<1>2. QED
  BY <1>1, TypeInvStep, PTL DEF Spec

(* The switches, the tasks and the tamper bits have their types; the sum   *)
(* that is checked at the restore is right as long as the meter sleeps, in *)
(* whatever order and however often the covers are opened; and a request   *)
(* for a cover is remembered only while a task waits or runs for it.       *)
THEOREM TamperTypeCorrect == Spec => []TypeOK
<1>1. TypeInv => TypeOK
  BY DEF TypeInv
<1>2. QED
  BY <1>1, TypeInvariant, PTL

-----------------------------------------------------------------------------
(* Openings while the meter sleeps.                                        *)

(* An opening that is owed is in the backup registers until the handler of *)
(* the restore has come past its cover.                                    *)
OwedInv ==
  /\ owed \subseteq Covers
  /\ Awake \/ phase \in {"save", "reset"} => owed = {}
  /\ phase = "logUC" => owed \subseteq {"UC"}
  /\ \A c \in owed : BAKMEM[c] = Code(c)

(* Noting, the handler of the restore cover by cover, and a loss of the    *)
(* battery keep it.                                                        *)
LEMMA OwedInvariant == Spec => []OwedInv
<1>1. Init => OwedInv
  BY DEF Init, OwedInv, Awake
<1>2. TypeInv /\ OwedInv /\ [Next]_vars => OwedInv'
  <2> SUFFICES ASSUME TypeInv, OwedInv, [Next]_vars PROVE OwedInv'
    OBVIOUS
  <2> USE DEF OwedInv, Awake, hardware, tasking, bits, backup, history
  <2>1. ASSUME UNCHANGED <<BAKMEM, owed>>, phase' = phase PROVE OwedInv'
    BY <2>1
  <2>2. ASSUME NEW c \in Covers, OpenCover(c) \/ CloseCover(c) \/ PortAwake(c) PROVE OwedInv'
    BY <2>1, <2>2 DEF OpenCover, CloseCover, PortAwake
  <2>3. ASSUME NEW c \in Covers, PortAsleep(c) PROVE OwedInv'
    <3>1. /\ phase' = "sleep" /\ owed' = owed \union {c}
          /\ BAKMEM' = [BAKMEM EXCEPT ![c] = Code(c)]
      BY <2>3 DEF PortAsleep, Noted
    <3>2. \A d \in owed' : BAKMEM'[d] = Code(d)
      BY <3>1 DEF TypeInv
    <3>3. QED
      BY <3>1, <3>2
  <2>4. CASE MoveMagnet \/ per_second_activity \/ NeutralTamper \/ initTamper
    BY <2>1, <2>4 DEF MoveMagnet, per_second_activity, NeutralTamper, initTamper
  <2>5. ASSUME NEW t \in Tampers, reset_alarms(t) PROVE OwedInv'
    BY <2>1, <2>5 DEF reset_alarms
  <2>6. ASSUME NEW c \in Covers, ProcessTamper(c) PROVE OwedInv'
    BY <2>6 DEF ProcessTamper
  <2>7. CASE LogTamper \/ Release
    BY <2>7 DEF LogTamper, TamperDetected, Release
  <2>8. CASE PowerFail
    BY <2>8 DEF PowerFail
  <2>9. CASE RestorePower
    <3>1. CASE BAKMEM2 = Sum /\ Sum # 0
      BY <2>9, <3>1 DEF RestorePower
    <3>2. CASE Sum = 0
      <4>1. owed = {}
        BY <3>2, SumOfBackup DEF Covers, Code
      <4>2. QED
        BY <2>9, <4>1 DEF RestorePower
    <3>3. QED
      BY <2>9, <3>1, <3>2 DEF RestorePower, TypeInv, TypeOK
  <2>10. CASE RestoreLC \/ RestoreUC
    <3>1. PICK c \in Covers, after \in {"logUC", "save"} :
            /\ RestoreCover(c, IF c = "LC" THEN "logLC" ELSE "logUC", after)
            /\ after = "logUC" <=> c = "LC"
      BY <2>10 DEF RestoreLC, RestoreUC, Covers
    <3>2. /\ phase' = after
          /\ phase = IF c = "LC" THEN "logLC" ELSE "logUC"
      BY <3>1 DEF RestoreCover
    <3>3. owed' = owed \ {c}
      BY <3>1 DEF RestoreCover, TamperDetected
    <3>4. \A d \in owed' : BAKMEM'[d] = BAKMEM[d]
      BY <3>1, <3>3 DEF RestoreCover, TypeInv
    <3>5. QED
      BY <3>1, <3>2, <3>3, <3>4 DEF Covers
  <2>11. CASE RestoreStatus
    BY <2>11 DEF RestoreStatus
  <2>12. CASE Reset_System
    BY <2>12 DEF Reset_System, Boot
  <2>13. CASE BatteryEmpty
    BY <2>13 DEF BatteryEmpty, Boot
  <2>14. CASE UNCHANGED vars
    BY <2>1, <2>14 DEF vars
  <2>15. QED
    BY <2>2, <2>3, <2>4, <2>5, <2>6, <2>7, <2>8, <2>9, <2>10, <2>11, <2>12, <2>13, <2>14
       DEF Next, Restore
<1>3. QED
  BY <1>1, <1>2, TypeInvariant, PTL DEF Spec

(* When the meter works again, every opening that it noted on its battery  *)
(* has come to an event or been counted as one that EEPROM refused, unless *)
(* the battery gave out: custom_power_restore_handler passes none over.    *)
THEOREM OpeningIsKept == Spec => []OpeningKept
<1>1. OwedInv => OpeningKept
  BY DEF OwedInv, OpeningKept, Awake
<1>2. QED
  BY <1>1, OwedInvariant, PTL

-----------------------------------------------------------------------------
(* The tamper bits.                                                        *)

(* Once the bits have been read, what EEPROM holds of a cover is in RAM    *)
(* until a client resets it.                                               *)
LatchInv ==
  known => \A c \in Covers : c \in eeprom /\ c \notin cleared => c \in status

(* A magnet, an imbalance, a failed write and a reset keep it.             *)
LEMMA LatchInvariant == Spec => []LatchInv
<1>1. Init => LatchInv
  BY DEF Init, LatchInv
<1>2. LatchInv /\ [Next]_vars => LatchInv'
  <2> SUFFICES ASSUME LatchInv, [Next]_vars PROVE LatchInv'
    OBVIOUS
  <2> USE DEF LatchInv, hardware, tasking, bits, backup, history, Covers
  <2>1. ASSUME UNCHANGED <<status, eeprom, known, cleared>> PROVE LatchInv'
    BY <2>1
  <2>2. ASSUME NEW c \in Covers, OpenCover(c) \/ CloseCover(c) \/ PortAwake(c) \/ ProcessTamper(c)
        PROVE  LatchInv'
    BY <2>1, <2>2 DEF OpenCover, CloseCover, PortAwake, ProcessTamper
  <2>3. ASSUME NEW c \in Covers, PortAsleep(c) PROVE LatchInv'
    BY <2>3 DEF PortAsleep
  <2>4. ASSUME NEW c \in Covers, TamperDetected(c), known' = known PROVE LatchInv'
    BY <2>4 DEF TamperDetected
  <2>5. CASE MoveMagnet \/ Release \/ PowerFail \/ RestorePower
    BY <2>1, <2>5 DEF MoveMagnet, Release, PowerFail, RestorePower
  <2>6. CASE LogTamper
    <3>1. TamperDetected(cover) /\ UNCHANGED known
      BY <2>6 DEF LogTamper
    <3>2. QED
      BY <3>1 DEF TamperDetected
  <2>7. CASE per_second_activity
    BY <2>7 DEF per_second_activity, NewStatus, WriteStatus
  <2>8. CASE NeutralTamper
    BY <2>8 DEF NeutralTamper
  <2>9. ASSUME NEW t \in Tampers, reset_alarms(t) PROVE LatchInv'
    BY <2>9 DEF reset_alarms
  <2>10. CASE initTamper
    BY <2>10 DEF initTamper
  <2>11. CASE RestoreLC \/ RestoreUC
    <3>1. PICK c \in Covers, after \in Phases, before \in Phases : RestoreCover(c, before, after)
      BY <2>11 DEF RestoreLC, RestoreUC, Phases
    <3>2. QED
      BY <3>1, <2>1, <2>4 DEF RestoreCover
  <2>12. CASE RestoreStatus
    BY <2>12 DEF RestoreStatus
  <2>13. CASE Reset_System \/ BatteryEmpty
    BY <2>13 DEF Reset_System, BatteryEmpty, Boot
  <2>14. CASE UNCHANGED vars
    BY <2>1, <2>14 DEF vars
  <2>15. QED
    BY <2>2, <2>3, <2>5, <2>6, <2>7, <2>8, <2>9, <2>10, <2>11, <2>12, <2>13, <2>14
       DEF Next, Restore
<1>3. QED
  BY <1>1, <1>2, PTL DEF Spec

(* The bit of a cover leaves the EEPROM only for a client's reset, or for  *)
(* a status that is written before the bits have been read after a reset.  *)
THEOREM CoverStaysLatched == Spec => CoverLatched
<1>1. LatchInv /\ [Next]_vars
        => [\A c \in Covers : c \in eeprom /\ c \notin eeprom' => c \in cleared \/ ~known]_vars
  <2> SUFFICES ASSUME LatchInv, Next, NEW c \in Covers, c \in eeprom, c \notin eeprom', known
               PROVE  c \in cleared
    OBVIOUS
  <2>1. c \in status => c \in eeprom' \/ eeprom' = eeprom
    <3> USE DEF bits, Covers
    <3>1. CASE per_second_activity
      BY <3>1 DEF per_second_activity, NewStatus, WriteStatus
    <3>2. CASE RestoreStatus
      BY <3>2 DEF RestoreStatus
    <3>3. CASE RestoreLC \/ RestoreUC \/ LogTamper
      BY <3>3 DEF RestoreLC, RestoreUC, LogTamper, RestoreCover, TamperDetected
    <3>4. CASE Reset_System \/ BatteryEmpty
      BY <3>4 DEF Reset_System, BatteryEmpty, Boot
    <3>5. CASE \E d \in Covers : OpenCover(d) \/ CloseCover(d) \/ PortAwake(d) \/ PortAsleep(d)
                                   \/ ProcessTamper(d)
      BY <3>5 DEF OpenCover, CloseCover, PortAwake, PortAsleep, ProcessTamper
    <3>6. CASE MoveMagnet \/ Release \/ NeutralTamper \/ initTamper \/ PowerFail \/ RestorePower
      BY <3>6 DEF MoveMagnet, Release, NeutralTamper, initTamper, PowerFail, RestorePower
    <3>7. CASE \E t \in Tampers : reset_alarms(t)
      BY <3>7 DEF reset_alarms
    <3>8. QED
      BY <3>1, <3>2, <3>3, <3>4, <3>5, <3>6, <3>7 DEF Next, Restore
  <2>2. QED
    BY <2>1 DEF LatchInv
<1>2. QED
  BY <1>1, LatchInvariant, PTL DEF Spec, CoverLatched
-----------------------------------------------------------------------------
(* What fairness acts on, for OpeningNoticed.                              *)

(* While the meter runs, a cover that is open and whose opening has neither *)
(* been logged nor been lost has its edge on request, its task waiting or  *)
(* its task at the log: neither the handler, nor the tasks, nor the late   *)
(* enabling of the interrupts drops it silently.                           *)
OpeningPending ==
  \A c \in Covers :
    Awake /\ c \in open /\ c \notin noticed /\ c \notin missed =>
      armed /\ (c \in flag \/ c \in tasks \/ (phase = "log" /\ cover = c))

(* An edge is on request until it is served, a task waits until it runs,   *)
(* and what is lost on the way is in missed.                               *)
THEOREM OpeningsPend == Spec => []OpeningPending
<1>1. Init => OpeningPending
  BY DEF Init, OpeningPending
<1>2. TypeInv /\ OpeningPending /\ [Next]_vars => OpeningPending'
  <2>1. SUFFICES ASSUME TypeInv, OpeningPending, [Next]_vars, NEW c \in Covers,
                        Awake', c \in open', c \notin noticed', c \notin missed'
                 PROVE  armed' /\ (c \in flag' \/ c \in tasks' \/ (phase' = "log" /\ cover' = c))
    BY Zenon DEF OpeningPending
  <2> DEFINE Pends == armed' /\ (c \in flag' \/ c \in tasks' \/ (phase' = "log" /\ cover' = c))
  <2> USE DEF hardware, tasking, bits, backup, bounds, history, Awake
  <2>2. Awake /\ c \in open /\ c \notin noticed /\ c \notin missed =>
          armed /\ (c \in flag \/ c \in tasks \/ (phase = "log" /\ cover = c))
    BY <2>1 DEF OpeningPending
  <2>3. ASSUME NEW d \in Covers, OpenCover(d)
        PROVE  Pends
    BY <2>1, <2>2, <2>3 DEF OpenCover
  <2>4. ASSUME NEW d \in Covers, CloseCover(d)
        PROVE  Pends
    BY <2>1, <2>2, <2>4 DEF CloseCover
  <2>5. ASSUME NEW d \in Covers, PortAwake(d)
        PROVE  Pends
    BY <2>1, <2>2, <2>5 DEF PortAwake, Served, TypeInv, TypeOK
  <2>6. ASSUME NEW d \in Covers, PortAsleep(d) PROVE FALSE
    BY <2>1, <2>6 DEF PortAsleep
  <2>7. ASSUME NEW d \in Covers, ProcessTamper(d)
        PROVE  Pends
    BY <2>1, <2>2, <2>7 DEF ProcessTamper
  <2>8. CASE LogTamper
    BY <2>1, <2>2, <2>8 DEF LogTamper, TamperDetected
  <2>9. CASE Release \/ MoveMagnet \/ NeutralTamper
    BY <2>1, <2>2, <2>9 DEF Release, MoveMagnet, NeutralTamper
  <2>10. CASE per_second_activity \/ \E t \in Tampers : reset_alarms(t)
    BY <2>1, <2>2, <2>10 DEF per_second_activity, reset_alarms
  <2>11. CASE initTamper
    <3>1. phase = "main" /\ ~armed /\ UNCHANGED <<open, noticed, missed>>
      BY <2>11, Zenon DEF initTamper
    <3>2. QED
      BY <2>1, <2>2, <3>1
  <2>12. CASE PowerFail \/ RestorePower \/ RestoreLC \/ RestoreUC \/ RestoreStatus
    BY <2>1, <2>12 DEF PowerFail, RestorePower, RestoreLC, RestoreUC, RestoreCover, RestoreStatus
  <2>13. CASE Reset_System \/ BatteryEmpty
    BY <2>1, <2>13 DEF Reset_System, BatteryEmpty, Boot
  <2>14. CASE UNCHANGED vars
    BY <2>1, <2>2, <2>14 DEF vars
  <2>15. CASE \E d \in Covers : OpenCover(d) \/ CloseCover(d) \/ PortAwake(d) \/ PortAsleep(d)
                                 \/ ProcessTamper(d)
    BY <2>3, <2>4, <2>5, <2>6, <2>7, <2>15
  <2>16. QED
    BY <2>1, <2>8, <2>9, <2>10, <2>11, <2>12, <2>13, <2>14, <2>15, Zenon DEF Next, Restore
<1>3. QED
  BY <1>1, <1>2, TypeInvariant, PTL DEF Spec
=============================================================================
