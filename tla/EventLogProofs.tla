--------------------------- MODULE EventLogProofs ---------------------------
(***************************************************************************)
(* Proofs about EventLog, for rings of any size and any number of events,  *)
(* power failures and failed writes.                                       *)
(*                                                                         *)
(* TypeOK is not inductive as it stands: updateNextLogAddress adds one to  *)
(* the address and keeps it when the flag cannot be written, so the next   *)
(* record may only be one behind the end because log_events checks its     *)
(* range first, and the address in EEPROM stays inside the ring because it *)
(* is written after the wrap.  TypeInv says where the address may be at    *)
(* each place of the program.                                              *)
(*                                                                         *)
(* Further down: a reset is final, completed events stay listed, and the   *)
(* ring implements BoundedLog.                                             *)
(***************************************************************************)
EXTENDS EventLog, FiniteSetTheorems, SequenceTheorems, TLAPS

\* log_events is running.
Writing == pc \in {"record", "advance", "pointer"}

TypeInv ==
  /\ TypeOK
  /\ pc \in {"record", "advance"} => last <= End
  /\ pc = "pointer" => last < End
  /\ Writing => event >= 1

\* The program starts with an address inside the ring and no event.
LEMMA InitTypeInv == Init => TypeInv
<1> SUFFICES ASSUME Init PROVE TypeInv
  OBVIOUS
<1> USE BoundsAreNatural DEF Init
<1>1. cells \in [0 .. End -> 0 .. Foreign]
  BY DEF Torn, Foreign, End
<1>2. /\ savedLast \in 0 .. End - 1 /\ last \in 0 .. End + 1
      /\ event \in 0 .. MaxEvents /\ crashes \in 0 .. MaxCrashes /\ faults \in 0 .. MaxFaults
      /\ resetBegan \in 0 .. MaxEvents /\ resetDone \in 0 .. resetBegan
  BY DEF End
<1>3. QED
  BY <1>1, <1>2 DEF TypeInv, TypeOK, Writing, Events

\* The write of the flag that ends a reset works or fails.
LEMMA ClearFlagWrites == ClearFlag => Works \/ Fails
BY ZenonT(20) DEF ClearFlag

\* Every operation, fault, reset and power failure keeps the types and the
\* place of the address.
LEMMA TypeInvStep == TypeInv /\ [Next]_vars => TypeInv'
<1> SUFFICES ASSUME TypeInv, [Next]_vars PROVE TypeInv'
  OBVIOUS
<1> USE BoundsAreNatural
    DEF TypeInv, TypeOK, Writing, Events, Torn, Foreign, End, history, Works, Fails
<1>1. CASE LogEvent
  BY <1>1 DEF LogEvent, InRange
<1>2. CASE WriteRecord
  BY <1>2 DEF WriteRecord
<1>3. CASE RecordFails
  BY <1>3 DEF RecordFails
<1>4. CASE Advance
  BY <1>4 DEF Advance, AtEnd
<1>5. CASE Wrap
  BY <1>5 DEF Wrap, AtEnd, FlagWritten
<1>6. CASE WrapFails
  BY <1>6 DEF WrapFails, AtEnd, FlagUnwritten
<1>7. CASE setLastLogAddress
  <2>1. savedLast' \in 0 .. MaxLogs - 1
    BY <1>7 DEF setLastLogAddress, SaveLast
  <2>4. faults' \in 0 .. MaxFaults
    BY <1>7 DEF setLastLogAddress, SaveLast
  <2>2. completed' \subseteq 1 .. MaxEvents
    BY <1>7 DEF setLastLogAddress
  <2>3. QED
    BY <1>7, <2>1, <2>4, <2>2 DEF setLastLogAddress
<1>8. CASE obj_event_log_reset
  BY <1>8 DEF obj_event_log_reset
<1>9. CASE ResetPointer
  <2>1. savedLast' \in 0 .. MaxLogs - 1
    BY <1>9 DEF ResetPointer, SaveLast
  <2>4. faults' \in 0 .. MaxFaults
    BY <1>9 DEF ResetPointer, SaveLast
  <2>2. QED
    BY <1>9, <2>1, <2>4 DEF ResetPointer
<1>10. CASE ClearFlag
  <2>1. overlapped' \in BOOLEAN /\ savedFlag' \in BOOLEAN
    BY <1>10 DEF ClearFlag, FlagWritten, FlagUnwritten
  <2>4. faults' \in 0 .. MaxFaults
    BY <1>10, ClearFlagWrites
  <2>2. UNCHANGED <<cells, savedLast, last, event, crashes, completed, resetBegan>>
    BY <1>10 DEF ClearFlag
  <2>3. /\ pc' = "idle"
        /\ resetDone' = resetBegan
    BY <1>10 DEF ClearFlag
  <2>5. QED
    BY <2>1, <2>2, <2>3, <2>4
<1>11. CASE Crash
  <2>1. cells' \in [0 .. MaxLogs -> 0 .. MaxEvents + 1]
    BY <1>11 DEF Crash
  <2>2. QED
    BY <1>11, <2>1 DEF Crash, LoadConfigurations
<1>12. CASE UNCHANGED vars
  BY <1>12 DEF vars
<1>13. QED
  BY <1>1, <1>2, <1>3, <1>4, <1>5, <1>6, <1>7, <1>8, <1>9, <1>10, <1>11, <1>12
  DEF Next

\* The types and the place of the address hold in every reachable state.
LEMMA TypeInvariant == Spec => []TypeInv
BY InitTypeInv, TypeInvStep, PTL DEF Spec

\* Every variable has its type: above all, the address is at most one record
\* behind the end (log_events, updateNextLogAddress), and the address kept in
\* EEPROM is always inside the ring.
THEOREM EventLogTypeCorrect == Spec => []TypeOK
<1>1. TypeInv => TypeOK
  BY DEF TypeInv
<1>2. QED
  BY <1>1, TypeInvariant, PTL

-----------------------------------------------------------------------------
\* While every write works, the address never reaches the end.
RegionInv == faults = 0 => InRegion /\ last < End /\ savedLast < End

\* So it is: only a flag that could not be written leaves the address behind.
LEMMA RegionInvariant == Spec => []RegionInv
<1> USE BoundsAreNatural DEF End, Foreign, RegionInv, InRegion, Works, Fails
<1>1. Init => RegionInv
  BY DEF Init
<1>2. TypeInv /\ RegionInv /\ [Next]_vars => RegionInv'
  <2> SUFFICES ASSUME TypeInv, RegionInv, [Next]_vars PROVE RegionInv'
    OBVIOUS
  <2> USE DEF TypeInv, TypeOK
  <2>1. CASE LogEvent
    BY <2>1 DEF LogEvent, InRange
  <2>2. CASE WriteRecord
    BY <2>2 DEF WriteRecord, history
  <2>3. CASE RecordFails
    BY <2>3 DEF RecordFails
  <2>4. CASE Advance
    BY <2>4 DEF Advance, AtEnd
  <2>5. CASE Wrap
    BY <2>5 DEF Wrap
  <2>6. CASE WrapFails
    BY <2>6 DEF WrapFails
  <2>7. CASE setLastLogAddress
    BY <2>7 DEF setLastLogAddress, SaveLast
  <2>8. CASE obj_event_log_reset
    BY <2>8 DEF obj_event_log_reset
  <2>9. CASE ResetPointer
    BY <2>9 DEF ResetPointer, SaveLast
  <2>10. CASE ClearFlag
    <3>1. faults' = 0 => faults = 0
      BY <2>10, ClearFlagWrites
    <3>2. UNCHANGED <<cells, savedLast, last>>
      BY <2>10 DEF ClearFlag
    <3>3. QED
      BY <3>1, <3>2
  <2>11. CASE Crash
    BY <2>11 DEF Crash, LoadConfigurations
  <2>12. CASE UNCHANGED vars
    BY <2>12 DEF vars
  <2>13. QED
    BY <2>1, <2>2, <2>3, <2>4, <2>5, <2>6, <2>7, <2>8, <2>9, <2>10, <2>11, <2>12
    DEF Next
<1>3. QED
  BY <1>1, <1>2, TypeInvariant, PTL DEF Spec

\* Until a write to the EEPROM fails, no record of log_events overwrites the
\* cells of the next log, wherever the power fails.
THEOREM RecordsStayInRegion == Spec => []InRegionUnlessFaulty
<1>1. RegionInv => InRegionUnlessFaulty
  BY DEF RegionInv, InRegionUnlessFaulty
<1>2. QED
  BY <1>1, RegionInvariant, PTL

-----------------------------------------------------------------------------
(* Numbers of events.                                                      *)

\* An event that is being recorded is newer than every completed one and than
\* the last reset; while a reset runs, what is completed came before it.
NumbersInv ==
  /\ resetBegan <= event
  /\ Writing => resetBegan < event /\ \A e \in completed : e < event
  /\ \A e \in completed : e <= event
  /\ pc \in {"reset", "clear"} =>
       /\ last = 0 /\ resetDone < resetBegan
       /\ \A e \in completed : e <= resetBegan

\* Every operation, fault, reset and power failure keeps that order.
LEMMA NumbersInvariant == Spec => []NumbersInv
<1> USE BoundsAreNatural DEF NumbersInv, Writing
<1>1. Init => NumbersInv
  BY DEF Init
<1>2. TypeInv /\ NumbersInv /\ [Next]_vars => NumbersInv'
  <2> SUFFICES ASSUME TypeInv, NumbersInv, [Next]_vars PROVE NumbersInv'
    OBVIOUS
  <2>1. /\ event \in Nat /\ resetBegan \in Nat /\ resetDone \in Nat /\ completed \subseteq Nat
        /\ resetDone <= resetBegan
    BY DEF TypeInv, TypeOK, Events
  <2>2. CASE LogEvent
    BY <2>1, <2>2 DEF LogEvent, history
  <2>3. CASE WriteRecord \/ RecordFails \/ Advance \/ Wrap \/ WrapFails
    <3>1. /\ pc \in {"record", "advance"} /\ pc' \in {"advance", "pointer", "idle"}
          /\ UNCHANGED <<event, history>>
      BY <2>3 DEF WriteRecord, RecordFails, Advance, Wrap, WrapFails
    <3>2. QED
      BY <2>1, <3>1 DEF history
  <2>4. CASE setLastLogAddress
    BY <2>1, <2>4 DEF setLastLogAddress
  <2>5. CASE obj_event_log_reset
    BY <2>1, <2>5 DEF obj_event_log_reset
  <2>6. CASE ResetPointer
    BY <2>1, <2>6 DEF ResetPointer, history
  <2>7. CASE ClearFlag
    BY <2>1, <2>7 DEF ClearFlag
  <2>8. CASE Crash
    BY <2>1, <2>8 DEF Crash, history
  <2>9. CASE UNCHANGED vars
    BY <2>1, <2>9 DEF vars
  <2>10. QED
    BY <2>2, <2>3, <2>4, <2>5, <2>6, <2>7, <2>8, <2>9 DEF Next
<1>3. QED
  BY <1>1, <1>2, TypeInvariant, PTL DEF Spec

-----------------------------------------------------------------------------
(* RAM and EEPROM.                                                         *)

\* While every write works, the copies in EEPROM are those in RAM, but for the
\* address until setLastLogAddress and during a reset.
SyncInv ==
  faults = 0 =>
    /\ savedFlag = overlapped
    /\ pc \in {"idle", "record", "advance"} => last = savedLast
    /\ pc = "pointer" => IF savedLast + 1 < End THEN last = savedLast + 1
                         ELSE last = 0 /\ savedFlag
    /\ pc = "clear" => savedLast = 0
    /\ pc = "advance" => cells[last] = event
    /\ pc = "pointer" => cells[savedLast] = event

\* Every operation, reset and power failure keeps them so.
LEMMA SyncInvariant == Spec => []SyncInv
<1> USE BoundsAreNatural DEF SyncInv, End, Works, Fails
<1>1. Init => SyncInv
  BY DEF Init
<1>2. TypeInv /\ RegionInv /\ NumbersInv /\ SyncInv /\ [Next]_vars => SyncInv'
  <2> SUFFICES ASSUME TypeInv, RegionInv, NumbersInv, SyncInv, [Next]_vars, faults' = 0
               PROVE  SyncInv'
    OBVIOUS
  <2> USE DEF RegionInv
  <2>1. /\ last \in Nat /\ savedLast \in 0 .. End - 1 /\ faults \in Nat /\ event \in Nat
        /\ cells \in [0 .. End -> 0 .. Foreign]
    BY DEF TypeInv, TypeOK
  <2>2. CASE LogEvent
    BY <2>1, <2>2 DEF LogEvent, InRange
  <2>3. CASE WriteRecord
    <3>1. /\ pc = "record" /\ pc' = "advance" /\ cells' = [cells EXCEPT ![last] = event]
          /\ UNCHANGED <<savedLast, savedFlag, last, overlapped, event, faults>>
      BY <2>3 DEF WriteRecord
    <3>2. cells'[last] = event
      BY <2>1, <3>1 DEF TypeInv
    <3>3. faults = 0
      BY <3>1
    <3>4. savedFlag' = overlapped' /\ last' = savedLast'
      BY <3>1, <3>3
    <3>5. pc' = "advance" /\ cells'[last'] = event'
      BY <3>1, <3>2
    <3>6. QED
      BY <3>4, <3>5
  <2>4. CASE RecordFails \/ WrapFails
    <3>1. faults' = faults + 1
      BY <2>4 DEF RecordFails, WrapFails
    <3>2. QED
      BY <2>1, <3>1
  <2>5. CASE Advance
    BY <2>1, <2>5 DEF Advance, AtEnd
  <2>6. CASE Wrap
    BY <2>1, <2>6 DEF Wrap, AtEnd, FlagWritten
  <2>7. CASE setLastLogAddress
    BY <2>1, <2>7 DEF setLastLogAddress, SaveLast
  <2>8. CASE obj_event_log_reset
    BY <2>1, <2>8 DEF obj_event_log_reset
  <2>9. CASE ResetPointer
    BY <2>1, <2>9 DEF ResetPointer, SaveLast
  <2>10. CASE ClearFlag
    <3>1. faults = 0
      BY <2>1, <2>10, ClearFlagWrites
    <3>2. faults' # faults + 1
      BY <3>1
    <3>3. savedFlag' = overlapped'
      BY <2>10, <3>2, Zenon DEF ClearFlag, FlagWritten, FlagUnwritten
    <3>4. pc = "clear" /\ pc' = "idle" /\ UNCHANGED <<savedLast, last>>
      BY <2>10 DEF ClearFlag
    <3>5. last = 0 /\ savedLast = 0
      BY <3>1, <3>4 DEF NumbersInv
    <3>6. QED
      BY <3>3, <3>4, <3>5
  <2>11. CASE Crash
    BY <2>1, <2>11 DEF Crash, LoadConfigurations
  <2>12. CASE UNCHANGED vars
    BY <2>1, <2>12 DEF vars
  <2>13. QED
    BY <2>2, <2>3, <2>4, <2>5, <2>6, <2>7, <2>8, <2>9, <2>10, <2>11, <2>12 DEF Next
<1>3. QED
  BY <1>1, <1>2, TypeInvariant, RegionInvariant, NumbersInvariant, PTL DEF Spec

-----------------------------------------------------------------------------
(* Resets.                                                                 *)

\* An erased record, or one of an event after the last reset.
New(record) == record = Torn \/ record > resetBegan

\* What is listed from this address is new.
Fresh(address, wrapped) ==
  \A a \in 0 .. End - 1 : wrapped \/ a < address => New(cells[a])

\* After a reset that has returned, the ring in RAM lists nothing old as long
\* as the power stays or every write works; the ring in EEPROM, which a boot
\* takes over, as long as every write works.
FinalInv ==
  resetDone = resetBegan =>
    /\ crashes = 0 \/ faults = 0 =>
         /\ Fresh(last, overlapped)
         /\ pc = "advance" => New(cells[last])
         /\ last = End + 1 => New(cells[End])
    /\ faults = 0 => Fresh(savedLast, savedFlag)

\* A cell that takes a new record, or is erased, leaves the other cells alone.
LEMMA CellWritten ==
  ASSUME TypeInv, NEW a \in 0 .. End, NEW r, New(r), cells' = [cells EXCEPT ![a] = r],
         UNCHANGED resetBegan
  PROVE  /\ New(cells[a])'
         /\ \A b \in 0 .. End : New(cells[b]) => New(cells[b])'
<1>1. cells'[a] = r /\ \A b \in 0 .. End : b # a => cells'[b] = cells[b]
  BY DEF TypeInv, TypeOK
<1>2. QED
  BY <1>1 DEF New

\* Every operation, fault, reset and power failure keeps it.
LEMMA FinalInvariant == Spec => []FinalInv
<1> USE BoundsAreNatural DEF End
<1>1. Init => FinalInv
  BY DEF Init, FinalInv, Fresh, New, Torn
<1>2. TypeInv /\ NumbersInv /\ SyncInv /\ FinalInv /\ [Next]_vars => FinalInv'
  <2> SUFFICES ASSUME TypeInv, NumbersInv, SyncInv, FinalInv, [Next]_vars,
                      resetDone' = resetBegan'
               PROVE  FinalInv'
    BY DEF FinalInv
  <2>1. /\ last \in Nat /\ last <= End + 1 /\ savedLast \in 0 .. End - 1
        /\ faults \in Nat /\ crashes \in Nat /\ event \in Nat
        /\ resetBegan \in Nat /\ resetDone \in Nat /\ resetDone <= resetBegan
        /\ pc \in {"record", "advance"} => last \in 0 .. End
        /\ Torn = 0
    BY DEF TypeInv, TypeOK, Torn
  <2>2. ASSUME UNCHANGED <<cells, resetBegan, resetDone>>, faults' \in Nat,
               faults' = 0 => faults = 0, crashes' = crashes,
               crashes = 0 \/ faults = 0 =>
                 /\ \A a \in 0 .. End - 1 : overlapped' \/ a < last' =>
                      overlapped \/ a < last \/ (pc = "advance" /\ a = last)
                 /\ last' = End + 1 => last = End + 1 \/ (pc = "advance" /\ last = End)
                 /\ pc' # "advance" \/ (pc = "advance" /\ last' = last),
               faults' = 0 =>
                 \A a \in 0 .. End - 1 : savedFlag' \/ a < savedLast' =>
                   \/ overlapped \/ a < last
                   \/ pc = "advance" /\ a = last
                   \/ savedFlag \/ a < savedLast
        PROVE  FinalInv'
    BY <2>1, <2>2 DEF FinalInv, Fresh, New
  <2>3. CASE LogEvent
    BY <2>1, <2>2, <2>3 DEF LogEvent, InRange, history
  <2>4. ASSUME NEW r, pc = "record", New(r), cells' = [cells EXCEPT ![last] = r],
               pc' = "advance" => r = event,
               UNCHANGED <<savedLast, savedFlag, last, overlapped, crashes, resetBegan, resetDone>>,
               faults' \in Nat, faults' = 0 => faults = 0
        PROVE  FinalInv'
    <3>1. /\ New(cells[last])'
          /\ \A b \in 0 .. End : New(cells[b]) => New(cells[b])'
      BY <2>1, <2>4, CellWritten
    <3>2. QED
      BY <2>1, <2>4, <3>1 DEF FinalInv, Fresh
  <2>5. CASE WriteRecord
    BY <2>1, <2>4, <2>5 DEF WriteRecord, history, New, NumbersInv, Writing
  <2>6. CASE RecordFails
    <3>1. PICK r \in {cells[last], Torn} : cells' = [cells EXCEPT ![last] = r]
      BY <2>6 DEF RecordFails
    <3>2. /\ pc = "record" /\ pc' = "idle" /\ faults' = faults + 1
          /\ UNCHANGED <<savedLast, savedFlag, last, overlapped, crashes, resetBegan, resetDone>>
      BY <2>6 DEF RecordFails, Fails, history
    <3>3. CASE r = Torn
      <4>1. faults' \in Nat /\ (faults' = 0 => faults = 0) /\ pc' # "advance"
        BY <2>1, <3>2
      <4>2. New(Torn) /\ cells' = [cells EXCEPT ![last] = Torn]
        BY <3>1, <3>3 DEF New
      <4>3. QED
        BY <2>4, <3>2, <4>1, <4>2
    <3>4. CASE r = cells[last]
      <4>1. cells' = cells
        BY <3>1, <3>4 DEF TypeInv, TypeOK
      <4>2. QED
        BY <2>1, <2>2, <3>2, <4>1
    <3>5. QED
      BY <3>1, <3>3, <3>4
  <2>7. CASE Advance
    BY <2>1, <2>2, <2>7 DEF Advance, AtEnd, history
  <2>8. CASE Wrap
    BY <2>1, <2>2, <2>8 DEF Wrap, AtEnd, FlagWritten, history
  <2>9. CASE WrapFails
    BY <2>1, <2>2, <2>9 DEF WrapFails, AtEnd, FlagUnwritten, Fails, history
  <2>10. CASE setLastLogAddress
    <3>1. /\ pc = "pointer" /\ pc' = "idle"
          /\ UNCHANGED <<cells, savedFlag, last, overlapped, event, crashes, resetBegan, resetDone>>
      BY <2>10 DEF setLastLogAddress
    <3>2. \/ faults' = faults /\ savedLast' = last
          \/ faults' = faults + 1
      BY <2>10 DEF setLastLogAddress, SaveLast, Works, Fails
    <3>3. faults' = 0 => savedFlag = overlapped
      BY <2>1, <3>2 DEF SyncInv
    <3>4. QED
      BY <2>1, <2>2, <3>1, <3>2, <3>3
  <2>11. CASE obj_event_log_reset
    BY <2>1, <2>11 DEF obj_event_log_reset
  <2>12. CASE ResetPointer
    BY <2>1, <2>12 DEF ResetPointer, history, NumbersInv
  <2>13. CASE ClearFlag
    <3>1. last = 0 /\ UNCHANGED <<last, savedLast>> /\ pc' = "idle" /\ pc = "clear"
      BY <2>13 DEF ClearFlag, NumbersInv
    <3>2. overlapped' = FALSE
      BY <2>13, Zenon DEF ClearFlag, FlagWritten, FlagUnwritten
    <3>3. faults' = 0 => faults = 0
      BY <2>1, <2>13, ClearFlagWrites DEF Works, Fails
    <3>4. faults' = 0 => savedFlag' = FALSE
      <4>1. faults' = 0 => faults' # faults + 1
        BY <2>1
      <4>2. QED
        BY <2>13, <4>1, Zenon DEF ClearFlag, FlagWritten, Fails
    <3>5. faults' = 0 => savedLast = 0
      BY <3>1, <3>3 DEF SyncInv
    <3>6. QED
      BY <2>1, <3>1, <3>2, <3>4, <3>5 DEF FinalInv, Fresh
  <2>14. CASE Crash
    <3>1. /\ last' = savedLast /\ overlapped' = savedFlag /\ pc' = "idle" /\ crashes' = crashes + 1
          /\ UNCHANGED <<savedLast, savedFlag, faults, resetBegan, resetDone>>
      BY <2>14 DEF Crash, LoadConfigurations, history
    <3>2. \A b \in 0 .. End : New(cells[b]) => New(cells[b])'
      <4>1. CASE UNCHANGED cells
        BY <3>1, <4>1 DEF New
      <4>2. CASE pc = "record" /\ cells' = [cells EXCEPT ![last] = Torn]
        BY <2>1, <3>1, <4>2, CellWritten DEF New
      <4>3. QED
        BY <2>14, <4>1, <4>2 DEF Crash
    <3>3. crashes' # 0
      BY <2>1, <3>1
    <3>4. QED
      BY <2>1, <3>1, <3>2, <3>3 DEF FinalInv, Fresh
  <2>15. CASE UNCHANGED vars
    BY <2>1, <2>2, <2>15 DEF vars
  <2>16. QED
    BY <2>3, <2>5, <2>6, <2>7, <2>8, <2>9, <2>10, <2>11, <2>12, <2>13, <2>14, <2>15 DEF Next
<1>3. QED
  BY <1>1, <1>2, TypeInvariant, NumbersInvariant, SyncInvariant, PTL DEF Spec

\* find_num_total_log_entries and get_log_time_stamp never list an event from
\* before a reset that has returned: not after any power failures, if every
\* write works, and not after any failed writes, if the power stays.
THEOREM ResetStaysFinal == Spec => []ResetIsFinal
<1>1. TypeInv /\ FinalInv => ResetIsFinal
  <2> SUFFICES ASSUME TypeInv, FinalInv, pc = "idle", resetDone = resetBegan,
                      crashes = 0 \/ faults = 0,
                      NEW k \in 1 .. NumEntries(last, overlapped)
               PROVE  New(cells[EntryAddress(k, last, overlapped)])
    BY DEF ResetIsFinal, Listed, Listing, ListingFrom, New
  <2> DEFINE a == EntryAddress(k, last, overlapped)
  <2>1. last \in Nat /\ last <= End + 1 /\ MaxLogs \in Nat \ {0}
    BY BoundsAreNatural DEF TypeInv, TypeOK, End
  <2>2. \/ a \in 0 .. End - 1 /\ (overlapped \/ a < last)
        \/ a = End /\ last = End + 1
    BY <2>1 DEF EntryAddress, NumEntries, End
  <2> HIDE DEF a
  <2>3. New(cells[a])
    BY <2>2 DEF FinalInv, Fresh
  <2>4. QED
    BY <2>3 DEF a
<1>2. QED
  BY <1>1, TypeInvariant, FinalInvariant, PTL

-----------------------------------------------------------------------------
(* What survives the power.                                                *)

Kept     == {e \in completed : e > resetBegan}
Newer(e) == {f \in Kept : f > e}

\* The cell n places before an address of the ring.
Back(address, n) == IF n < address THEN address - 1 - n ELSE address - 1 - n + End

\* While every write works, the events that are kept lie in their order before
\* the address in EEPROM, and are listed from there.
DurableInv ==
  faults = 0 =>
    \A e \in Kept :
      Cardinality(Newer(e)) < MaxLogs - 1 =>
        /\ Cardinality(Newer(e)) < savedLast \/ savedFlag
        /\ cells[Back(savedLast, Cardinality(Newer(e)))] = e

\* Every set of events is finite.
LEMMA NewerCount ==
  ASSUME TypeInv, NEW e \in Kept
  PROVE  IsFiniteSet(Newer(e)) /\ Cardinality(Newer(e)) \in Nat
<1>1. MaxEvents \in Nat /\ 1 \in Int /\ MaxEvents \in Int
  BY BoundsAreNatural
<1>2. IsFiniteSet(1 .. MaxEvents)
  BY <1>1, FS_Interval, Zenon
<1>3. Newer(e) \in SUBSET (1 .. MaxEvents)
  BY DEF TypeInv, TypeOK, Events, Newer, Kept
<1>4. QED
  BY <1>2, <1>3, FS_Subset, FS_CardinalityType, Zenon

\* The next record spares all but the oldest.
LEMMA BackSpares ==
  ASSUME NEW p \in 0 .. End - 1, NEW n \in Nat, n < MaxLogs - 1
  PROVE  /\ Back(p, n) \in 0 .. End - 1 /\ Back(p, n) # p
         /\ p + 1 < End => Back(p + 1, n + 1) = Back(p, n)
         /\ p + 1 >= End => Back(0, n + 1) = Back(p, n)
BY BoundsAreNatural DEF Back, End

\* A step that neither completes an event nor begins a reset keeps it, if it
\* writes no other cell than the next one.
LEMMA DurableKept ==
  ASSUME TypeInv, DurableInv, UNCHANGED <<completed, resetBegan, savedLast>>,
         faults' = 0 => faults = 0 /\ (savedFlag => savedFlag')
                        /\ \A a \in 0 .. End - 1 : a # savedLast => cells'[a] = cells[a]
  PROVE  DurableInv'
<1> SUFFICES ASSUME faults' = 0, NEW e \in Kept, Cardinality(Newer(e)) < MaxLogs - 1
             PROVE  /\ Cardinality(Newer(e)) < savedLast \/ savedFlag'
                    /\ cells'[Back(savedLast, Cardinality(Newer(e)))] = e
  BY DEF DurableInv, Kept, Newer, Back
<1> DEFINE n == Cardinality(Newer(e))
<1>1. n \in Nat
  BY NewerCount
<1>2. (n < savedLast \/ savedFlag) /\ cells[Back(savedLast, n)] = e
  BY DEF DurableInv
<1> HIDE DEF n
<1>3. n < MaxLogs - 1
  BY DEF n
<1>4. Back(savedLast, n) \in 0 .. End - 1 /\ Back(savedLast, n) # savedLast
  BY <1>1, <1>3, BackSpares DEF TypeInv, TypeOK
<1>5. QED
  BY <1>2, <1>4 DEF n

\* An event that is completed is the newest; the others move one place back.
LEMMA DurableCompleted ==
  ASSUME TypeInv, NumbersInv, SyncInv, DurableInv, setLastLogAddress
  PROVE  DurableInv'
<1> SUFFICES ASSUME faults' = 0, NEW e \in Kept', Cardinality(Newer(e)') < MaxLogs - 1
             PROVE  /\ Cardinality(Newer(e)') < savedLast' \/ savedFlag'
                    /\ cells'[Back(savedLast', Cardinality(Newer(e)'))] = e
  BY DEF DurableInv
<1>1. /\ pc = "pointer" /\ completed' = completed \union {event}
      /\ UNCHANGED <<cells, savedFlag, last, event, resetBegan>>
  BY DEF setLastLogAddress
<1>2. faults = 0 /\ savedLast' = last
  BY DEF setLastLogAddress, SaveLast, Works, Fails, TypeInv, TypeOK
<1>3. /\ savedLast \in 0 .. End - 1 /\ End = MaxLogs /\ MaxLogs \in Nat \ {0}
      /\ completed \subseteq Nat /\ event \in Nat /\ resetBegan \in Nat
  BY BoundsAreNatural DEF TypeInv, TypeOK, Events, End
<1>4. /\ IF savedLast + 1 < End THEN last = savedLast + 1 ELSE last = 0 /\ savedFlag
      /\ cells[savedLast] = event
  BY <1>1, <1>2 DEF SyncInv
<1>5. resetBegan < event /\ \A f \in completed : f < event
  BY <1>1 DEF NumbersInv, Writing
<1>6. Kept' = Kept \union {event}
  BY <1>1, <1>3, <1>5 DEF Kept
<1>7. CASE e = event
  <2>1. \A f \in Kept' : ~ (f > e)
    BY <1>3, <1>5, <1>6, <1>7 DEF Kept
  <2>2. Newer(e)' = {}
    BY <2>1 DEF Newer
  <2>3. Cardinality(Newer(e)') = 0
    BY <2>2, FS_EmptySet
  <2>4. Back(last, 0) = savedLast /\ (0 < last \/ savedFlag)
    BY <1>3, <1>4 DEF Back
  <2>5. QED
    BY <1>1, <1>2, <1>4, <1>7, <2>3, <2>4 DEF Back, End
<1>8. CASE e \in Kept
  <2> DEFINE n == Cardinality(Newer(e))
  <2>1. Newer(e)' = Newer(e) \union {event} /\ event \notin Newer(e)
    BY <1>3, <1>5, <1>6, <1>8 DEF Newer, Kept
  <2>2. IsFiniteSet(Newer(e)) /\ n \in Nat
    BY <1>8, NewerCount
  <2>3. Cardinality(Newer(e)') = n + 1
    BY <2>1, <2>2, FS_AddElement
  <2>4. n < MaxLogs - 1
    BY <1>3, <2>2, <2>3
  <2>5. (n < savedLast \/ savedFlag) /\ cells[Back(savedLast, n)] = e
    BY <1>2, <1>8, <2>4 DEF DurableInv
  <2> HIDE DEF n
  <2>6. Back(last, n + 1) = Back(savedLast, n) /\ (n + 1 < last \/ savedFlag)
    BY <1>3, <1>4, <2>2, <2>4, <2>5, BackSpares
  <2>7. QED
    BY <1>1, <1>2, <2>3, <2>5, <2>6 DEF Back, End
<1>9. QED
  BY <1>6, <1>7, <1>8

\* Every operation, reset and power failure keeps it.
LEMMA DurableInvariant == Spec => []DurableInv
<1>1. Init => DurableInv
  BY DEF Init, DurableInv, Kept
<1>2. TypeInv /\ NumbersInv /\ SyncInv /\ DurableInv /\ [Next]_vars => DurableInv'
  <2> SUFFICES ASSUME TypeInv, NumbersInv, SyncInv, DurableInv, [Next]_vars PROVE DurableInv'
    OBVIOUS
  <2>1. /\ faults \in Nat /\ cells \in [0 .. End -> 0 .. Foreign]
        /\ completed \subseteq Nat /\ event \in Nat /\ resetBegan \in Nat
    BY DEF TypeInv, TypeOK, Events
  <2>2. CASE LogEvent \/ Advance \/ Wrap
    BY <2>2, DurableKept DEF LogEvent, Advance, Wrap, FlagWritten, history
  <2>3. CASE RecordFails \/ WrapFails
    <3>1. faults' = faults + 1
      BY <2>3 DEF RecordFails, WrapFails, Fails
    <3>2. faults' # 0
      BY <2>1, <3>1
    <3>3. QED
      BY <3>2 DEF DurableInv
  <2>4. CASE WriteRecord
    <3>1. /\ UNCHANGED <<completed, resetBegan, savedLast, savedFlag, faults>>
          /\ pc = "record" /\ cells' = [cells EXCEPT ![last] = event]
      BY <2>4 DEF WriteRecord, history
    <3>2. faults = 0 => last = savedLast
      BY <3>1 DEF SyncInv
    <3>3. faults = 0 => \A a \in 0 .. End - 1 : a # savedLast => cells'[a] = cells[a]
      BY <2>1, <3>1, <3>2
    <3>4. QED
      BY <3>1, <3>3, DurableKept
  <2>5. CASE setLastLogAddress
    BY <2>5, DurableCompleted
  <2>6. ASSUME Kept' = {} PROVE DurableInv'
    BY <2>6 DEF DurableInv
  <2>7. CASE obj_event_log_reset
    <3>1. completed' = completed /\ resetBegan' = event
      BY <2>7 DEF obj_event_log_reset
    <3>2. \A e \in completed' : ~ (e > resetBegan')
      BY <2>1, <3>1 DEF NumbersInv
    <3>3. QED
      BY <2>6, <3>2 DEF Kept
  <2>8. CASE ResetPointer \/ ClearFlag
    <3>1. pc \in {"reset", "clear"} /\ UNCHANGED <<completed, resetBegan>>
      BY <2>8 DEF ResetPointer, ClearFlag, history
    <3>2. \A e \in completed' : ~ (e > resetBegan')
      BY <2>1, <3>1 DEF NumbersInv
    <3>3. QED
      BY <2>6, <3>2 DEF Kept
  <2>9. CASE Crash
    <3>1. /\ UNCHANGED <<completed, resetBegan, savedLast, savedFlag, faults>>
          /\ \/ UNCHANGED cells
             \/ pc = "record" /\ cells' = [cells EXCEPT ![last] = Torn]
      BY <2>9 DEF Crash, history
    <3>2. CASE UNCHANGED cells
      BY <3>1, <3>2, DurableKept
    <3>3. CASE pc = "record" /\ cells' = [cells EXCEPT ![last] = Torn]
      <4>1. faults = 0 => last = savedLast
        BY <3>3 DEF SyncInv
      <4>2. faults = 0 => \A a \in 0 .. End - 1 : a # savedLast => cells'[a] = cells[a]
        BY <2>1, <3>3, <4>1
      <4>3. QED
        BY <3>1, <4>2, DurableKept
    <3>4. QED
      BY <3>1, <3>2, <3>3
  <2>10. CASE UNCHANGED vars
    BY <2>10, DurableKept DEF vars
  <2>11. QED
    BY <2>2, <2>3, <2>4, <2>5, <2>7, <2>8, <2>9, <2>10 DEF Next
<1>3. QED
  BY <1>1, <1>2, TypeInvariant, NumbersInvariant, SyncInvariant, PTL DEF Spec

\* While every write works, the MaxLogs - 1 newest events whose log_events has
\* returned since the last reset are listed, after any power failures at any
\* places, for rings of any size.
THEOREM EventsAreDurable == Spec => []DurableListed
<1>1. TypeInv /\ SyncInv /\ DurableInv => DurableListed
  <2> SUFFICES ASSUME TypeInv, SyncInv, DurableInv, pc = "idle", faults = 0,
                      NEW e \in Kept, Cardinality(Newer(e)) < MaxLogs - 1
               PROVE  e \in Listed
    BY DEF DurableListed, Kept, Newer
  <2> DEFINE n == Cardinality(Newer(e))
             k == IF overlapped THEN MaxLogs - n ELSE last - n
  <2>1. n \in Nat /\ n < MaxLogs - 1
    BY NewerCount
  <2>2. (n < last \/ overlapped) /\ cells[Back(last, n)] = e
    BY DEF DurableInv, SyncInv
  <2> HIDE DEF n
  <2>3. last \in 0 .. End - 1 /\ MaxLogs \in Nat \ {0}
    BY BoundsAreNatural DEF TypeInv, TypeOK, SyncInv
  <2>4. k \in 1 .. NumEntries(last, overlapped)
    BY <2>1, <2>2, <2>3 DEF NumEntries, End
  <2>5. EntryAddress(k, last, overlapped) = Back(last, n)
    BY <2>1, <2>2, <2>3 DEF EntryAddress, Back, End
  <2> HIDE DEF k
  <2>6. Listing[k] = e /\ k \in DOMAIN Listing
    BY <2>2, <2>4, <2>5 DEF Listing, ListingFrom
  <2>7. QED
    BY <2>6 DEF Listed
<1>2. QED
  BY <1>1, TypeInvariant, SyncInvariant, DurableInvariant, PTL

-----------------------------------------------------------------------------
(* The bounded log.                                                        *)

\* A ring that has not wrapped is listed from its first cell, one that has from
\* the address of the next record, all around it.
Around(i)              == IF i >= MaxLogs THEN i - MaxLogs ELSE i
Straight(ring, n)      == [k \in 1 .. n |-> ring[k - 1]]
Rotated(ring, address) == [k \in 1 .. MaxLogs |-> ring[Around(address + (k - 1))]]

\* So do find_num_total_log_entries and get_log_time_stamp.
LEMMA Listings ==
  ASSUME NEW ring, NEW address \in 0 .. MaxLogs
  PROVE  /\ [k \in 1 .. NumEntries(address, FALSE) |-> ring[EntryAddress(k, address, FALSE)]]
              = Straight(ring, address)
         /\ [k \in 1 .. NumEntries(address, TRUE) |-> ring[EntryAddress(k, address, TRUE)]]
              = Rotated(ring, address)
<1>1. NumEntries(address, FALSE) = address /\ NumEntries(address, TRUE) = MaxLogs
  BY DEF NumEntries
<1>2. \A k \in 1 .. address : EntryAddress(k, address, FALSE) = k - 1
  BY DEF EntryAddress
<1>3. \A k \in 1 .. MaxLogs : EntryAddress(k, address, TRUE) = Around(address + (k - 1))
  BY BoundsAreNatural DEF EntryAddress, Around, End
<1>4. [k \in 1 .. NumEntries(address, FALSE) |-> ring[EntryAddress(k, address, FALSE)]]
        = Straight(ring, address)
  BY <1>1, <1>2 DEF Straight
<1>5. [k \in 1 .. NumEntries(address, TRUE) |-> ring[EntryAddress(k, address, TRUE)]]
        = Rotated(ring, address)
  BY <1>1, <1>3 DEF Rotated
<1>6. QED
  BY <1>4, <1>5

\* Lists are sequences of records.
LEMMA StraightProperties ==
  ASSUME NEW S, NEW ring \in [0 .. MaxLogs -> S], NEW n \in 0 .. MaxLogs
  PROVE  /\ Straight(ring, n) \in Seq(S) /\ Len(Straight(ring, n)) = n
         /\ \A k \in 1 .. n : Straight(ring, n)[k] = ring[k - 1]
<1> DEFINE e(k) == ring[k - 1]
<1>1. n \in Nat /\ \A k \in 1 .. n : e(k) \in S
  BY BoundsAreNatural
<1> HIDE DEF e
<1>2. [k \in 1 .. n |-> e(k)] \in Seq(S)
  BY <1>1, IsASeq
<1>3. Straight(ring, n) = [k \in 1 .. n |-> e(k)]
  BY DEF Straight, e
<1>4. Len(Straight(ring, n)) = n
  BY <1>1, <1>2, <1>3, LenProperties
<1>5. QED
  BY <1>2, <1>3, <1>4 DEF e

\* A ring listed from an address has MaxLogs entries, in the order of the ring.
LEMMA RotatedProperties ==
  ASSUME NEW S, NEW ring \in [0 .. MaxLogs -> S], NEW a \in 0 .. MaxLogs - 1
  PROVE  /\ Rotated(ring, a) \in Seq(S) /\ Len(Rotated(ring, a)) = MaxLogs
         /\ \A k \in 1 .. MaxLogs : Rotated(ring, a)[k] = ring[Around(a + (k - 1))]
<1> DEFINE e(k) == ring[Around(a + (k - 1))]
<1>1. MaxLogs \in Nat /\ \A k \in 1 .. MaxLogs : Around(a + (k - 1)) \in 0 .. MaxLogs
  BY BoundsAreNatural DEF Around
<1>2. \A k \in 1 .. MaxLogs : e(k) \in S
  BY <1>1
<1> HIDE DEF e
<1>3. [k \in 1 .. MaxLogs |-> e(k)] \in Seq(S)
  BY <1>1, <1>2, IsASeq
<1>4. Rotated(ring, a) = [k \in 1 .. MaxLogs |-> e(k)]
  BY DEF Rotated, e
<1>5. Len(Rotated(ring, a)) = MaxLogs
  BY <1>1, <1>3, <1>4, LenProperties
<1>6. QED
  BY <1>3, <1>4, <1>5 DEF e

\* Writing the next record of a ring that has not wrapped appends it.
LEMMA StraightAppends ==
  ASSUME NEW S, NEW ring \in [0 .. MaxLogs -> S], NEW a \in 0 .. MaxLogs - 1, NEW r \in S
  PROVE  Straight([ring EXCEPT ![a] = r], a + 1)
           = Promised!Newest(Append(Straight(ring, a), r))
<1> DEFINE next == [ring EXCEPT ![a] = r]
           old  == Straight(ring, a)
           new  == Straight(next, a + 1)
           all  == Append(old, r)
<1>1. next \in [0 .. MaxLogs -> S] /\ next[a] = r
      /\ \A i \in 0 .. MaxLogs : i # a => next[i] = ring[i]
  BY BoundsAreNatural
<1>2. a \in 0 .. MaxLogs /\ a + 1 \in 0 .. MaxLogs /\ a \in Nat
  BY BoundsAreNatural
<1> HIDE DEF next
<1>3. old \in Seq(S) /\ Len(old) = a /\ \A k \in 1 .. a : old[k] = ring[k - 1]
  BY <1>2, StraightProperties
<1>4. new \in Seq(S) /\ Len(new) = a + 1 /\ \A k \in 1 .. a + 1 : new[k] = next[k - 1]
  BY <1>1, <1>2, StraightProperties
<1> HIDE DEF old, new
<1>5. all \in Seq(S) /\ Len(all) = a + 1 /\ all[a + 1] = r
      /\ \A k \in 1 .. a : all[k] = old[k]
  BY <1>3, AppendProperties
<1> HIDE DEF all
<1>6. ASSUME NEW k \in 1 .. a + 1 PROVE new[k] = all[k]
  <2>1. CASE k = a + 1
    BY <1>1, <1>2, <1>4, <1>5, <2>1
  <2>2. CASE k \in 1 .. a
    <3>1. k - 1 \in 0 .. MaxLogs /\ k - 1 # a
      BY <1>2, <2>2, BoundsAreNatural
    <3>2. QED
      BY <1>1, <1>3, <1>4, <1>5, <2>2, <3>1
  <2>3. QED
    BY <1>2, <2>1, <2>2
<1>7. new = all
  BY <1>4, <1>5, <1>6, SeqEqual
<1>8. Len(all) <= MaxLogs
  BY <1>2, <1>5, BoundsAreNatural
<1>9. QED
  BY <1>7, <1>8 DEF Promised!Newest, all, old, new, next

\* In a ring that has, it takes the place of the oldest one.
LEMMA RotatedAppends ==
  ASSUME NEW S, NEW ring \in [0 .. MaxLogs -> S], NEW a \in 0 .. MaxLogs - 1, NEW r \in S
  PROVE  Rotated([ring EXCEPT ![a] = r], Around(a + 1))
           = Promised!Newest(Append(Rotated(ring, a), r))
<1> DEFINE next == [ring EXCEPT ![a] = r]
           b    == Around(a + 1)
           old  == Rotated(ring, a)
           new  == Rotated(next, b)
           all  == Append(old, r)
           rest == SubSeq(all, 2, MaxLogs + 1)
<1>1. next \in [0 .. MaxLogs -> S] /\ next[a] = r
      /\ \A i \in 0 .. MaxLogs : i # a => next[i] = ring[i]
  BY BoundsAreNatural
<1>2. MaxLogs \in Nat \ {0} /\ b \in 0 .. MaxLogs - 1
  BY BoundsAreNatural DEF Around
<1>3. \A k \in 1 .. MaxLogs - 1 : /\ Around(b + (k - 1)) = Around(a + ((k + 1) - 1))
                                  /\ Around(b + (k - 1)) # a
                                  /\ Around(b + (k - 1)) \in 0 .. MaxLogs
  BY <1>2 DEF Around
<1>4. Around(b + (MaxLogs - 1)) = a
  BY <1>2 DEF Around
<1> HIDE DEF next, b
<1>5. old \in Seq(S) /\ Len(old) = MaxLogs
      /\ \A k \in 1 .. MaxLogs : old[k] = ring[Around(a + (k - 1))]
  BY RotatedProperties
<1>6. new \in Seq(S) /\ Len(new) = MaxLogs
      /\ \A k \in 1 .. MaxLogs : new[k] = next[Around(b + (k - 1))]
  BY <1>1, <1>2, RotatedProperties
<1> HIDE DEF old, new
<1>7. all \in Seq(S) /\ Len(all) = MaxLogs + 1 /\ all[MaxLogs + 1] = r
      /\ \A k \in 1 .. MaxLogs : all[k] = old[k]
  <2> DEFINE n == Len(old)
  <2>1. old \in Seq(S) /\ n = MaxLogs /\ n \in Nat
    BY <1>2, <1>5
  <2>2. /\ all \in Seq(S) /\ Len(all) = n + 1 /\ all[n + 1] = r
        /\ \A k \in 1 .. n : all[k] = old[k]
    BY <2>1, AppendProperties
  <2> HIDE DEF all, n
  <2>3. QED
    BY <2>1, <2>2
<1> HIDE DEF all
<1>8. rest \in Seq(S) /\ Len(rest) = MaxLogs /\ \A k \in 1 .. MaxLogs : rest[k] = all[k + 1]
  <2>1. \A i \in 2 .. MaxLogs + 1 : all[i] \in S
    BY <1>2, <1>7, ElementOfSeq, Z3
  <2>2. /\ rest \in Seq(S)
        /\ Len(rest) = IF 2 <= MaxLogs + 1 THEN (MaxLogs + 1) - 2 + 1 ELSE 0
        /\ \A i \in 1 .. (MaxLogs + 1) - 2 + 1 : rest[i] = all[2 + i - 1]
    BY <1>2, <2>1, SubSeqProperties
  <2> HIDE DEF rest
  <2>3. QED
    BY <1>2, <2>2
<1> HIDE DEF rest
<1>9. ASSUME NEW k \in 1 .. MaxLogs PROVE new[k] = rest[k]
  <2>1. CASE k = MaxLogs
    BY <1>1, <1>2, <1>4, <1>6, <1>7, <1>8, <2>1
  <2>2. CASE k \in 1 .. MaxLogs - 1
    <3>1. k + 1 \in 1 .. MaxLogs
      BY <1>2, <2>2
    <3>2. rest[k] = ring[Around(a + ((k + 1) - 1))]
      BY <1>5, <1>7, <1>8, <3>1
    <3>3. new[k] = ring[Around(b + (k - 1))]
      BY <1>1, <1>3, <1>6, <2>2
    <3>4. QED
      BY <1>3, <2>2, <3>2, <3>3
  <2>3. QED
    BY <1>2, <2>1, <2>2
<1>10. new = rest
  BY <1>6, <1>8, <1>9, SeqEqual
<1>11. Promised!Newest(all) = rest
  <2>1. ~(Len(all) <= MaxLogs) /\ Len(all) - MaxLogs + 1 = 2 /\ Len(all) = MaxLogs + 1
    BY <1>2, <1>7
  <2>2. Promised!Newest(all) = SubSeq(all, Len(all) - MaxLogs + 1, Len(all))
    BY <2>1, Zenon DEF Promised!Newest
  <2>3. QED
    BY <2>1, <2>2, Zenon DEF rest
<1>12. QED
  BY <1>10, <1>11 DEF all, old, new, next, b

\* A ring that has just wrapped is listed as before.
LEMMA WrapKeepsList ==
  ASSUME NEW ring PROVE Rotated(ring, 0) = Straight(ring, MaxLogs)
BY BoundsAreNatural DEF Rotated, Straight, Around

\* Where neither write nor supply has failed, neither has been counted.
LEMMA CountersAreZero ==
  ASSUME NEW m \in Nat, NEW n \in Nat, ~(m + n > 0) PROVE m = 0 /\ n = 0
OBVIOUS

\* Until the EEPROM or the supply fails, the ring of log_events is the bounded
\* log for its readers: every step of the program appends one event and drops
\* the oldest of MaxLogs, empties the log, or shows them what it showed before.
THEOREM RingIsBoundedLog == Spec => IsBoundedLog
<1> DEFINE count  == IF pc = "record" THEN event - 1 ELSE event
           broken == crashes + faults > 0
<1>1. Init => Promised!Init
  BY DEF Init, Promised!Init, ReaderLog, Listing, ListingFrom, NumEntries
<1>2. TypeInv /\ RegionInv /\ NumbersInv /\ [Next]_vars
        => [Promised!Next]_<<ReaderLog, count, broken>>
  <2> SUFFICES ASSUME TypeInv, RegionInv, NumbersInv, [Next]_vars, ~broken'
               PROVE  \/ ~broken /\ (Promised!LogEvent \/ Promised!Reset)
                      \/ UNCHANGED <<ReaderLog, count, broken>>
    BY DEF Promised!Next
  <2>1. /\ crashes \in Nat /\ faults \in Nat /\ event \in Nat
        /\ cells \in [0 .. End -> 0 .. Foreign] /\ overlapped \in BOOLEAN
        /\ last \in Nat /\ MaxLogs \in Nat \ {0}
    BY BoundsAreNatural DEF TypeInv, TypeOK
  <2>2. ASSUME crashes' = crashes, faults' \in {faults, faults + 1}
        PROVE  ~broken /\ broken' = broken /\ last \in 0 .. End - 1
    <3>1. crashes = 0 /\ faults = 0 /\ faults' = faults
      <4>1. ~(crashes' + faults' > 0)
        OBVIOUS
      <4>2. \/ faults' = faults
            \/ faults' = faults + 1
        BY <2>2
      <4>3. crashes \in Nat /\ faults' \in Nat
        BY <2>1, <4>2
      <4>4. crashes = 0 /\ faults' = 0
        BY <2>2, <4>1, <4>3, CountersAreZero, Zenon
      <4>5. QED
        BY <2>1, <4>2, <4>4
    <3>2. ~broken /\ broken' = broken
      BY <2>2, <3>1
    <3>3. last \in 0 .. End - 1
      BY <2>1, <3>1, BoundsAreNatural DEF RegionInv, End
    <3>4. QED
      BY <3>2, <3>3
  <2>3. CASE LogEvent
    <3>1. /\ pc = "idle" /\ pc' = "record" /\ event' = event + 1 /\ last' = InRange(last)
          /\ UNCHANGED <<cells, overlapped, crashes, faults>>
      BY <2>3 DEF LogEvent
    <3>2. last' = last /\ count' = count /\ broken' = broken
      BY <2>1, <2>2, <3>1 DEF InRange, End
    <3>3. ReaderLog' = ReaderLog
      BY <3>1, <3>2 DEF ReaderLog, Listing, ListingFrom
    <3>4. QED
      BY <3>2, <3>3
  <2>4. CASE WriteRecord
    <3>1. /\ pc = "record" /\ pc' = "advance" /\ cells' = [cells EXCEPT ![last] = event]
          /\ UNCHANGED <<last, overlapped, event, crashes, faults>>
      BY <2>4 DEF WriteRecord
    <3>2. event \in 0 .. Foreign
      BY BoundsAreNatural DEF TypeInv, TypeOK, Foreign
    <3>3. last \in 0 .. MaxLogs - 1 /\ cells \in [0 .. MaxLogs -> 0 .. Foreign]
      BY <2>1, <2>2, <3>1 DEF End
    <3>4. /\ last + 1 \in 0 .. MaxLogs /\ (AtEnd(last + 1) <=> last + 1 = MaxLogs)
          /\ Around(last + 1) = IF AtEnd(last + 1) THEN 0 ELSE last + 1
      BY <2>1, <3>3 DEF AtEnd, End, Around
    <3>5. /\ ReaderLog = ListingFrom(last, overlapped)
          /\ ReaderLog' = IF AtEnd(last + 1) THEN ListingFrom(0, TRUE)'
                          ELSE ListingFrom(last + 1, overlapped)'
      BY <3>1, Zenon DEF ReaderLog, Listing
    <3>6. /\ ListingFrom(last, FALSE) = Straight(cells, last)
          /\ ListingFrom(last, TRUE) = Rotated(cells, last)
      <4>1. last \in 0 .. MaxLogs
        BY <3>3, BoundsAreNatural
      <4>2. QED
        BY <4>1, Listings, Zenon DEF ListingFrom
    <3>7. /\ ListingFrom(last + 1, FALSE)' = Straight(cells', last + 1)
          /\ ListingFrom(last + 1, TRUE)' = Rotated(cells', last + 1)
          /\ ListingFrom(0, TRUE)' = Rotated(cells', 0)
      <4>1. last' = last /\ 0 \in 0 .. MaxLogs
        BY <2>1, <3>1
      <4>2. ListingFrom(last + 1, FALSE)' = Straight(cells', last + 1)
        BY <3>4, <4>1, Listings, Zenon DEF ListingFrom
      <4>3. ListingFrom(last + 1, TRUE)' = Rotated(cells', last + 1)
        BY <3>4, <4>1, Listings, Zenon DEF ListingFrom
      <4>4. ListingFrom(0, TRUE)' = Rotated(cells', 0)
        BY <4>1, Listings, Zenon DEF ListingFrom
      <4>5. QED
        BY <4>2, <4>3, <4>4
    <3>8. ASSUME overlapped = FALSE
          PROVE  ReaderLog' = Promised!Newest(Append(ReaderLog, event))
      <4>1. ReaderLog = Straight(cells, last)
        BY <3>5, <3>6, <3>8, Zenon
      <4>2. ReaderLog' = Straight(cells', last + 1)
        <5>1. CASE AtEnd(last + 1)
          <6>1. last + 1 = MaxLogs
            BY <3>4, <5>1, Zenon
          <6>2. ReaderLog' = Rotated(cells', 0)
            BY <3>5, <3>7, <5>1, Zenon
          <6>3. QED
            BY <6>1, <6>2, WrapKeepsList, Zenon
        <5>2. CASE ~AtEnd(last + 1)
          BY <3>1, <3>5, <3>7, <3>8, <5>2, Zenon
        <5>3. QED
          BY <5>1, <5>2
      <4>3. QED
        BY <3>1, <3>2, <3>3, <4>1, <4>2, StraightAppends, Zenon
    <3>9. ASSUME overlapped = TRUE
          PROVE  ReaderLog' = Promised!Newest(Append(ReaderLog, event))
      <4>1. ReaderLog = Rotated(cells, last)
        BY <3>5, <3>6, <3>9, Zenon
      <4>2. ReaderLog' = Rotated(cells', Around(last + 1))
        BY <3>1, <3>4, <3>5, <3>7, <3>9, Zenon
      <4>3. QED
        BY <3>1, <3>2, <3>3, <4>1, <4>2, RotatedAppends, Zenon
    <3>10. ReaderLog' = Promised!Newest(Append(ReaderLog, event))
      <4>1. overlapped = TRUE \/ overlapped = FALSE
        BY <2>1, Zenon
      <4>2. QED
        BY <3>8, <3>9, <4>1, Zenon
    <3>11. count' = count + 1 /\ event = count + 1
      BY <2>1, <3>1
    <3>12. QED
      BY <2>2, <3>1, <3>10, <3>11 DEF Promised!LogEvent
  <2>5. CASE Advance
    <3>1. /\ pc = "advance" /\ pc' = "pointer" /\ ~AtEnd(last + 1) /\ last' = last + 1
          /\ UNCHANGED <<cells, overlapped, event, crashes, faults>>
      BY <2>5 DEF Advance
    <3>2. ReaderLog' = ReaderLog /\ count' = count /\ broken' = broken
      BY <3>1 DEF ReaderLog, Listing, ListingFrom
    <3>3. QED
      BY <3>2
  <2>6. CASE Wrap
    <3>1. /\ pc = "advance" /\ pc' = "pointer" /\ AtEnd(last + 1) /\ last' = 0
          /\ overlapped' = TRUE /\ UNCHANGED <<cells, event, crashes, faults>>
      BY <2>6 DEF Wrap, FlagWritten
    <3>2. ReaderLog' = ReaderLog /\ count' = count /\ broken' = broken
      BY <3>1 DEF ReaderLog, Listing, ListingFrom
    <3>3. QED
      BY <3>2
  <2>7. CASE setLastLogAddress
    <3>1. /\ pc = "pointer" /\ pc' = "idle" /\ faults' \in {faults, faults + 1}
          /\ UNCHANGED <<cells, last, overlapped, event, crashes>>
      BY <2>7 DEF setLastLogAddress, SaveLast, Works, Fails
    <3>2. ReaderLog' = ReaderLog /\ count' = count
      BY <3>1 DEF ReaderLog, Listing, ListingFrom
    <3>3. broken' = broken
      BY <2>2, <3>1
    <3>4. QED
      BY <3>2, <3>3
  <2>8. CASE obj_event_log_reset
    <3>1. /\ pc = "idle" /\ pc' = "reset" /\ UNCHANGED <<event, crashes, faults>>
      BY <2>8 DEF obj_event_log_reset
    <3>2. ReaderLog' = << >> /\ count' = count
      BY <3>1 DEF ReaderLog
    <3>3. QED
      BY <2>2, <3>1, <3>2 DEF Promised!Reset
  <2>9. CASE ResetPointer
    <3>1. /\ pc = "reset" /\ pc' = "clear" /\ faults' \in {faults, faults + 1}
          /\ UNCHANGED <<event, crashes>>
      BY <2>9 DEF ResetPointer, SaveLast, Works, Fails
    <3>2. ReaderLog' = ReaderLog /\ count' = count
      BY <3>1 DEF ReaderLog
    <3>3. broken' = broken
      BY <2>2, <3>1
    <3>4. QED
      BY <3>2, <3>3
  <2>10. CASE ClearFlag
    <3>1. pc = "clear" /\ pc' = "idle" /\ UNCHANGED <<last, event, crashes>> /\ last = 0
      BY <2>10 DEF ClearFlag, NumbersInv
    <3>2. overlapped' = FALSE
      BY <2>10, Zenon DEF ClearFlag, FlagWritten, FlagUnwritten
    <3>3. ReaderLog = << >> /\ ReaderLog' = << >> /\ count' = count
      BY <3>1, <3>2 DEF ReaderLog, Listing, ListingFrom, NumEntries
    <3>4. faults' \in {faults, faults + 1}
      BY <2>10, ClearFlagWrites DEF Works, Fails
    <3>5. broken' = broken
      BY <2>2, <3>1, <3>4
    <3>6. QED
      BY <3>3, <3>5
  <2>11. CASE RecordFails \/ WrapFails \/ Crash
    <3>1. \/ crashes' = crashes /\ faults' = faults + 1
          \/ crashes' = crashes + 1 /\ faults' = faults
      BY <2>11 DEF RecordFails, WrapFails, Crash, Fails
    <3>2. QED
      BY <2>1, <3>1
  <2>12. CASE UNCHANGED vars
    BY <2>12 DEF vars, ReaderLog, Listing, ListingFrom
  <2>13. QED
    BY <2>3, <2>4, <2>5, <2>6, <2>7, <2>8, <2>9, <2>10, <2>11, <2>12 DEF Next
<1>3. QED
  BY <1>1, <1>2, TypeInvariant, RegionInvariant, NumbersInvariant, PTL
  DEF Spec, IsBoundedLog, Promised!Spec
=============================================================================
