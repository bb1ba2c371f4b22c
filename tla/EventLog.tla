------------------------------ MODULE EventLog ------------------------------
(***************************************************************************)
(* One of the meter's event logs (types 3 to 9 of log_events): a ring of   *)
(* MaxLogs records in EEPROM, the address of the next record, and a flag   *)
(* that says whether the ring has wrapped.  Address and flag are kept in   *)
(* RAM and in EEPROM cells of their own; a power failure leaves the EEPROM *)
(* copies, which LoadConfigurations reads back at boot.                    *)
(*                                                                         *)
(* Addresses count records from START.  Address MaxLogs is END, where the  *)
(* cells of the next log begin (LAST_FRAUD_EVENT_ADDRESS_START lies behind *)
(* the standard log), so cell MaxLogs is a stranger's.  Records are the    *)
(* numbers of the events, in the order log_events is called.               *)
(***************************************************************************)
EXTENDS Naturals, Sequences, FiniteSets

CONSTANTS
  MaxLogs,       \* records in the ring (MAX_STANDARD_EVENT_LOGS)
  MaxEvents,     \* bound: events that happen
  MaxCrashes,    \* bound: power failures
  MaxFaults      \* bound: EEPROM writes that fail

ASSUME BoundsAreNatural ==
  /\ MaxLogs \in Nat \ {0}
  /\ MaxEvents \in Nat
  /\ MaxCrashes \in Nat
  /\ MaxFaults \in Nat

VARIABLES
  cells,       \* the EEPROM from START to END
  savedLast,   \* LastEventLogAddressStart
  savedFlag,   \* EventOverlapFlagAddressStart
  last,        \* last_standard_event_log_address
  overlapped,  \* status.standard_event_log_overlapped
  pc,          \* where the main program is
  event,       \* the newest event
  crashes,     \* power failures so far
  faults,      \* EEPROM writes that failed so far
  completed,   \* history: events whose log_events ran to its end
  resetBegan,  \* history: the newest event when a reset last began
  resetDone    \* history: the newest event when a reset last returned

vars == <<cells, savedLast, savedFlag, last, overlapped, pc, event, crashes,
          faults, completed, resetBegan, resetDone>>
history == <<completed, resetBegan, resetDone>>

-----------------------------------------------------------------------------
Events  == 1 .. MaxEvents
Torn    == 0                \* an erased or half-written record
Foreign == MaxEvents + 1    \* what the next log keeps in its cells
End     == MaxLogs

TypeOK ==
  /\ cells \in [0 .. End -> 0 .. Foreign]
  /\ savedLast \in 0 .. End - 1
  /\ last \in 0 .. End + 1
  /\ savedFlag \in BOOLEAN /\ overlapped \in BOOLEAN
  /\ pc \in {"idle", "record", "advance", "pointer", "reset", "clear"}
  /\ event \in 0 .. MaxEvents
  /\ crashes \in 0 .. MaxCrashes /\ faults \in 0 .. MaxFaults
  /\ completed \subseteq Events
  /\ resetBegan \in 0 .. MaxEvents /\ resetDone \in 0 .. resetBegan

Init ==
  /\ cells = [a \in 0 .. End |-> IF a = End THEN Foreign ELSE Torn]
  /\ savedLast = 0 /\ savedFlag = FALSE
  /\ last = 0 /\ overlapped = FALSE
  /\ pc = "idle" /\ event = 0 /\ crashes = 0 /\ faults = 0
  /\ completed = {} /\ resetBegan = 0 /\ resetDone = 0

-----------------------------------------------------------------------------
(* Writes to the EEPROM.  A record crosses page boundaries, so that a      *)
(* write that fails or is cut short may leave half of it behind; flag and  *)
(* address are written in one page.                                        *)

AtEndLate(address) == address > End      \* faulty variant: a record too many
AtEnd(address)     == address >= End

\* The range check of log_events: an address is tolerated up to END.
InRange(address) == IF address > End THEN 0 ELSE address

Works == UNCHANGED faults
Fails == faults < MaxFaults /\ faults' = faults + 1

SaveLast(address) ==
  \/ Works /\ savedLast' = address
  \/ Fails /\ UNCHANGED savedLast

\* Faulty variant: the flag is changed in RAM only.
FlagInRamOnly(value) == overlapped' = value /\ UNCHANGED savedFlag

FlagWritten(value)   == overlapped' = value /\ savedFlag' = value
FlagUnwritten(value) == overlapped' = value /\ UNCHANGED savedFlag

-----------------------------------------------------------------------------
(* log_events *)

LogEvent ==
  /\ pc = "idle" /\ event < MaxEvents
  /\ event' = event + 1
  /\ last' = InRange(last)
  /\ pc' = "record"
  /\ UNCHANGED <<cells, savedLast, savedFlag, overlapped, crashes, faults, history>>

WriteRecord ==
  /\ pc = "record"
  /\ cells' = [cells EXCEPT ![last] = event]
  /\ pc' = "advance"
  /\ UNCHANGED <<savedLast, savedFlag, last, overlapped, event, crashes, faults, history>>

\* Every attempt of write_to_eeprom fails, and no caller looks at its result.
RecordFails ==
  /\ pc = "record" /\ Fails
  /\ \E left \in {cells[last], Torn} : cells' = [cells EXCEPT ![last] = left]
  /\ pc' = "idle"
  /\ UNCHANGED <<savedLast, savedFlag, last, overlapped, event, crashes, history>>

(* updateNextLogAddress, called by log_events *)

Advance ==
  /\ pc = "advance" /\ ~AtEnd(last + 1)
  /\ last' = last + 1
  /\ pc' = "pointer"
  /\ UNCHANGED <<cells, savedLast, savedFlag, overlapped, event, crashes, faults, history>>

Wrap ==
  /\ pc = "advance" /\ AtEnd(last + 1)
  /\ FlagWritten(TRUE)
  /\ last' = 0
  /\ pc' = "pointer"
  /\ UNCHANGED <<cells, savedLast, event, crashes, faults, history>>

\* setEventOverlapFlag fails after it set the flag in RAM, the address stays
\* behind the end, and log_events ignores the result.
WrapFails ==
  /\ pc = "advance" /\ AtEnd(last + 1) /\ Fails
  /\ FlagUnwritten(TRUE)
  /\ last' = last + 1
  /\ pc' = "idle"
  /\ UNCHANGED <<cells, savedLast, event, crashes, history>>

setLastLogAddress ==
  /\ pc = "pointer"
  /\ SaveLast(last)
  /\ completed' = completed \cup {event}
  /\ pc' = "idle"
  /\ UNCHANGED <<cells, savedFlag, last, overlapped, event, crashes, resetBegan, resetDone>>

-----------------------------------------------------------------------------
(* obj_event_log_reset, the reset method of the log's DLMS object *)

obj_event_log_reset ==
  /\ pc = "idle" /\ event > resetBegan
  /\ last' = 0
  /\ resetBegan' = event
  /\ pc' = "reset"
  /\ UNCHANGED <<cells, savedLast, savedFlag, overlapped, event, crashes, faults, completed, resetDone>>

\* Faulty variant: the address goes back to START in RAM only.
ResetPointerInRam ==
  /\ pc = "reset"
  /\ pc' = "clear"
  /\ UNCHANGED <<cells, savedLast, savedFlag, last, overlapped, event, crashes, faults, history>>

ResetPointer ==
  /\ pc = "reset"
  /\ SaveLast(0)
  /\ pc' = "clear"
  /\ UNCHANGED <<cells, savedFlag, last, overlapped, event, crashes, history>>

\* Faulty variant: the ring stays marked as wrapped.
ClearNothing ==
  /\ pc = "clear"
  /\ resetDone' = resetBegan
  /\ pc' = "idle"
  /\ UNCHANGED <<cells, savedLast, savedFlag, last, overlapped, event, crashes, faults,
                 completed, resetBegan>>

ClearFlag ==
  /\ pc = "clear"
  /\ \/ Works /\ FlagWritten(FALSE)
     \/ Fails /\ FlagUnwritten(FALSE)
  /\ resetDone' = resetBegan
  /\ pc' = "idle"
  /\ UNCHANGED <<cells, savedLast, last, event, crashes, completed, resetBegan>>

-----------------------------------------------------------------------------
(* The power fails at any point, and the meter boots.                      *)

LoadConfigurations == last' = savedLast /\ overlapped' = savedFlag

Crash ==
  /\ crashes < MaxCrashes
  /\ crashes' = crashes + 1
  /\ \/ UNCHANGED cells
     \/ pc = "record" /\ cells' = [cells EXCEPT ![last] = Torn]
  /\ LoadConfigurations
  /\ pc' = "idle"
  /\ UNCHANGED <<savedLast, savedFlag, event, faults, history>>

Next ==
  \/ LogEvent \/ WriteRecord \/ RecordFails
  \/ Advance \/ Wrap \/ WrapFails \/ setLastLogAddress
  \/ obj_event_log_reset \/ ResetPointer \/ ClearFlag
  \/ Crash

Spec == Init /\ [][Next]_vars

-----------------------------------------------------------------------------
(* Reading the log: find_num_total_log_entries and get_log_time_stamp.     *)

NumEntries(address, wrapped) == IF wrapped THEN MaxLogs ELSE address

\* Faulty variant: the record behind the end is read for the first one.
EntryAddressLate(k, address, wrapped) ==
  IF ~wrapped THEN k - 1
  ELSE IF address + (k - 1) > End THEN address + (k - 1) - End
  ELSE address + (k - 1)

EntryAddress(k, address, wrapped) ==
  IF ~wrapped THEN k - 1
  ELSE IF address + (k - 1) >= End THEN address + (k - 1) - End
  ELSE address + (k - 1)

ListingFrom(address, wrapped) ==
  [k \in 1 .. NumEntries(address, wrapped) |->
     cells[EntryAddress(k, address, wrapped)]]

Listing == ListingFrom(last, overlapped)
Listed  == {Listing[k] : k \in DOMAIN Listing}

-----------------------------------------------------------------------------
(* Safety *)

\* Nothing but records of this log is written, and none behind its end
\* ("6000 LOGS * 7 BYTES", SM502/Logger.h:674): the cells of the next log
\* stay as they were.
InRegion == cells[End] = Foreign

\* So it is as long as every write to the EEPROM works, wherever the power
\* fails.
InRegionUnlessFaulty == faults = 0 => InRegion

\* What survives the power, if no write fails.  Of the events whose log_events
\* returned, the MaxLogs - 1 newest since a reset began are listed after any
\* sequence of further events, power failures and boots; the oldest record is
\* given up before the newest is in place, so one fewer than the ring holds.
DurableListed ==
  pc = "idle" /\ faults = 0 =>
    LET kept == {e \in completed : e > resetBegan}
    IN  \A e \in kept :
          Cardinality({f \in kept : f > e}) < MaxLogs - 1 => e \in Listed

\* No event from before a reset that has returned is ever listed again:
\* neither after the power failed and RAM was loaded from the EEPROM, nor
\* after writes that failed while the power stayed.
ResetIsFinal ==
  pc = "idle" /\ resetDone = resetBegan /\ (crashes = 0 \/ faults = 0) =>
    \A e \in Listed \ {Torn} : e > resetDone

-----------------------------------------------------------------------------
(* The log a reader is promised.  An event is there from the moment its    *)
(* record is written: nothing reads the log before updateNextLogAddress    *)
(* returns.  A log is empty from the moment its reset begins.              *)

ReaderLog ==
  IF pc \in {"reset", "clear"} THEN << >>
  ELSE IF pc = "advance"
  THEN IF AtEnd(last + 1) THEN ListingFrom(0, TRUE)
       ELSE ListingFrom(last + 1, overlapped)
  ELSE Listing

Promised == INSTANCE BoundedLog
  WITH log    <- ReaderLog,
       count  <- IF pc = "record" THEN event - 1 ELSE event,
       broken <- crashes + faults > 0

\* Until the EEPROM or the supply fails, the ring is the newest MaxLogs events
\* in their order, and empty after a reset.
IsBoundedLog == Promised!Spec
=============================================================================
