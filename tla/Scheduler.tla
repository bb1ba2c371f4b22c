----------------------------- MODULE Scheduler ------------------------------
(***************************************************************************)
(* The callback scheduler of the SM502: a timer interrupt counts the       *)
(* milliseconds of every scheduled task and marks those that are due, the  *)
(* main loop executes them.  A slot holds one task only, so a slot number  *)
(* stands for the task as well.                                            *)
(*                                                                         *)
(* Scheduler.h defines __monitor as nothing, so schedule_task,             *)
(* start_scheduler and cancel_task of the main program are taken apart at  *)
(* every read and write that the timer interrupt could come between.       *)
(* Interrupts do not nest: a call made by a handler is one step.           *)
(***************************************************************************)
EXTENDS Naturals

CONSTANTS
  MaxScheduledTasks,
  IsrTasks,   \* tasks scheduled by interrupt handlers, which nobody cancels
  MaxTime,    \* bound: the longest time_in_ms
  MaxCalls    \* bound: calls of schedule_task and cancel_task

Tasks     == 0 .. MaxScheduledTasks - 1
MainTasks == Tasks \ IsrTasks

ASSUME SchedulerAssumption ==
  /\ MaxScheduledTasks \in Nat \ {0}
  /\ IsrTasks \subseteq Tasks
  /\ MaxTime \in Nat \ {0}
  /\ MaxCalls \in Nat

VARIABLES
  time_in_ms, counter,    \* tasks[]
  executable_Task_Index,
  SchadulerIsOn,
  TA2CTL,  \* does the timer run? (its mode bits MC)
  pc,      \* where the main program is
  task,    \* the argument of the call it is in ...
  ms,      \* ... and its time_in_ms, 0 in a call of cancel_task
  back,    \* where that call returns to: the main loop or a callback
  z,       \* the loop variable of execute_tasks
  calls,
  live,    \* history: requested, and neither executed nor cancelled since
  want,    \* history: the time asked for, 0 when executed or cancelled
  age,     \* history: ticks since the request, at most MaxTime
  wasDue,  \* history: an older request of the task was due at the request
  struck,  \* history: a tick struck between its new time and its counter
  stuck    \* history: a tick stopped the timer while start_scheduler started it

power   == <<SchadulerIsOn, TA2CTL>>
slots   == <<time_in_ms, counter, executable_Task_Index, power>>
program == <<pc, task, ms, back, z>>
requests == <<live, want, age, wasDue, struck>>
history == <<requests, stuck>>
vars    == <<slots, program, calls, history>>

-----------------------------------------------------------------------------
Init ==
  /\ time_in_ms = [k \in Tasks |-> 0]
  /\ counter = [k \in Tasks |-> 0]
  /\ executable_Task_Index = [k \in Tasks |-> 0]
  /\ SchadulerIsOn = 0 /\ TA2CTL = 0
  /\ pc = "main" /\ task = 0 /\ ms = 0 /\ back = "main" /\ z = 0
  /\ calls = 0
  /\ live = [k \in Tasks |-> FALSE]
  /\ want = [k \in Tasks |-> 0]
  /\ age = [k \in Tasks |-> 0]
  /\ wasDue = [k \in Tasks |-> FALSE]
  /\ struck = [k \in Tasks |-> FALSE]
  /\ stuck = FALSE

(* The task is marked and no longer counts, or execute_tasks has seen its *)
(* mark already.                                                          *)
Due(k) ==
  \/ executable_Task_Index[k] = 1 /\ time_in_ms[k] = 0
  \/ pc \in {"x_time", "x_counter", "x_exec"} /\ z = k

Requested(k, t) ==
  /\ live' = [live EXCEPT ![k] = TRUE]
  /\ want' = [want EXCEPT ![k] = t]
  /\ age' = [age EXCEPT ![k] = 0]
  /\ wasDue' = [wasDue EXCEPT ![k] = Due(k)]
  /\ struck' = [struck EXCEPT ![k] = FALSE]
  /\ UNCHANGED stuck

Cancelled(k) ==
  /\ live' = [live EXCEPT ![k] = FALSE]
  /\ want' = [want EXCEPT ![k] = 0]
  /\ UNCHANGED <<age, wasDue, struck, stuck>>

CallerMayCall == pc \in {"main", "callback"} /\ calls < MaxCalls

-----------------------------------------------------------------------------
(* schedule_task called by an interrupt handler, which no other interrupt  *)
(* enters.  Only a slot that is still counting is cancelled first: a mark  *)
(* of a task that is due stays.                                            *)
ScheduleFromISR(k, t) ==
  /\ calls < MaxCalls
  /\ time_in_ms' = [time_in_ms EXCEPT ![k] = t]
  /\ counter' = [counter EXCEPT ![k] = 0]
  /\ executable_Task_Index' =
       [executable_Task_Index EXCEPT ![k] = IF time_in_ms[k] # 0 THEN 0 ELSE @]
  /\ IF SchadulerIsOn = 0 THEN SchadulerIsOn' = 1 /\ TA2CTL' = 1 ELSE UNCHANGED power
  /\ Requested(k, t)
  /\ calls' = calls + 1
  /\ UNCHANGED program

(* The same calls of the main program, one write at a time.               *)
schedule_task(k, t) ==
  /\ CallerMayCall
  /\ pc' = IF time_in_ms[k] # 0 THEN "c_time" ELSE "s_time"
  /\ task' = k /\ ms' = t /\ back' = pc
  /\ Requested(k, t)
  /\ calls' = calls + 1
  /\ UNCHANGED <<slots, z>>

SetTime ==
  /\ pc = "s_time"
  /\ time_in_ms' = [time_in_ms EXCEPT ![task] = ms]
  /\ pc' = "s_counter"
  /\ UNCHANGED <<counter, executable_Task_Index, power, task, ms, back, z, calls,
                 history>>

(* Faulty variant: the ticks of an older request are counted on.           *)
KeepCounter ==
  /\ pc = "s_counter"
  /\ pc' = "s_start"
  /\ UNCHANGED <<slots, task, ms, back, z, calls, history>>

ResetCounter ==
  /\ pc = "s_counter"
  /\ counter' = [counter EXCEPT ![task] = 0]
  /\ pc' = "s_start"
  /\ UNCHANGED <<time_in_ms, executable_Task_Index, power, task, ms, back, z, calls,
                 history>>

(* start_scheduler: the test of the flag, the timer, the flag.             *)
TestOn ==
  /\ pc = "s_start"
  /\ pc' = IF SchadulerIsOn = 0 THEN "s_timer" ELSE back
  /\ UNCHANGED <<slots, task, ms, back, z, calls, history>>

StartTimer ==
  /\ pc = "s_timer"
  /\ TA2CTL' = 1
  /\ pc' = "s_flag"
  /\ UNCHANGED <<time_in_ms, counter, executable_Task_Index, SchadulerIsOn, task, ms,
                 back, z, calls, history>>

SetOn ==
  /\ pc = "s_flag"
  /\ SchadulerIsOn' = 1
  /\ pc' = back
  /\ UNCHANGED <<time_in_ms, counter, executable_Task_Index, TA2CTL, task, ms, back,
                 z, calls, history>>

cancel_task(k) ==
  /\ CallerMayCall
  /\ pc' = "c_time"
  /\ task' = k /\ ms' = 0 /\ back' = pc
  /\ calls' = calls + 1
  /\ UNCHANGED <<slots, z, history>>

ClearTime ==
  /\ pc = "c_time"
  /\ time_in_ms' = [time_in_ms EXCEPT ![task] = 0]
  /\ pc' = "c_exec"
  /\ UNCHANGED <<counter, executable_Task_Index, power, task, ms, back, z, calls,
                 history>>

(* Faulty variant: the mark stays.                                        *)
KeepMark ==
  /\ pc = "c_exec"
  /\ IF ms = 0 THEN Cancelled(task) /\ pc' = back
               ELSE pc' = "s_time" /\ UNCHANGED history
  /\ UNCHANGED <<slots, task, ms, back, z, calls>>

ClearMark ==
  /\ pc = "c_exec"
  /\ executable_Task_Index' = [executable_Task_Index EXCEPT ![task] = 0]
  /\ IF ms = 0 THEN Cancelled(task) /\ pc' = back
               ELSE pc' = "s_time" /\ UNCHANGED history
  /\ UNCHANGED <<time_in_ms, counter, power, task, ms, back, z, calls>>

-----------------------------------------------------------------------------
(* Faulty variant: the timer is stopped when a task has come due.         *)
StopsWhenDue(counting, due) == due # {}

(* stop_scheduler is called when no task counts.                          *)
Stops(counting, due) == counting = {}

TimeHasPassed(k) == time_in_ms[k] > 0 /\ counter[k] + 1 >= time_in_ms[k]

(* A counter above MaxTime has passed every time there is.                *)
TIMER2_A1_ISR ==
  /\ TA2CTL = 1
  /\ LET counting == {k \in Tasks : time_in_ms[k] > 0}
         due      == {k \in Tasks : TimeHasPassed(k)}
     IN  /\ counter' = [k \in Tasks |->
              IF k \in counting /\ counter[k] <= MaxTime THEN counter[k] + 1 ELSE counter[k]]
         /\ executable_Task_Index' =
              [k \in Tasks |-> IF k \in due THEN 1 ELSE executable_Task_Index[k]]
         /\ time_in_ms' = [k \in Tasks |-> IF k \in due THEN 0 ELSE time_in_ms[k]]
         /\ IF Stops(counting, due)
            THEN /\ SchadulerIsOn' = 0 /\ TA2CTL' = 0
                 /\ stuck' = (stuck \/ pc = "s_flag")
            ELSE UNCHANGED <<power, stuck>>
  /\ age' = [k \in Tasks |-> IF age[k] < MaxTime THEN age[k] + 1 ELSE age[k]]
  /\ struck' = IF pc = "s_counter" THEN [struck EXCEPT ![task] = TRUE] ELSE struck
  /\ UNCHANGED <<program, calls, live, want, wasDue>>

-----------------------------------------------------------------------------
execute_tasks ==
  /\ pc = "main"
  /\ \E k \in Tasks : executable_Task_Index[k] = 1
  /\ pc' = "loop" /\ z' = 0
  /\ UNCHANGED <<slots, task, ms, back, calls, history>>

TestMark ==
  /\ pc = "loop"
  /\ IF executable_Task_Index[z] = 1
       THEN pc' = "x_time" /\ UNCHANGED z
       ELSE IF z + 1 \in Tasks THEN z' = z + 1 /\ UNCHANGED pc
                               ELSE z' = 0 /\ pc' = "main"
  /\ UNCHANGED <<slots, task, ms, back, calls, history>>

ExecClearTime ==
  /\ pc = "x_time"
  /\ time_in_ms' = [time_in_ms EXCEPT ![z] = 0]
  /\ live' = [live EXCEPT ![z] = FALSE]
  /\ pc' = "x_counter"
  /\ UNCHANGED <<counter, executable_Task_Index, power, task, ms, back, z, calls,
                 want, age, wasDue, struck, stuck>>

ExecClearCounter ==
  /\ pc = "x_counter"
  /\ counter' = [counter EXCEPT ![z] = 0]
  /\ pc' = "x_exec"
  /\ UNCHANGED <<time_in_ms, executable_Task_Index, power, task, ms, back, z, calls,
                 history>>

(* The callback is called.                                                *)
ExecClearMark ==
  /\ pc = "x_exec"
  /\ executable_Task_Index' = [executable_Task_Index EXCEPT ![z] = 0]
  /\ want' = [want EXCEPT ![z] = 0]
  /\ pc' = "callback"
  /\ UNCHANGED <<time_in_ms, counter, power, task, ms, back, z, calls,
                 live, age, wasDue, struck, stuck>>

CallbackReturns ==
  /\ pc = "callback"
  /\ IF z + 1 \in Tasks THEN z' = z + 1 /\ pc' = "loop"
                        ELSE z' = 0 /\ pc' = "main"
  /\ UNCHANGED <<slots, task, ms, back, calls, history>>

-----------------------------------------------------------------------------
MainProgram ==
  \/ SetTime \/ ResetCounter \/ TestOn \/ StartTimer \/ SetOn
  \/ ClearTime \/ ClearMark
  \/ execute_tasks \/ TestMark
  \/ ExecClearTime \/ ExecClearCounter \/ ExecClearMark
  \/ CallbackReturns

Calls ==
  \/ \E k \in MainTasks :
       cancel_task(k) \/ \E t \in 1 .. MaxTime : schedule_task(k, t)
  \/ \E k \in IsrTasks, t \in 1 .. MaxTime : ScheduleFromISR(k, t)

Next == MainProgram \/ TIMER2_A1_ISR \/ Calls

Spec == Init /\ [][Next]_vars

(* The main loop calls execute_tasks constantly and callbacks return; the *)
(* timer ticks while it is on.                                            *)
FairSpec == Spec /\ WF_vars(MainProgram) /\ WF_vars(TIMER2_A1_ISR)

-----------------------------------------------------------------------------
PCs == {"main", "callback", "loop", "x_time", "x_counter", "x_exec",
        "s_time", "s_counter", "s_start", "s_timer", "s_flag", "c_time", "c_exec"}

(* Every variable has its type.                                           *)
TypeOK ==
  /\ time_in_ms \in [Tasks -> 0 .. MaxTime]
  /\ counter \in [Tasks -> 0 .. MaxTime + 1]
  /\ executable_Task_Index \in [Tasks -> {0, 1}]
  /\ SchadulerIsOn \in {0, 1} /\ TA2CTL \in {0, 1}
  /\ pc \in PCs
  /\ task \in Tasks /\ ms \in 0 .. MaxTime /\ back \in {"main", "callback"}
  /\ z \in Tasks
  /\ calls \in 0 .. MaxCalls
  /\ live \in [Tasks -> BOOLEAN] /\ want \in [Tasks -> 0 .. MaxTime]
  /\ age \in [Tasks -> 0 .. MaxTime] /\ wasDue \in [Tasks -> BOOLEAN]
  /\ struck \in [Tasks -> BOOLEAN] /\ stuck \in BOOLEAN

(* The timer never sleeps while a task counts, but for the call that      *)
(* schedules that very task and is about to start it, until the timer     *)
(* stops between the two writes of start_scheduler: then the flag says    *)
(* that it runs, and no later call starts it.                             *)
TimerRuns ==
  \A k \in Tasks : time_in_ms[k] > 0 =>
    \/ TA2CTL = 1
    \/ pc \in {"s_counter", "s_start", "s_timer"} /\ task = k
    \/ stuck

(* A task is executed only for a request: never after cancel_task has     *)
(* returned, and never twice for one request, wherever the timer          *)
(* interrupt strikes.                                                     *)
NoSpuriousRun == pc = "x_time" => live[z]

(* The task will not be executed before the specified time, unless an     *)
(* older request of it was due already (schedule_task leaves its mark), or *)
(* a tick came between the two writes that set the time and the counter.   *)
FreshNotBeforeTime ==
  pc = "x_exec" => wasDue[z] \/ struck[z] \/ age[z] >= want[z]

(* Every request is executed eventually, if it is not cancelled and the   *)
(* timer is not stuck.                                                    *)
EventuallyRuns == \A k \in Tasks : want[k] # 0 ~> want[k] = 0 \/ stuck
=============================================================================
