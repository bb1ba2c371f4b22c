--------------------------- MODULE ServiceProofs ----------------------------
(***************************************************************************)
(* The two services that the serial ports are built on.                    *)
(*                                                                         *)
(* Scheduler: safety for any number of tasks, any times and any number of  *)
(* calls, with the timer interrupt between any two writes.                 *)
(*                                                                         *)
(* Queue: with calls that are not interrupted the ring of Queue.c          *)
(* implements the bounded FIFO of Fifo, for any length of the buffer.      *)
(***************************************************************************)
EXTENDS Scheduler, Queue, SequenceTheorems, TLAPS

(* Every variable keeps its type, whatever step is taken.                 *)
LEMMA TypeStep ==
  ASSUME TypeOK, [Next]_vars
  PROVE  TypeOK'
<1> USE SchedulerAssumption DEF TypeOK, PCs, power, slots, program, requests, history, MainTasks
<1>a. Tasks \subseteq Nat /\ 0 \in Tasks
  BY DEF Tasks
<1>1. CASE SetTime
  BY <1>1 DEF SetTime
<1>2. CASE ResetCounter
  BY <1>2 DEF ResetCounter
<1>3a. CASE TestOn
  BY <1>3a DEF TestOn
<1>3b. CASE StartTimer
  BY <1>3b DEF StartTimer
<1>3c. CASE SetOn
  BY <1>3c DEF SetOn
<1>4. CASE ClearTime
  BY <1>4 DEF ClearTime
<1>5. CASE ClearMark
  <2>1. executable_Task_Index' \in [Tasks -> {0, 1}] /\ pc' \in PCs
    BY <1>5 DEF ClearMark
  <2>2. live' \in [Tasks -> BOOLEAN]
    BY <1>5 DEF ClearMark, Cancelled
  <2>3. want' \in [Tasks -> 0 .. MaxTime]
    BY <1>5 DEF ClearMark, Cancelled
  <2>4. UNCHANGED <<time_in_ms, counter, power, task, ms, back, z, calls, age, wasDue, struck,
                    stuck>>
    BY <1>5 DEF ClearMark, Cancelled
  <2>. QED  BY <2>1, <2>2, <2>3, <2>4
<1>6. CASE execute_tasks
  BY <1>6, <1>a DEF execute_tasks
<1>7. CASE TestMark
  BY <1>7, <1>a DEF TestMark
<1>8. CASE ExecClearTime
  BY <1>8 DEF ExecClearTime
<1>9. CASE ExecClearCounter
  BY <1>9 DEF ExecClearCounter
<1>10. CASE ExecClearMark
  BY <1>10 DEF ExecClearMark
<1>11. CASE CallbackReturns
  BY <1>11, <1>a DEF CallbackReturns
<1>12. CASE TIMER2_A1_ISR
  <2>1. counter' \in [Tasks -> 0 .. MaxTime + 1]
    BY <1>12 DEF TIMER2_A1_ISR
  <2>2. time_in_ms' \in [Tasks -> 0 .. MaxTime]
    BY <1>12 DEF TIMER2_A1_ISR
  <2>3. executable_Task_Index' \in [Tasks -> {0, 1}]
    BY <1>12 DEF TIMER2_A1_ISR
  <2>4. age' \in [Tasks -> 0 .. MaxTime]
    BY <1>12 DEF TIMER2_A1_ISR
  <2>5. SchadulerIsOn' \in {0, 1} /\ TA2CTL' \in {0, 1}
    BY <1>12 DEF TIMER2_A1_ISR
  <2>8. stuck' \in BOOLEAN
    BY <1>12 DEF TIMER2_A1_ISR
  <2>6. UNCHANGED <<program, calls, live, want, wasDue>>
    BY <1>12 DEF TIMER2_A1_ISR
  <2>7. struck' \in [Tasks -> BOOLEAN]
    <3>1. struck' = struck \/ struck' = [struck EXCEPT ![task] = TRUE]
      BY <1>12 DEF TIMER2_A1_ISR
    <3>. QED  BY <3>1
  <2>. QED  BY <2>1, <2>2, <2>3, <2>4, <2>5, <2>6, <2>7, <2>8
<1>13. ASSUME NEW i \in MainTasks, NEW t \in 1 .. MaxTime, schedule_task(i, t)
      PROVE  TypeOK'
  <2>1. time_in_ms' \in [Tasks -> 0 .. MaxTime] /\ counter' \in [Tasks -> 0 .. MaxTime + 1]
    BY <1>13 DEF schedule_task
  <2>2. executable_Task_Index' \in [Tasks -> {0, 1}] /\ UNCHANGED <<power, stuck>>
    BY <1>13 DEF schedule_task, Requested
  <2>3. live' \in [Tasks -> BOOLEAN] /\ wasDue' \in [Tasks -> BOOLEAN]
    BY <1>13 DEF schedule_task, Requested, Due
  <2>7. struck' \in [Tasks -> BOOLEAN]
    BY <1>13 DEF schedule_task, Requested
  <2>4. want' \in [Tasks -> 0 .. MaxTime] /\ age' \in [Tasks -> 0 .. MaxTime]
    BY <1>13 DEF schedule_task, Requested
  <2>5. pc' \in PCs /\ task' \in Tasks /\ ms' \in 0 .. MaxTime /\ z' = z
        /\ back' \in {"main", "callback"}
    BY <1>13 DEF schedule_task, CallerMayCall
  <2>6. calls' \in 0 .. MaxCalls
    BY <1>13 DEF schedule_task, CallerMayCall
  <2>. QED  BY <2>1, <2>2, <2>3, <2>4, <2>5, <2>6, <2>7
<1>14. ASSUME NEW i \in MainTasks, cancel_task(i)
      PROVE  TypeOK'
  BY <1>14 DEF cancel_task, CallerMayCall
<1>15. ASSUME NEW i \in IsrTasks, NEW t \in 1 .. MaxTime, ScheduleFromISR(i, t)
      PROVE  TypeOK'
  BY <1>15 DEF ScheduleFromISR, Requested, Due
<1>16. CASE UNCHANGED vars
  BY <1>16 DEF vars
<1>. QED  BY <1>1, <1>2, <1>3a, <1>3b, <1>3c, <1>4, <1>5, <1>6, <1>7, <1>8,
              <1>9, <1>10, <1>11, <1>12, <1>13, <1>14, <1>15, <1>16
           DEF Next, MainProgram, Calls

(* Every variable has its type in every reachable state.                  *)
THEOREM SchedulerTypeCorrect == Spec => []TypeOK
<1>1. ASSUME Init
      PROVE  TypeOK
  <2>1. 0 \in Tasks
    BY SchedulerAssumption DEF Tasks
  <2>2. SchadulerIsOn \in {0, 1} /\ TA2CTL \in {0, 1} /\ pc \in PCs
        /\ ms \in 0 .. MaxTime /\ back \in {"main", "callback"} /\ calls \in 0 .. MaxCalls
    BY <1>1, SchedulerAssumption DEF Init, PCs
  <2>3. time_in_ms \in [Tasks -> 0 .. MaxTime] /\ counter \in [Tasks -> 0 .. MaxTime + 1]
        /\ executable_Task_Index \in [Tasks -> {0, 1}]
    BY <1>1, SchedulerAssumption DEF Init
  <2>4. want \in [Tasks -> 0 .. MaxTime] /\ age \in [Tasks -> 0 .. MaxTime]
    BY <1>1, SchedulerAssumption DEF Init
  <2>5. live \in [Tasks -> BOOLEAN] /\ wasDue \in [Tasks -> BOOLEAN]
    BY <1>1 DEF Init
  <2>6. struck \in [Tasks -> BOOLEAN] /\ stuck \in BOOLEAN
    BY <1>1 DEF Init
  <2>. QED  BY <1>1, <2>1, <2>2, <2>3, <2>4, <2>5, <2>6 DEF Init, TypeOK
<1>. QED  BY <1>1, TypeStep, PTL DEF Spec

-----------------------------------------------------------------------------
(* The flag says that the timer runs, and start_scheduler finds it running *)
(* when it sets the flag, until the timer is stuck.                        *)
TimerInv ==
  /\ TimerRuns
  /\ SchadulerIsOn = 1 => TA2CTL = 1 \/ stuck
  /\ pc = "s_flag" => TA2CTL = 1 \/ stuck

(* TimerInv is preserved: a call that sets a time has not returned yet, and *)
(* the timer stops only when nothing counts.                                *)
LEMMA TimerInvStep ==
  ASSUME TypeOK, TimerInv, [Next]_vars
  PROVE  TimerInv'
<1> USE DEF TypeOK, TimerInv, TimerRuns, power, slots, program, requests, history, MainTasks
<1>0. TypeOK'
  BY TypeStep
<1>1. CASE SetTime
  BY <1>1 DEF SetTime
<1>2. CASE ResetCounter
  BY <1>2 DEF ResetCounter
<1>3a. CASE TestOn
  BY <1>3a DEF TestOn
<1>3b. CASE StartTimer
  BY <1>3b DEF StartTimer
<1>3c. CASE SetOn
  BY <1>3c DEF SetOn
<1>4. CASE ClearTime
  BY <1>4 DEF ClearTime
<1>5. CASE ClearMark
  BY <1>5 DEF ClearMark, Cancelled
<1>6. CASE execute_tasks
  BY <1>6 DEF execute_tasks
<1>7. CASE TestMark
  BY <1>7 DEF TestMark
<1>8. CASE ExecClearTime
  BY <1>8 DEF ExecClearTime
<1>9. CASE ExecClearCounter
  BY <1>9 DEF ExecClearCounter
<1>10. CASE ExecClearMark
  BY <1>10 DEF ExecClearMark
<1>11. CASE CallbackReturns
  BY <1>11 DEF CallbackReturns
<1>12. CASE TIMER2_A1_ISR
  BY <1>12 DEF TIMER2_A1_ISR, TimeHasPassed, Stops
<1>13. ASSUME NEW i \in MainTasks, NEW t \in 1 .. MaxTime, schedule_task(i, t)
      PROVE  TimerInv'
  BY <1>13 DEF schedule_task, Requested, Due, CallerMayCall
<1>14. ASSUME NEW i \in MainTasks, cancel_task(i)
      PROVE  TimerInv'
  BY <1>14 DEF cancel_task, Cancelled, CallerMayCall
<1>15. ASSUME NEW i \in IsrTasks, NEW t \in 1 .. MaxTime, ScheduleFromISR(i, t)
      PROVE  TimerInv'
  BY <1>15 DEF ScheduleFromISR, Requested, Due
<1>16. CASE UNCHANGED vars
  BY <1>16 DEF vars
<1>. QED  BY <1>1, <1>2, <1>3a, <1>3b, <1>3c, <1>4, <1>5, <1>6, <1>7, <1>8,
              <1>9, <1>10, <1>11, <1>12, <1>13, <1>14, <1>15, <1>16
           DEF Next, MainProgram, Calls

(* The timer never sleeps while a task counts, but for the call that      *)
(* schedules that very task, until a tick that finds nothing counting     *)
(* stops the timer between the two writes of start_scheduler.             *)
THEOREM TimerNeverSleeps == Spec => []TimerRuns
<1>1. Init => TimerInv
  BY DEF Init, TimerInv, TimerRuns
<1>2. TimerInv => TimerRuns
  BY DEF TimerInv
<1>. QED  BY <1>1, <1>2, TimerInvStep, SchedulerTypeCorrect, PTL DEF Spec

-----------------------------------------------------------------------------
StartPCs == {"s_counter", "s_start", "s_timer", "s_flag"}

CallPCs == StartPCs \cup {"s_time", "c_time", "c_exec"}

(* A slot that counts or is marked belongs to a live request, unless      *)
(* execute_tasks is about to remove the mark; cancel_task removes the     *)
(* mark only when the slot no longer counts.                              *)
RunInv ==
  /\ \A k \in Tasks : time_in_ms[k] > 0 => live[k]
  /\ \A k \in Tasks : executable_Task_Index[k] = 1
                        => live[k] \/ (pc \in {"x_counter", "x_exec"} /\ z = k)
  /\ pc = "x_time" => live[z]
  /\ pc \in CallPCs => task \in MainTasks
  /\ pc \in StartPCs \cup {"s_time"} \/ (pc \in CallPCs /\ ms # 0) => live[task]
  /\ pc = "c_exec" => time_in_ms[task] = 0

(* RunInv is preserved by every step.                                     *)
LEMMA RunInvStep ==
  ASSUME TypeOK, RunInv, [Next]_vars
  PROVE  RunInv'
<1> USE SchedulerAssumption DEF TypeOK, RunInv, StartPCs, CallPCs, power, slots, program, requests, history, MainTasks
<1>0. TypeOK'
  BY TypeStep
<1>1. CASE SetTime
  BY <1>1, <1>0 DEF SetTime
<1>2. CASE ResetCounter
  BY <1>2, <1>0 DEF ResetCounter
<1>3a. CASE TestOn
  BY <1>3a, <1>0 DEF TestOn
<1>3b. CASE StartTimer
  BY <1>3b, <1>0 DEF StartTimer
<1>3c. CASE SetOn
  BY <1>3c, <1>0 DEF SetOn
<1>4. CASE ClearTime
  BY <1>4, <1>0 DEF ClearTime
<1>5. CASE ClearMark
  BY <1>5, <1>0 DEF ClearMark, Cancelled
<1>6. CASE execute_tasks
  BY <1>6, <1>0 DEF execute_tasks
<1>7. CASE TestMark
  BY <1>7, <1>0 DEF TestMark
<1>8. CASE ExecClearTime
  BY <1>8, <1>0 DEF ExecClearTime
<1>9. CASE ExecClearCounter
  BY <1>9, <1>0 DEF ExecClearCounter
<1>10. CASE ExecClearMark
  BY <1>10, <1>0 DEF ExecClearMark
<1>11. CASE CallbackReturns
  BY <1>11, <1>0 DEF CallbackReturns
<1>12. CASE TIMER2_A1_ISR
  BY <1>12, <1>0 DEF TIMER2_A1_ISR, TimeHasPassed, Stops
<1>13. ASSUME NEW i \in MainTasks, NEW t \in 1 .. MaxTime, schedule_task(i, t)
      PROVE  RunInv'
  BY <1>13, <1>0 DEF schedule_task, Requested, Due, CallerMayCall
<1>14. ASSUME NEW i \in MainTasks, cancel_task(i)
      PROVE  RunInv'
  BY <1>14, <1>0 DEF cancel_task, Cancelled, CallerMayCall
<1>15. ASSUME NEW i \in IsrTasks, NEW t \in 1 .. MaxTime, ScheduleFromISR(i, t)
      PROVE  RunInv'
  BY <1>15, <1>0 DEF ScheduleFromISR, Requested, Due
<1>16. CASE UNCHANGED vars
  BY <1>16 DEF vars
<1>. QED  BY <1>1, <1>2, <1>3a, <1>3b, <1>3c, <1>4, <1>5, <1>6, <1>7, <1>8,
              <1>9, <1>10, <1>11, <1>12, <1>13, <1>14, <1>15, <1>16
           DEF Next, MainProgram, Calls

(* RunInv holds in every reachable state.                                 *)
LEMMA RunInvariant == Spec => []RunInv
<1>1. Init => RunInv
  BY DEF Init, RunInv, StartPCs, CallPCs
<1>. QED  BY <1>1, RunInvStep, SchedulerTypeCorrect, PTL DEF Spec

(* A task is executed only for a request: never after cancel_task has     *)
(* returned, and never twice for one request.                             *)
THEOREM NeverSpurious == Spec => []NoSpuriousRun
<1>1. RunInv => NoSpuriousRun
  BY DEF RunInv, NoSpuriousRun
<1>. QED  BY <1>1, RunInvariant, PTL

-----------------------------------------------------------------------------
(* The request was made of a task that was not due, and no tick struck    *)
(* between its two writes.                                                *)
Fresh(k) == ~wasDue[k] /\ ~struck[k]

(* schedule_task still has to remove the older request of the task.       *)
Replacing(k) == pc \in {"c_time", "c_exec"} /\ ms # 0 /\ task = k

Executing(k) == pc \in {"x_time", "x_counter", "x_exec"} /\ z = k

(* A slot that counts for a fresh request is not marked, and has counted  *)
(* no more ticks than have passed, but for the call that is about to      *)
(* reset its counter; a mark of a fresh request was set in time.          *)
FreshInv ==
  /\ \A k \in Tasks : Fresh(k) /\ ~Replacing(k) /\ time_in_ms[k] > 0
       => /\ want[k] = time_in_ms[k]
          /\ executable_Task_Index[k] = 0
          /\ counter[k] <= age[k] \/ (pc = "s_counter" /\ task = k)
  /\ \A k \in Tasks : Fresh(k) /\ ~Replacing(k) /\ executable_Task_Index[k] = 1
       => age[k] >= want[k]
  /\ \A k \in Tasks : Fresh(k) /\ Executing(k)
       => age[k] >= want[k] /\ time_in_ms[k] = 0
  /\ pc = "s_time" => time_in_ms[task] = 0 /\ ms > 0
  /\ pc = "s_time" /\ Fresh(task) => executable_Task_Index[task] = 0
  /\ pc = "s_time" \/ (pc \in {"c_time", "c_exec"} /\ ms # 0) => want[task] = ms

(* FreshInv is preserved by every step.                                   *)
LEMMA FreshInvStep ==
  ASSUME TypeOK, RunInv, FreshInv, [Next]_vars
  PROVE  FreshInv'
<1> USE SchedulerAssumption
    DEF TypeOK, FreshInv, Fresh, Replacing, Executing, power, slots, program, requests, history, MainTasks
<1>0. TypeOK'
  BY TypeStep
<1>1. CASE SetTime
  BY <1>1, <1>0 DEF SetTime
<1>2. CASE ResetCounter
  BY <1>2, <1>0 DEF ResetCounter
<1>3a. CASE TestOn
  BY <1>3a, <1>0 DEF TestOn
<1>3b. CASE StartTimer
  BY <1>3b, <1>0 DEF StartTimer
<1>3c. CASE SetOn
  BY <1>3c, <1>0 DEF SetOn
<1>4. CASE ClearTime
  BY <1>4, <1>0 DEF ClearTime
<1>5. CASE ClearMark
  BY <1>5, <1>0 DEF ClearMark, Cancelled, RunInv, StartPCs, CallPCs
<1>6. CASE execute_tasks
  BY <1>6, <1>0 DEF execute_tasks
<1>7. CASE TestMark
  BY <1>7, <1>0 DEF TestMark
<1>8. CASE ExecClearTime
  BY <1>8, <1>0 DEF ExecClearTime
<1>9. CASE ExecClearCounter
  BY <1>9, <1>0 DEF ExecClearCounter
<1>10. CASE ExecClearMark
  BY <1>10, <1>0 DEF ExecClearMark
<1>11. CASE CallbackReturns
  BY <1>11, <1>0 DEF CallbackReturns
<1>12. CASE TIMER2_A1_ISR
  BY <1>12, <1>0 DEF TIMER2_A1_ISR, TimeHasPassed, Stops
<1>13. ASSUME NEW i \in MainTasks, NEW t \in 1 .. MaxTime, schedule_task(i, t)
      PROVE  FreshInv'
  BY <1>13, <1>0 DEF schedule_task, Requested, Due, CallerMayCall
<1>14. ASSUME NEW i \in MainTasks, cancel_task(i)
      PROVE  FreshInv'
  BY <1>14, <1>0 DEF cancel_task, CallerMayCall
<1>15. ASSUME NEW i \in IsrTasks, NEW t \in 1 .. MaxTime, ScheduleFromISR(i, t)
      PROVE  FreshInv'
  BY <1>15, <1>0 DEF ScheduleFromISR, Requested, Due, RunInv, StartPCs, CallPCs
<1>16. CASE UNCHANGED vars
  BY <1>16 DEF vars
<1>. QED  BY <1>1, <1>2, <1>3a, <1>3b, <1>3c, <1>4, <1>5, <1>6, <1>7, <1>8,
              <1>9, <1>10, <1>11, <1>12, <1>13, <1>14, <1>15, <1>16
           DEF Next, MainProgram, Calls

(* FreshInv holds in every reachable state.                               *)
LEMMA FreshInvariant == Spec => []FreshInv
<1>1. Init => FreshInv
  BY DEF Init, FreshInv, Executing
<1>. QED  BY <1>1, FreshInvStep, RunInvariant, SchedulerTypeCorrect, PTL DEF Spec

(* A request of a task that is not due already is never executed before   *)
(* its time, unless a tick strikes between its two writes: every other    *)
(* place of schedule_task and cancel_task may be interrupted.             *)
THEOREM FreshIsOnTime == Spec => []FreshNotBeforeTime
<1>1. FreshInv /\ TypeOK => FreshNotBeforeTime
  BY DEF FreshInv, Fresh, Executing, FreshNotBeforeTime, TypeOK
<1>. QED  BY <1>1, FreshInvariant, SchedulerTypeCorrect, PTL

-----------------------------------------------------------------------------
(* A request whose call has returned counts, or is marked, or execute_tasks *)
(* has seen its mark: whatever is interrupted, no write of the program and  *)
(* of the timer takes the request from both the counter and the marks.      *)
RequestKept ==
  \A k \in Tasks : want[k] # 0 =>
    \/ time_in_ms[k] > 0
    \/ executable_Task_Index[k] = 1
    \/ Executing(k)
    \/ pc \in {"s_time", "c_time", "c_exec"} /\ task = k

(* RequestKept is preserved by every step.                                *)
LEMMA RequestKeptStep ==
  ASSUME TypeOK, FreshInv, RequestKept, [Next]_vars
  PROVE  RequestKept'
<1> USE SchedulerAssumption
    DEF TypeOK, RequestKept, Executing, power, slots, program, requests, history, MainTasks
<1>0. TypeOK'
  BY TypeStep
<1>1. CASE SetTime
  BY <1>1, <1>0 DEF SetTime, FreshInv
<1>2. CASE ResetCounter
  BY <1>2, <1>0 DEF ResetCounter
<1>3a. CASE TestOn
  BY <1>3a, <1>0 DEF TestOn
<1>3b. CASE StartTimer
  BY <1>3b, <1>0 DEF StartTimer
<1>3c. CASE SetOn
  BY <1>3c, <1>0 DEF SetOn
<1>4. CASE ClearTime
  BY <1>4, <1>0 DEF ClearTime
<1>5. CASE ClearMark
  BY <1>5, <1>0 DEF ClearMark, Cancelled
<1>6. CASE execute_tasks
  BY <1>6, <1>0 DEF execute_tasks
<1>7. CASE TestMark
  BY <1>7, <1>0 DEF TestMark
<1>8. CASE ExecClearTime
  BY <1>8, <1>0 DEF ExecClearTime
<1>9. CASE ExecClearCounter
  BY <1>9, <1>0 DEF ExecClearCounter
<1>10. CASE ExecClearMark
  BY <1>10, <1>0 DEF ExecClearMark
<1>11. CASE CallbackReturns
  BY <1>11, <1>0 DEF CallbackReturns
<1>12. CASE TIMER2_A1_ISR
  BY <1>12, <1>0 DEF TIMER2_A1_ISR, TimeHasPassed, Stops
<1>13. ASSUME NEW i \in MainTasks, NEW t \in 1 .. MaxTime, schedule_task(i, t)
      PROVE  RequestKept'
  BY <1>13, <1>0 DEF schedule_task, Requested, Due, CallerMayCall
<1>14. ASSUME NEW i \in MainTasks, cancel_task(i)
      PROVE  RequestKept'
  BY <1>14, <1>0 DEF cancel_task, CallerMayCall
<1>15. ASSUME NEW i \in IsrTasks, NEW t \in 1 .. MaxTime, ScheduleFromISR(i, t)
      PROVE  RequestKept'
  BY <1>15, <1>0 DEF ScheduleFromISR, Requested, Due
<1>16. CASE UNCHANGED vars
  BY <1>16 DEF vars
<1>. QED  BY <1>1, <1>2, <1>3a, <1>3b, <1>3c, <1>4, <1>5, <1>6, <1>7, <1>8,
              <1>9, <1>10, <1>11, <1>12, <1>13, <1>14, <1>15, <1>16
           DEF Next, MainProgram, Calls

(* No request is forgotten: beside TimerNeverSleeps, what is left to the  *)
(* fairness of EventuallyRuns is that the timer ticks and the main loop   *)
(* goes on.                                                               *)
THEOREM RequestsAreKept == Spec => []RequestKept
<1>1. Init => RequestKept
  BY DEF Init, RequestKept
<1>. QED  BY <1>1, RequestKeptStep, FreshInvariant, SchedulerTypeCorrect, PTL DEF Spec

-----------------------------------------------------------------------------
(* The ring with calls that are not interrupted.                           *)

(* A wrapped index is an index of the buffer.                             *)
LEMMA WrapInSlots ==
  ASSUME NEW i \in Slots
  PROVE  Wrap(i + 1) \in Slots
  BY RingHasRoom DEF Wrap, Slots

(* The indices of the ring stay inside the buffer, whatever calls are     *)
(* made in whatever order.                                                *)
THEOREM QueueTypeCorrect == QueueSpec => []QueueTypeOK
<1>1. QueueInit => QueueTypeOK
  BY RingHasRoom DEF QueueInit, QueueTypeOK, Slots
<1>2. ASSUME QueueTypeOK, [QueueNext]_qvars
      PROVE  QueueTypeOK'
  <2> USE DEF QueueTypeOK
  <2>1. CASE queue_reinit
    BY <1>2, <2>1, RingHasRoom DEF queue_reinit, Slots
  <2>2. CASE queue_dequeue
    BY <1>2, <2>2, WrapInSlots DEF queue_dequeue
  <2>3. ASSUME NEW b \in Bytes, queue_enqueue(b)
        PROVE  QueueTypeOK'
    BY <1>2, <2>3, WrapInSlots DEF queue_enqueue
  <2>4. CASE UNCHANGED qvars
    BY <1>2, <2>4 DEF qvars
  <2>. QED  BY <1>2, <2>1, <2>2, <2>3, <2>4 DEF QueueNext
<1>. QED  BY <1>1, <1>2, PTL DEF QueueSpec

-----------------------------------------------------------------------------
(* One slot stays free, and the contents are a sequence of bytes.         *)
LEMMA ContentsProperties ==
  ASSUME NEW buf \in [Slots -> Bytes], NEW h \in Slots, NEW t \in Slots
  PROVE  /\ Count(h, t) \in 0 .. Max_Buff_Length - 1
         /\ \A i \in 1 .. Count(h, t) : SlotOf(h, i) \in Slots
         /\ Contents(buf, h, t) \in Seq(Bytes)
         /\ Len(Contents(buf, h, t)) = Count(h, t)
         /\ \A i \in 1 .. Count(h, t) : Contents(buf, h, t)[i] = buf[SlotOf(h, i)]
<1> USE RingHasRoom
<1>1. Count(h, t) \in 0 .. Max_Buff_Length - 1
  BY DEF Slots, Count
<1>2. \A i \in 1 .. Count(h, t) : SlotOf(h, i) \in Slots
  BY <1>1 DEF Slots, SlotOf
<1>3. \A i \in 1 .. Count(h, t) : buf[SlotOf(h, i)] \in Bytes
  BY <1>2
<1>4. Contents(buf, h, t) \in [1 .. Count(h, t) -> Bytes]
  BY <1>3 DEF Contents
<1>5. Contents(buf, h, t) \in Seq(Bytes) /\ Len(Contents(buf, h, t)) = Count(h, t)
  BY <1>1, <1>4
<1>. QED  BY <1>1, <1>2, <1>5 DEF Contents

(* queue_isEmpty and queue_isFull say what their names say.               *)
LEMMA EmptyAndFull ==
  ASSUME QueueTypeOK
  PROVE  /\ queue_isEmpty <=> Count(head, tail) = 0
         /\ queue_isFull <=> Count(head, tail) = Max_Buff_Length - 1
<1>1. queue_isEmpty <=> Count(head, tail) = 0
  BY RingHasRoom DEF QueueTypeOK, Slots, Count, queue_isEmpty
<1>2. queue_isFull <=> Count(head, tail) = Max_Buff_Length - 1
  BY RingHasRoom DEF QueueTypeOK, Slots, Count, queue_isFull
<1>. QED  BY <1>1, <1>2

(* Storing a byte behind the tail of a ring that is not full appends it.  *)
LEMMA StoreAppends ==
  ASSUME NEW buf \in [Slots -> Bytes], NEW h \in Slots, NEW t \in Slots,
         NEW b \in Bytes, Count(h, t) # Max_Buff_Length - 1
  PROVE  Contents([buf EXCEPT ![Wrap(t + 1)] = b], h, Wrap(t + 1))
           = Append(Contents(buf, h, t), b)
<1> DEFINE w    == Wrap(t + 1)
           buf2 == [buf EXCEPT ![w] = b]
           new  == Contents(buf2, h, w)
           old  == Contents(buf, h, t)
<1>1. w \in Slots /\ buf2 \in [Slots -> Bytes]
  BY WrapInSlots
<1>2. Count(h, t) \in 0 .. Max_Buff_Length - 2
  BY ContentsProperties, RingHasRoom
<1>3. Count(h, w) = Count(h, t) + 1
  BY <1>2, RingHasRoom DEF Slots, Count, Wrap
<1>4. SlotOf(h, Count(h, t) + 1) = w
  BY <1>2, RingHasRoom DEF Slots, Count, Wrap, SlotOf
<1>5. \A i \in 1 .. Count(h, t) : SlotOf(h, i) \in Slots /\ SlotOf(h, i) # w
  BY <1>2, RingHasRoom DEF Slots, Count, Wrap, SlotOf
<1>6. new \in Seq(Bytes) /\ Len(new) = Count(h, t) + 1
      /\ \A i \in 1 .. Count(h, t) + 1 : new[i] = buf2[SlotOf(h, i)]
  <2> HIDE DEF buf2, w
  <2>1. /\ Contents(buf2, h, w) \in Seq(Bytes)
        /\ Len(Contents(buf2, h, w)) = Count(h, w)
        /\ \A i \in 1 .. Count(h, w) : Contents(buf2, h, w)[i] = buf2[SlotOf(h, i)]
    BY <1>1, ContentsProperties
  <2>. QED  BY <1>3, <2>1
<1>7. old \in Seq(Bytes) /\ Len(old) = Count(h, t)
      /\ \A i \in 1 .. Count(h, t) : old[i] = buf[SlotOf(h, i)]
  BY ContentsProperties
<1> HIDE DEF new, old, w
<1>8. Append(old, b) \in Seq(Bytes) /\ Len(Append(old, b)) = Count(h, t) + 1
      /\ Append(old, b)[Count(h, t) + 1] = b
      /\ \A i \in 1 .. Count(h, t) : Append(old, b)[i] = old[i]
  BY <1>7, AppendProperties
<1>9. ASSUME NEW i \in 1 .. Count(h, t) + 1
      PROVE  new[i] = Append(old, b)[i]
  <2>1. CASE i = Count(h, t) + 1
    BY <1>1, <1>4, <1>6, <1>8, <2>1
  <2>2. CASE i \in 1 .. Count(h, t)
    BY <1>1, <1>5, <1>6, <1>7, <1>8, <2>2
  <2>3. i = Count(h, t) + 1 \/ i \in 1 .. Count(h, t)
    <3> HIDE DEF buf2
    <3>1. Count(h, t) \in Nat
      BY <1>2, RingHasRoom
    <3>. QED  BY <3>1
  <2>. QED  BY <2>1, <2>2, <2>3
<1>10. new = Append(old, b)
  BY <1>6, <1>8, <1>9, SeqEqual
<1>. QED  BY <1>10 DEF new, old, w

(* Moving the head of a ring that is not empty drops the oldest byte, the *)
(* one in the slot the head moves to.                                     *)
LEMMA MoveDrops ==
  ASSUME NEW buf \in [Slots -> Bytes], NEW h \in Slots, NEW t \in Slots,
         Count(h, t) # 0
  PROVE  /\ Contents(buf, h, t) # <<>>
         /\ Head(Contents(buf, h, t)) = buf[Wrap(h + 1)]
         /\ Contents(buf, Wrap(h + 1), t) = Tail(Contents(buf, h, t))
<1> DEFINE w   == Wrap(h + 1)
           new == Contents(buf, w, t)
           old == Contents(buf, h, t)
<1>1. w \in Slots
  BY WrapInSlots
<1>2. Count(h, t) \in 1 .. Max_Buff_Length - 1
  BY ContentsProperties, RingHasRoom
<1>3. Count(w, t) = Count(h, t) - 1
  BY <1>2, RingHasRoom DEF Slots, Count, Wrap
<1>4. SlotOf(h, 1) = w
  BY RingHasRoom DEF Slots, Wrap, SlotOf
<1>5. \A i \in 1 .. Count(h, t) - 1 : SlotOf(w, i) = SlotOf(h, i + 1)
  BY <1>2, RingHasRoom DEF Slots, Wrap, SlotOf
<1>6. new \in Seq(Bytes) /\ Len(new) = Count(h, t) - 1
      /\ \A i \in 1 .. Count(h, t) - 1 : new[i] = buf[SlotOf(w, i)]
  <2> HIDE DEF w
  <2>. QED  BY <1>1, <1>3, ContentsProperties
<1>7. old \in Seq(Bytes) /\ Len(old) = Count(h, t)
      /\ \A i \in 1 .. Count(h, t) : old[i] = buf[SlotOf(h, i)]
  BY ContentsProperties
<1> HIDE DEF new, old, w
<1>8. old # <<>>
  BY <1>2, <1>7, EmptySeq
<1>9. Head(old) = buf[w]
  BY <1>2, <1>4, <1>7, <1>8
<1>10. Tail(old) \in Seq(Bytes) /\ Len(Tail(old)) = Count(h, t) - 1
       /\ \A i \in 1 .. Count(h, t) - 1 : Tail(old)[i] = old[i + 1]
  BY <1>7, <1>8, HeadTailProperties
<1>11. \A i \in 1 .. Count(h, t) - 1 : new[i] = Tail(old)[i]
  BY <1>2, <1>5, <1>6, <1>7, <1>10
<1>12. new = Tail(old)
  BY <1>6, <1>10, <1>11, SeqEqual
<1>. QED  BY <1>8, <1>9, <1>12 DEF new, old, w

-----------------------------------------------------------------------------
(* The ring is a FIFO: every call of Queue.c does to the contents of the  *)
(* ring what the call of Fifo does, and returns what it returns.          *)
THEOREM QueueIsFifo == QueueSpec => ImplementsFifo
<1> DEFINE contents == Contents(buffer, head, tail)
<1>1. QueueInit => F!Init
  BY RingHasRoom DEF QueueInit, F!Init, Contents, Count, F!Ok
<1>2. ASSUME QueueTypeOK, [QueueNext]_qvars
      PROVE  [F!Next]_<<contents, call, ret, out>>
  <2> USE <1>2 DEF QueueTypeOK
  <2>1. contents \in Seq(Bytes) /\ Len(contents) = Count(head, tail)
    BY ContentsProperties
  <2>2. CASE queue_reinit
    <3>1. contents' = <<>>
      BY <2>2, RingHasRoom DEF queue_reinit, Contents, Count
    <3>. QED  BY <2>2, <3>1 DEF queue_reinit, F!Next, F!Clear, F!Ok
  <2>3. CASE queue_dequeue
    <3>1. CASE queue_isEmpty
      <4>1. contents = <<>>
        BY <2>1, <3>1, EmptyAndFull
      <4>2. contents' = contents /\ call' = "dequeue" /\ ret' = -1 /\ out' = out
        BY <2>3, <3>1 DEF queue_dequeue
      <4>. QED  BY <4>1, <4>2 DEF F!Next, F!Get, F!Failed
    <3>2. CASE ~queue_isEmpty
      <4>1. head' = Wrap(head + 1) /\ out' = buffer[Wrap(head + 1)]
            /\ call' = "dequeue" /\ ret' = 1 /\ buffer' = buffer /\ tail' = tail
        BY <2>3, <3>2 DEF queue_dequeue
      <4>2. Count(head, tail) # 0
        BY <3>2, EmptyAndFull
      <4>3. contents # <<>> /\ contents' = Tail(contents) /\ out' = Head(contents)
        BY <4>1, <4>2, MoveDrops
      <4>. QED  BY <4>1, <4>3 DEF F!Next, F!Get, F!Ok
    <3>. QED  BY <3>1, <3>2
  <2>4. ASSUME NEW b \in Bytes, queue_enqueue(b)
        PROVE  F!Put(b)
    <3>1. CASE queue_isFull
      <4>1. Len(contents) = Max_Buff_Length - 1
        BY <2>1, <3>1, EmptyAndFull
      <4>2. contents' = contents /\ call' = "enqueue" /\ ret' = -1 /\ out' = out
        BY <2>4, <3>1 DEF queue_enqueue
      <4>. QED  BY <4>1, <4>2 DEF F!Put, F!Failed
    <3>2. CASE ~queue_isFull
      <4>1. tail' = Wrap(tail + 1) /\ buffer' = [buffer EXCEPT ![Wrap(tail + 1)] = b]
            /\ call' = "enqueue" /\ ret' = 1 /\ head' = head /\ out' = out
        BY <2>4, <3>2 DEF queue_enqueue
      <4>2. Count(head, tail) # Max_Buff_Length - 1
        BY <3>2, EmptyAndFull
      <4>3. contents' = Append(contents, b)
        BY <4>1, <4>2, StoreAppends
      <4>4. Len(contents) < Max_Buff_Length - 1
        BY <2>1, <4>2, ContentsProperties, RingHasRoom
      <4>. QED  BY <4>1, <4>3, <4>4 DEF F!Put, F!Ok
    <3>. QED  BY <3>1, <3>2
  <2>5. CASE UNCHANGED qvars
    BY <2>5 DEF qvars
  <2>. QED  BY <2>2, <2>3, <2>4, <2>5 DEF QueueNext, F!Next
<1>. QED  BY <1>1, <1>2, QueueTypeCorrect, PTL DEF QueueSpec, ImplementsFifo, F!Spec
=============================================================================
