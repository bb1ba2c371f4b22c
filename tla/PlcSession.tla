----------------------------- MODULE PlcSession -----------------------------
(***************************************************************************)
(* The session of the SM502 with its power line modem: InitPLC2 brings the *)
(* modem up request by request and attaches to the network, keep-alive     *)
(* enquiries watch over the attachment, and three of them that stay        *)
(* unanswered start the initialisation again.                              *)
(*                                                                         *)
(* Every handler is called from the main loop and is one step.  The timers *)
(* are tasks of the scheduler: the time they run for is left out, so that  *)
(* they may expire in any order.  The seconds that InitPLC2 waits are      *)
(* ticks of the clock's interrupt.                                         *)
(*                                                                         *)
(* The replies to configuration, alarm, shutdown, information and data     *)
(* requests all do the same, they set statusRecived: one kind of request,  *)
(* "status", stands for them.                                              *)
(***************************************************************************)
EXTENDS Naturals, FiniteSets

CONSTANTS
  PLC_INIT_MAX_RETRAY,   \* how often a request of the initialisation is sent
  plc_wait_time,         \* seconds to wait for a reply
  AttachWaits,           \* 1002: expiries of AttachTimedOut that only wait again
  MaxAsked               \* bound: unanswered requests of a kind in the modem

ASSUME SessionAssumption ==
  /\ PLC_INIT_MAX_RETRAY \in Nat \ {0}
  /\ plc_wait_time \in Nat
  /\ AttachWaits \in Nat
  /\ MaxAsked \in Nat \ {0}

Kinds    == {"status", "attach", "mac_pib"}
Requests == {1, 2, 3, 4, 6, 7, 8}     \* the steps of InitPLC2 that wait for a reply
Attach   == 9
Finished == 10
MacTimeouts == 3                      \* temp_counter == 3

Replies ==
  {<<"status", "done">>} \union ({"attach"} \X {"accepted", "refused"})
    \union ({"mac_pib"} \X {"disconnected", "connected", "cl_closed", "other"})
NoReply == <<"none", "none">>

VARIABLES
  plc_state,               \* "IDEAL" or "INITIALIZING"
  PLC_INIT_STATE,
  messageSent,
  count,
  plc_counter,             \* seconds, as far as they are told apart
  statusRecived,
  plc_connection_status,   \* "none", "SENDING_ATTACH_REQUEST" or "ATTACHED"
  jump_cancel_getMACPIB,
  temp_counter,            \* keep-alive enquiries that were not answered
  attachTimeOutCounter,    \* as far as it is told apart
  tasks,                   \* the tasks that are scheduled
  inbox,                   \* the frame PLCCommunicationDetected tells of
  asked,                   \* requests the modem has not answered (external)
  modem,                   \* "up" or "down" (external)
  unattended               \* history: the last attach request set no timer

init    == <<plc_state, PLC_INIT_STATE, messageSent, count, plc_counter>>
watch   == <<jump_cancel_getMACPIB, temp_counter>>
sessionVars == <<init, statusRecived, plc_connection_status, watch, attachTimeOutCounter,
                 tasks, inbox, asked, modem, unattended>>

-----------------------------------------------------------------------------
(* The requests.                                                           *)

Asking(kind) ==
  [asked EXCEPT ![kind] = IF modem = "up" /\ @ < MaxAsked THEN @ + 1 ELSE @]

(* SendMessage takes communication for a sign of life of the modem, until  *)
(* the first enquiry has set jump_cancel_getMACPIB for good.               *)
AfterSending(scheduled, jump) ==
  IF "KeepAlive" \in scheduled /\ ~jump
  THEN scheduled \ {"Get_Mac_PIB_TimedOut"}
  ELSE scheduled

SendMessage(kind, scheduled) ==
  /\ asked' = Asking(kind)
  /\ tasks' = AfterSending(scheduled, jump_cancel_getMACPIB)

(* supervised: does the caller schedule AttachTimedOut?                    *)
Attach_Request(scheduled, supervised) ==
  /\ plc_connection_status' = "SENDING_ATTACH_REQUEST"
  /\ asked' = Asking("attach")
  /\ tasks' = AfterSending(scheduled, jump_cancel_getMACPIB)
                \union (IF supervised THEN {"AttachTimedOut"} ELSE {})
  /\ unattended' = ~supervised

-----------------------------------------------------------------------------
(* InitPLC2, called with PLC_INIT_STATE = step and these tasks scheduled.  *)

(* Faulty variant: only the first request marks the initialisation.        *)
SendRequestUnmarked(step, scheduled) ==
  /\ step \in Requests /\ ~messageSent
  /\ plc_state' = IF step = 1 THEN "INITIALIZING" ELSE plc_state
  /\ statusRecived' = FALSE
  /\ SendMessage("status", scheduled)
  /\ messageSent' = TRUE
  /\ plc_counter' = 0
  /\ PLC_INIT_STATE' = step
  /\ UNCHANGED <<count, plc_connection_status, attachTimeOutCounter, unattended>>

SendRequest(step, scheduled) ==
  /\ step \in Requests /\ ~messageSent
  /\ plc_state' = IF step \in {1, 4} THEN "INITIALIZING" ELSE plc_state
  /\ statusRecived' = FALSE
  /\ SendMessage("status", scheduled)
  /\ messageSent' = TRUE
  /\ plc_counter' = 0
  /\ PLC_INIT_STATE' = step
  /\ UNCHANGED <<count, plc_connection_status, attachTimeOutCounter, unattended>>

TimedOut == plc_counter > plc_wait_time

(* Faulty variant: one try too many.                                       *)
GivesUpLate == count >= PLC_INIT_MAX_RETRAY

GivesUp == count + 1 >= PLC_INIT_MAX_RETRAY

(* The time out comes before the reply.                                    *)
RequestTimesOut(step, scheduled) ==
  /\ step \in Requests /\ messageSent /\ TimedOut
  /\ messageSent' = FALSE
  /\ count' = IF GivesUp THEN 0 ELSE count + 1
  /\ PLC_INIT_STATE' = IF GivesUp THEN step + 1 ELSE step
  /\ plc_counter' = IF GivesUp /\ step = 8 THEN 0 ELSE plc_counter
  /\ statusRecived' = IF GivesUp /\ step = 8 THEN FALSE ELSE statusRecived
  /\ tasks' = scheduled
  /\ UNCHANGED <<plc_state, plc_connection_status, attachTimeOutCounter, asked, unattended>>

RequestIsAnswered(step, scheduled) ==
  /\ step \in Requests /\ messageSent /\ ~TimedOut /\ statusRecived
  /\ count' = 0
  /\ messageSent' = FALSE
  /\ plc_counter' = IF step = 8 THEN 0 ELSE plc_counter
  /\ statusRecived' = (step # 8)
  /\ PLC_INIT_STATE' = step + 1
  /\ tasks' = scheduled
  /\ UNCHANGED <<plc_state, plc_connection_status, attachTimeOutCounter, asked, unattended>>

StillWaiting(step, scheduled) ==
  /\ step \in Requests /\ messageSent /\ ~TimedOut /\ ~statusRecived
  /\ PLC_INIT_STATE' = step
  /\ tasks' = scheduled
  /\ UNCHANGED <<plc_state, messageSent, count, plc_counter, statusRecived,
                 plc_connection_status, attachTimeOutCounter, asked, unattended>>

(* After the reset the seconds since the last request are waited for.      *)
WaitForReset(step, scheduled) ==
  /\ step = 5
  /\ statusRecived' = FALSE
  /\ count' = IF TimedOut THEN 0 ELSE count
  /\ PLC_INIT_STATE' = IF TimedOut THEN 6 ELSE 5
  /\ tasks' = scheduled
  /\ UNCHANGED <<plc_state, messageSent, plc_counter, plc_connection_status,
                 attachTimeOutCounter, asked, unattended>>

FirstAttach(step, scheduled) ==
  /\ step = Attach
  /\ Attach_Request(scheduled, TRUE)
  /\ statusRecived' = FALSE
  /\ PLC_INIT_STATE' = Finished
  /\ UNCHANGED <<plc_state, messageSent, count, plc_counter, attachTimeOutCounter>>

FinishInit(step, scheduled) ==
  /\ step = Finished
  /\ plc_state' = "IDEAL"
  /\ tasks' = scheduled
  /\ UNCHANGED <<PLC_INIT_STATE, messageSent, count, plc_counter, statusRecived,
                 plc_connection_status, attachTimeOutCounter, asked, unattended>>

InitPLC2(step, scheduled) ==
  \/ SendRequest(step, scheduled)
  \/ RequestTimesOut(step, scheduled)
  \/ RequestIsAnswered(step, scheduled)
  \/ StillWaiting(step, scheduled)
  \/ WaitForReset(step, scheduled)
  \/ FirstAttach(step, scheduled)
  \/ FinishInit(step, scheduled)

(* The main loop goes on with an initialisation that is under way.         *)
Initialize ==
  /\ plc_state = "INITIALIZING"
  /\ InitPLC2(PLC_INIT_STATE, tasks)
  /\ UNCHANGED <<watch, inbox, modem>>

(* The clock's interrupt.                                                  *)
Tick ==
  /\ plc_state = "INITIALIZING"
  /\ plc_counter <= plc_wait_time
  /\ plc_counter' = plc_counter + 1
  /\ UNCHANGED <<plc_state, PLC_INIT_STATE, messageSent, count, statusRecived,
                 plc_connection_status, watch, attachTimeOutCounter, tasks, inbox,
                 asked, modem, unattended>>

-----------------------------------------------------------------------------
(* ProcessRecivedPLCMessage: the frame is taken out after it has been      *)
(* processed.                                                              *)

Received(reply) ==
  /\ inbox = reply
  /\ inbox' = NoReply

StatusReply ==
  /\ Received(<<"status", "done">>)
  /\ statusRecived' = TRUE
  /\ UNCHANGED <<init, plc_connection_status, watch, attachTimeOutCounter, tasks,
                 asked, modem, unattended>>

(* Attach_Confirm schedules no timer for the request it repeats.           *)
AttachRefused ==
  /\ Received(<<"attach", "refused">>)
  /\ statusRecived' = TRUE
  /\ Attach_Request(tasks \ {"AttachTimedOut"}, FALSE)
  /\ UNCHANGED <<init, watch, attachTimeOutCounter, modem>>

AttachAccepted ==
  /\ Received(<<"attach", "accepted">>)
  /\ statusRecived' = TRUE
  /\ plc_connection_status' = "ATTACHED"
  /\ tasks' = {"KeepAlive"}
  /\ UNCHANGED <<init, watch, attachTimeOutCounter, asked, modem, unattended>>

(* GET_MAC_PIB_rep.                                                        *)
NodeDisconnected ==
  /\ Received(<<"mac_pib", "disconnected">>)
  /\ InitPLC2(4, tasks \ {"Get_Mac_PIB_TimedOut"})
  /\ UNCHANGED <<watch, modem>>

ConvergenceLayerClosed ==
  /\ Received(<<"mac_pib", "cl_closed">>)
  /\ Attach_Request(tasks \ {"Get_Mac_PIB_TimedOut"}, TRUE)
  /\ UNCHANGED <<init, statusRecived, watch, attachTimeOutCounter, modem>>

StillConnected ==
  /\ Received(<<"mac_pib", "connected">>)
  /\ tasks' = (tasks \ {"Get_Mac_PIB_TimedOut"}) \union {"KeepAlive"}
  /\ UNCHANGED <<init, statusRecived, plc_connection_status, watch, attachTimeOutCounter,
                 asked, modem, unattended>>

UnknownState ==
  /\ Received(<<"mac_pib", "other">>)
  /\ UNCHANGED <<init, statusRecived, plc_connection_status, watch, attachTimeOutCounter,
                 tasks, asked, modem, unattended>>

ProcessRecivedPLCMessage ==
  \/ StatusReply
  \/ AttachRefused \/ AttachAccepted
  \/ NodeDisconnected \/ ConvergenceLayerClosed \/ StillConnected \/ UnknownState

-----------------------------------------------------------------------------
(* The tasks, executed by the main loop; a task that is executed is no     *)
(* longer scheduled.                                                       *)

Expires(task) == task \in tasks

(* Faulty variant: an enquiry forgets those that were not answered.        *)
KeepAliveForgets ==
  /\ Expires("KeepAlive")
  /\ plc_connection_status # "SENDING_ATTACH_REQUEST"
  /\ jump_cancel_getMACPIB' = TRUE
  /\ asked' = Asking("mac_pib")
  /\ tasks' = (tasks \ {"KeepAlive"}) \union {"Get_Mac_PIB_TimedOut"}
  /\ temp_counter' = 0
  /\ UNCHANGED <<init, statusRecived, plc_connection_status, attachTimeOutCounter, inbox,
                 modem, unattended>>

KeepAlive ==
  /\ Expires("KeepAlive")
  /\ \/ /\ plc_connection_status # "SENDING_ATTACH_REQUEST"
        /\ jump_cancel_getMACPIB' = TRUE
        /\ asked' = Asking("mac_pib")
        /\ tasks' = (tasks \ {"KeepAlive"}) \union {"Get_Mac_PIB_TimedOut"}
     \/ /\ plc_connection_status = "SENDING_ATTACH_REQUEST"
        /\ tasks' = tasks \ {"KeepAlive"}
        /\ UNCHANGED <<jump_cancel_getMACPIB, asked>>
  /\ UNCHANGED <<init, statusRecived, plc_connection_status, temp_counter,
                 attachTimeOutCounter, inbox, modem, unattended>>

(* The third time-out starts again from the first request.                 *)
Get_Mac_PIB_TimedOut ==
  /\ Expires("Get_Mac_PIB_TimedOut")
  /\ \/ /\ temp_counter + 1 = MacTimeouts
        /\ temp_counter' = 0
        /\ InitPLC2(1, tasks \ {"Get_Mac_PIB_TimedOut", "KeepAlive"})
     \/ /\ temp_counter + 1 # MacTimeouts
        /\ temp_counter' = temp_counter + 1
        /\ tasks' = (tasks \ {"Get_Mac_PIB_TimedOut"}) \union {"KeepAlive"}
        /\ UNCHANGED <<init, statusRecived, plc_connection_status, attachTimeOutCounter,
                       asked, unattended>>
  /\ UNCHANGED <<jump_cancel_getMACPIB, inbox, modem>>

AttachTimedOut ==
  /\ Expires("AttachTimedOut")
  /\ \/ /\ attachTimeOutCounter >= AttachWaits
        /\ attachTimeOutCounter' = attachTimeOutCounter
        /\ Attach_Request(tasks \ {"AttachTimedOut"}, FALSE)
     \/ /\ attachTimeOutCounter < AttachWaits
        /\ attachTimeOutCounter' = attachTimeOutCounter + 1
        /\ UNCHANGED <<tasks, plc_connection_status, asked, unattended>>
  /\ UNCHANGED <<init, statusRecived, watch, inbox, modem>>

(* The server sends an answer to a client.                                 *)
DataTransferRequest ==
  /\ SendMessage("status", tasks)
  /\ UNCHANGED <<init, statusRecived, plc_connection_status, watch, attachTimeOutCounter,
                 inbox, modem, unattended>>

-----------------------------------------------------------------------------
(* The modem answers, late or never; it may fail for good or for a while.  *)

Answered(kind) ==
  /\ modem = "up" /\ asked[kind] > 0
  /\ asked' = [asked EXCEPT ![kind] = @ - 1]
  /\ UNCHANGED <<init, statusRecived, plc_connection_status, watch, attachTimeOutCounter,
                 tasks, modem, unattended>>

ModemReplies ==
  /\ inbox = NoReply
  /\ \E reply \in Replies : inbox' = reply /\ Answered(reply[1])

ReplyLost == \E kind \in Kinds : Answered(kind) /\ UNCHANGED inbox

ModemFails ==
  /\ modem = "up" /\ modem' = "down"
  /\ asked' = [kind \in Kinds |-> 0]
  /\ UNCHANGED <<init, statusRecived, plc_connection_status, watch, attachTimeOutCounter,
                 tasks, inbox, unattended>>

ModemRecovers ==
  /\ modem = "down" /\ modem' = "up"
  /\ UNCHANGED <<init, statusRecived, plc_connection_status, watch, attachTimeOutCounter,
                 tasks, inbox, asked, unattended>>

-----------------------------------------------------------------------------
(* InitPLC has called InitPLC2 once.                                       *)
SessionInit ==
  /\ plc_state = "INITIALIZING"
  /\ PLC_INIT_STATE = 1
  /\ messageSent = TRUE
  /\ count = 0
  /\ plc_counter = 0
  /\ statusRecived = FALSE
  /\ plc_connection_status = "none"
  /\ jump_cancel_getMACPIB = FALSE
  /\ temp_counter = 0
  /\ attachTimeOutCounter = 0
  /\ tasks = {}
  /\ inbox = NoReply
  /\ modem \in {"up", "down"}
  /\ asked = [kind \in Kinds |-> IF kind = "status" /\ modem = "up" THEN 1 ELSE 0]
  /\ unattended = FALSE

Program ==
  \/ Initialize \/ ProcessRecivedPLCMessage
  \/ KeepAlive \/ Get_Mac_PIB_TimedOut \/ AttachTimedOut
  \/ DataTransferRequest

Modem == ModemReplies \/ ReplyLost \/ ModemFails \/ ModemRecovers

SessionNext == Program \/ Tick \/ Modem

(* The main loop calls InitPLC2, looks at the frame and executes the tasks *)
(* that are due in every round; the clock ticks.  The modem owes nothing.  *)
Fairness ==
  /\ WF_sessionVars(Initialize) /\ WF_sessionVars(Tick)
  /\ WF_sessionVars(ProcessRecivedPLCMessage)
  /\ WF_sessionVars(KeepAlive) /\ WF_sessionVars(Get_Mac_PIB_TimedOut)
  /\ WF_sessionVars(AttachTimedOut)

SessionSpec == SessionInit /\ [][SessionNext]_sessionVars /\ Fairness

-----------------------------------------------------------------------------
SessionTypeOK ==
  /\ plc_state \in {"IDEAL", "INITIALIZING"}
  /\ PLC_INIT_STATE \in 1 .. Finished
  /\ messageSent \in BOOLEAN
  /\ count \in 0 .. PLC_INIT_MAX_RETRAY - 1
  /\ plc_counter \in 0 .. plc_wait_time + 1
  /\ statusRecived \in BOOLEAN
  /\ plc_connection_status \in {"none", "SENDING_ATTACH_REQUEST", "ATTACHED"}
  /\ jump_cancel_getMACPIB \in BOOLEAN
  /\ temp_counter \in 0 .. MacTimeouts - 1
  /\ attachTimeOutCounter \in 0 .. AttachWaits
  /\ tasks \subseteq {"KeepAlive", "Get_Mac_PIB_TimedOut", "AttachTimedOut"}
  /\ inbox \in Replies \union {NoReply}
  /\ asked \in [Kinds -> 0 .. MaxAsked]
  /\ modem \in {"up", "down"}
  /\ unattended \in BOOLEAN

(* An attachment is always watched over: a meter that has finished its     *)
(* initialisation and is attached has a keep-alive enquiry scheduled or    *)
(* waits for the answer to one, never both, whatever replies came late or  *)
(* twice; and a session is idle only if its initialisation has run to the  *)
(* end, so that a step that is jumped back to is carried on.  A meter that *)
(* waits to be attached has the timer of 30 minutes running, and only such *)
(* a meter, but for a request that Attach_Confirm or the expired timer has *)
(* repeated.                                                               *)
AttachmentWatched ==
  /\ plc_state = "IDEAL" => PLC_INIT_STATE = Finished /\ ~messageSent
  /\ plc_state = "IDEAL" /\ plc_connection_status = "ATTACHED"
       => tasks \cap {"KeepAlive", "Get_Mac_PIB_TimedOut"} # {}
  /\ ~({"KeepAlive", "Get_Mac_PIB_TimedOut"} \subseteq tasks)
  /\ ("AttachTimedOut" \in tasks)
       <=> (plc_connection_status = "SENDING_ATTACH_REQUEST" /\ ~unattended)

(* A modem that falls silent is noticed: in the end the meter no longer    *)
(* takes itself for attached, and it does not initialise for ever.         *)
SilenceNoticed ==
  <>[](modem = "down")
    => <>[](plc_state = "IDEAL" /\ plc_connection_status = "SENDING_ATTACH_REQUEST")
=============================================================================
