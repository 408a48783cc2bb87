---------------------------- MODULE GuiLifecycle ----------------------------
(***************************************************************************)
(* gui/src/gui_main.c and gui/src/gui_events.c with the GUI enabled: one   *)
(* controlling task calls gui_init, gui_start, gui_stop and gui_deinit,    *)
(* the GUI task consumes the event queue, and clients call gui_event_send. *)
(* Time passes in ticks: xQueueReceive waits LoopTicks, each poll of       *)
(* gui_stop waits PollTicks.  A task, a queue and a mutex are FreeRTOS     *)
(* objects; a handle is the number of the object, 0 for NULL.              *)
(***************************************************************************)
EXTENDS Naturals

CONSTANTS Client,         \* tasks that send events
          Capacity,       \* length of the event queue
          StopPolls,      \* iterations of the loop in gui_stop
          LoopTicks,      \* GUI_LOOP_TIMEOUT
          PollTicks,      \* the delay of one of those iterations
          MaxTasks,       \* bound of the model on the GUI tasks ever created
          MaxQueues,      \* bound of the model on the queues ever created
          MaxSent         \* bound of the model on the events accepted by a queue

ASSUME GuiConstants ==
  /\ Capacity \in Nat \ {0} /\ StopPolls \in Nat \ {0}
  /\ LoopTicks \in Nat \ {0} /\ PollTicks \in Nat \ {0}
  /\ MaxTasks \in Nat /\ MaxQueues \in Nat /\ MaxSent \in Nat

\* 20 polls of 10 ms, a receive timeout of 20 ms.
ASSUME PollsOutlastReceive == StopPolls * PollTicks >= LoopTicks

VARIABLES
  outranked,                \* the caller of the lifecycle runs below GUI_TASK_PRIORITY
  quiescent,                \* it calls gui_deinit with no client inside gui_event_send
  initialized, running,     \* s_gui_initialized, s_gui_running
  gui_task,                 \* s_gui_task
  event_queue, mutex,       \* s_event_queue; s_gui_mutex (is it there)
  task,                     \* task[t]: where GUI task t is
  wait,                     \* ticks left of its xQueueReceive
  tasks, queues,            \* how many of each were created so far
  alive,                    \* the queue that is not deleted, or 0
  ctl, polls, delay,        \* where the controller is; i and ticks left in gui_stop
  stopping,                 \* the API call gui_stop was reached from
  client,                   \* client[c]: where client c is
  sent, got,                \* how many events the queue accepted and gave out
  fault                     \* a deleted or NULL queue was used

\* What the code leaves to its callers does not change in a behaviour.
callers == <<outranked, quiescent>>
lifecycle == <<initialized, running, gui_task, event_queue, mutex>>
objects == <<tasks, queues, alive>>
controller == <<ctl, polls, delay, stopping>>
events == <<sent, got>>
vars == <<callers, lifecycle, task, wait, objects, controller, client, events, fault>>

Task == 1 .. MaxTasks
Runnable == {"loop", "receive", "clear", "leave"}
Live == {t \in Task : task[t] \notin {"none", "dead"}}
Queued == sent - got

Init ==
  /\ outranked \in BOOLEAN /\ quiescent \in BOOLEAN
  /\ initialized = FALSE /\ running = FALSE /\ gui_task = 0 /\ event_queue = 0 /\ mutex = FALSE
  /\ task = [t \in Task |-> "none"] /\ wait = 0
  /\ tasks = 0 /\ queues = 0 /\ alive = 0
  /\ ctl = "idle" /\ polls = 0 /\ delay = 0 /\ stopping = "none"
  /\ client = [c \in Client |-> "idle"]
  /\ sent = 0 /\ got = 0
  /\ fault = FALSE

\* On a single core the controller runs only while no GUI task is ready.
Ready(t) == task[t] \in Runnable \/ (task[t] = "blocked" /\ (wait = 0 \/ Queued > 0))
Scheduled == outranked => \A t \in Task : ~Ready(t)

----------------------------------------------------------------------------
\* gui_init, as far as gui_start

MutantKeepsMutex ==
  /\ ctl = "idle" /\ Scheduled /\ ~initialized
  /\ mutex' = TRUE
  /\ UNCHANGED <<initialized, running, gui_task, event_queue, task, wait, objects, controller,
                 client, events, fault>>
\* The mutex, or after it the queue, cannot be created; the mutex goes again.
InitFails ==
  /\ ctl = "idle" /\ Scheduled /\ ~initialized
  /\ mutex' = FALSE
  /\ UNCHANGED <<initialized, running, gui_task, event_queue, task, wait, objects, controller,
                 client, events, fault>>

InitResources ==
  /\ ctl = "idle" /\ Scheduled /\ ~initialized
  /\ queues < MaxQueues /\ tasks < MaxTasks
  /\ queues' = queues + 1
  /\ event_queue' = queues + 1 /\ alive' = queues + 1
  /\ sent' = 0 /\ got' = 0
  /\ mutex' = TRUE /\ initialized' = TRUE
  /\ ctl' = "start"
  /\ UNCHANGED <<running, gui_task, task, wait, tasks, polls, delay, stopping, client, fault>>

\* gui_start, called by gui_init or by itself.
StartCall ==
  /\ ctl = "idle" /\ Scheduled /\ initialized /\ (running \/ tasks < MaxTasks)
  /\ ctl' = "start"
  /\ UNCHANGED <<lifecycle, task, wait, objects, polls, delay, stopping, client, events, fault>>

StartAgain ==
  /\ ctl = "start" /\ Scheduled /\ running
  /\ ctl' = "idle"
  /\ UNCHANGED <<lifecycle, task, wait, objects, polls, delay, stopping, client, events, fault>>

MutantStartUnchecked ==
  /\ ctl = "start" /\ Scheduled /\ tasks < MaxTasks
  /\ running' = TRUE
  /\ ctl' = "create"
  /\ UNCHANGED <<initialized, gui_task, event_queue, mutex, task, wait, objects, polls, delay,
                 stopping, client, events, fault>>
StartFlag ==
  /\ ctl = "start" /\ Scheduled /\ ~running
  /\ running' = TRUE
  /\ ctl' = "create"
  /\ UNCHANGED <<initialized, gui_task, event_queue, mutex, task, wait, objects, polls, delay,
                 stopping, client, events, fault>>

\* xTaskCreate stores the handle before the task can run.
CreateOk ==
  /\ ctl = "create" /\ Scheduled
  /\ tasks' = tasks + 1
  /\ task' = [task EXCEPT ![tasks + 1] = "loop"]
  /\ gui_task' = tasks + 1
  /\ ctl' = "idle"
  /\ UNCHANGED <<initialized, running, event_queue, mutex, wait, queues, alive, polls, delay,
                 stopping, client, events, fault>>

MutantFlagStays ==
  /\ ctl = "create" /\ Scheduled
  /\ ctl' = "idle"
  /\ UNCHANGED <<lifecycle, task, wait, objects, polls, delay, stopping, client, events, fault>>
CreateFails ==
  /\ ctl = "create" /\ Scheduled
  /\ running' = FALSE /\ gui_task' = 0
  /\ ctl' = "idle"
  /\ UNCHANGED <<initialized, event_queue, mutex, task, wait, objects, polls, delay, stopping,
                 client, events, fault>>

----------------------------------------------------------------------------
\* gui_stop, by itself or for gui_deinit

Stopping == {"poll", "kill", "clear", "delete", "forget"}
Deiniting == stopping = "deinit" /\ ctl \in Stopping
MayDeinit == quiescent => \A c \in Client : client[c] = "idle"

StopCall(from) ==
  /\ ctl = "idle" /\ Scheduled
  /\ from = "deinit" => initialized /\ MayDeinit
  /\ stopping' = from
  /\ running' = FALSE /\ polls' = 0 /\ delay' = 0
  /\ ctl' = IF running THEN "poll" ELSE IF from = "deinit" THEN "delete" ELSE "idle"
  /\ UNCHANGED <<initialized, gui_task, event_queue, mutex, task, wait, objects, client, events,
                 fault>>

StopReturn == IF stopping = "deinit" THEN "delete" ELSE "idle"

MutantOnePoll == polls = 1
PollsExhausted == polls = StopPolls

StopPoll ==
  /\ ctl = "poll" /\ Scheduled /\ delay = 0
  /\ IF gui_task = 0 \/ PollsExhausted
     THEN /\ ctl' = IF gui_task = 0 THEN StopReturn ELSE "kill"
          /\ UNCHANGED <<polls, delay>>
     ELSE /\ polls' = polls + 1 /\ delay' = PollTicks
          /\ UNCHANGED ctl
  /\ UNCHANGED <<lifecycle, task, wait, objects, stopping, client, events, fault>>

\* vTaskDelete(s_gui_task): the GUI task may have cleared the handle since it
\* was compared with NULL, and vTaskDelete(NULL) deletes the caller.
StopKill ==
  /\ ctl = "kill" /\ Scheduled
  /\ IF gui_task = 0
     THEN ctl' = "dead" /\ UNCHANGED task
     ELSE ctl' = "clear" /\ task' = [task EXCEPT ![gui_task] = "dead"]
  /\ UNCHANGED <<lifecycle, wait, objects, polls, delay, stopping, client, events, fault>>

StopClear ==
  /\ ctl = "clear" /\ Scheduled
  /\ gui_task' = 0
  /\ ctl' = StopReturn
  /\ UNCHANGED <<initialized, running, event_queue, mutex, task, wait, objects, polls, delay,
                 stopping, client, events, fault>>

\* gui_deinit after gui_stop: gui_events_deinit in its two steps, then the mutex.
DeinitDelete ==
  /\ ctl = "delete" /\ Scheduled
  /\ alive' = 0
  /\ ctl' = "forget"
  /\ UNCHANGED <<lifecycle, task, wait, tasks, queues, polls, delay, stopping, client, events,
                 fault>>

MutantKeepsHandle ==
  /\ ctl = "forget" /\ Scheduled
  /\ mutex' = FALSE /\ initialized' = FALSE
  /\ ctl' = "idle"
  /\ UNCHANGED <<running, gui_task, event_queue, task, wait, objects, polls, delay, stopping,
                 client, events, fault>>
DeinitForget ==
  /\ ctl = "forget" /\ Scheduled
  /\ event_queue' = 0
  /\ mutex' = FALSE /\ initialized' = FALSE
  /\ ctl' = "idle"
  /\ UNCHANGED <<running, gui_task, task, wait, objects, polls, delay, stopping, client, events,
                 fault>>
----------------------------------------------------------------------------
\* gui_task

LoopTest(t) ==
  /\ task[t] = "loop"
  /\ task' = [task EXCEPT ![t] = IF running THEN "receive" ELSE "clear"]
  /\ UNCHANGED <<lifecycle, wait, objects, controller, client, events, fault>>

\* gui_event_receive: an event is there, or the task blocks for one.
Receive(t) ==
  /\ task[t] \in {"receive", "blocked"} /\ event_queue # 0 /\ Queued > 0
  /\ got' = got + 1
  /\ task' = [task EXCEPT ![t] = "loop"]
  /\ wait' = 0
  /\ fault' = (fault \/ event_queue # alive)
  /\ UNCHANGED <<lifecycle, objects, controller, client, sent>>

Block(t) ==
  /\ task[t] = "receive" /\ event_queue # 0 /\ Queued = 0
  /\ task' = [task EXCEPT ![t] = "blocked"]
  /\ wait' = LoopTicks
  /\ fault' = (fault \/ event_queue # alive)
  /\ UNCHANGED <<lifecycle, objects, controller, client, events>>

MutantTimeoutEndsLoop(t) ==
  /\ task[t] = "blocked" /\ wait = 0
  /\ task' = [task EXCEPT ![t] = "clear"]
  /\ UNCHANGED <<lifecycle, wait, objects, controller, client, events, fault>>
TimesOut(t) ==
  /\ task[t] = "blocked" /\ wait = 0
  /\ task' = [task EXCEPT ![t] = "loop"]
  /\ UNCHANGED <<lifecycle, wait, objects, controller, client, events, fault>>

ClearHandle(t) ==
  /\ task[t] = "clear"
  /\ gui_task' = 0
  /\ task' = [task EXCEPT ![t] = "leave"]
  /\ UNCHANGED <<initialized, running, event_queue, mutex, wait, objects, controller, client,
                 events, fault>>

DeleteSelf(t) ==
  /\ task[t] = "leave"
  /\ task' = [task EXCEPT ![t] = "dead"]
  /\ UNCHANGED <<lifecycle, wait, objects, controller, client, events, fault>>

GuiTask(t) ==
  LoopTest(t) \/ Receive(t) \/ Block(t) \/ TimesOut(t) \/ ClearHandle(t) \/ DeleteSelf(t)

----------------------------------------------------------------------------
\* gui_event_send: NULL is checked, then esp_timer_get_time is called, then
\* s_event_queue is read again for xQueueSend, which waits while it is full.

SendRefused(c) ==
  /\ client[c] = "checked"                        \* invalid type or length
  /\ client' = [client EXCEPT ![c] = "idle"]
  /\ UNCHANGED <<lifecycle, task, wait, objects, controller, events, fault>>

SendCall(c) ==
  /\ client[c] = "idle" /\ event_queue # 0
  /\ quiescent => ~Deiniting
  /\ client' = [client EXCEPT ![c] = "checked"]
  /\ UNCHANGED <<lifecycle, task, wait, objects, controller, events, fault>>

SendQueued(c) ==
  /\ client[c] \in {"checked", "full"}
  /\ event_queue # 0 /\ event_queue = alive
  /\ Queued < Capacity /\ sent < MaxSent
  /\ sent' = sent + 1
  /\ client' = [client EXCEPT ![c] = "idle"]
  /\ UNCHANGED <<lifecycle, task, wait, objects, controller, got, fault>>

SendWaits(c) ==
  /\ client[c] = "checked" /\ event_queue = alive /\ alive # 0 /\ Queued = Capacity
  /\ client' = [client EXCEPT ![c] = "full"]
  /\ UNCHANGED <<lifecycle, task, wait, objects, controller, events, fault>>

SendTimesOut(c) ==
  /\ client[c] = "full" /\ event_queue = alive /\ alive # 0
  /\ client' = [client EXCEPT ![c] = "idle"]
  /\ UNCHANGED <<lifecycle, task, wait, objects, controller, events, fault>>

\* xQueueSend on NULL or on a deleted queue, or waiting on one that is deleted.
SendDangles(c) ==
  /\ client[c] \in {"checked", "full"} /\ (event_queue = 0 \/ event_queue # alive)
  /\ fault' = TRUE
  /\ client' = [client EXCEPT ![c] = "idle"]
  /\ UNCHANGED <<lifecycle, task, wait, objects, controller, events>>

Send(c) ==
  \/ SendCall(c) \/ SendRefused(c) \/ SendQueued(c) \/ SendWaits(c) \/ SendTimesOut(c)
  \/ SendDangles(c)

----------------------------------------------------------------------------
Tick ==
  /\ wait > 0 \/ delay > 0
  /\ wait' = IF wait > 0 THEN wait - 1 ELSE 0
  /\ delay' = IF delay > 0 THEN delay - 1 ELSE 0
  /\ UNCHANGED <<lifecycle, task, objects, ctl, polls, stopping, client, events, fault>>

Returning ==
  StartAgain \/ StartFlag \/ CreateOk \/ CreateFails \/ StopPoll \/ StopKill \/ StopClear
  \/ DeinitDelete \/ DeinitForget

Step ==
  \/ InitFails \/ InitResources \/ StartCall
  \/ StopCall("stop") \/ StopCall("deinit")
  \/ Returning
  \/ \E t \in Task : GuiTask(t)
  \/ \E c \in Client : Send(c)
  \/ Tick

Next == Step /\ UNCHANGED callers

\* A call that has begun goes on, the GUI task is scheduled, time passes.
Spec == Init /\ [][Next]_vars
Fairness == /\ WF_vars(Returning /\ UNCHANGED callers) /\ WF_vars(Tick /\ UNCHANGED callers)
            /\ \A t \in Task : WF_vars(GuiTask(t) /\ UNCHANGED callers)
FairSpec == Spec /\ Fairness

----------------------------------------------------------------------------
Controls == {"idle", "start", "create", "poll", "kill", "clear", "delete", "forget", "dead"}

\* Types, and that only an initialized GUI runs.
TypeOK ==
  /\ outranked \in BOOLEAN /\ quiescent \in BOOLEAN
  /\ running => initialized
  /\ initialized \in BOOLEAN /\ running \in BOOLEAN /\ mutex \in BOOLEAN /\ fault \in BOOLEAN
  /\ gui_task \in 0 .. tasks /\ tasks \in 0 .. MaxTasks
  /\ event_queue \in 0 .. queues /\ alive \in 0 .. queues /\ queues \in 0 .. MaxQueues
  /\ task \in [Task -> Runnable \cup {"none", "blocked", "dead"}]
  /\ wait \in 0 .. LoopTicks /\ delay \in 0 .. PollTicks /\ polls \in 0 .. StopPolls
  /\ ctl \in Controls /\ stopping \in {"none", "stop", "deinit"}
  /\ client \in [Client -> {"idle", "checked", "full"}]
  /\ got \in 0 .. sent /\ sent \in 0 .. MaxSent

\* Two GUI tasks never consume the queue at once: gui_start cannot overtake the
\* end of the task that an earlier gui_stop gave up.
OneGuiTask == \A t, u \in Live : task[t] # "leave" /\ task[u] # "leave" => t = u

\* Between the calls of its owner, the GUI runs exactly if it has a task, and
\* s_gui_task is that task.
RunningMatchesTask ==
  ctl = "idle" => /\ gui_task # 0 <=> running
                  /\ {t \in Live : task[t] # "leave"} = (IF running THEN {gui_task} ELSE {})

\* A failed gui_init leaves nothing behind and a finished one everything: the
\* mutex, the queue and the flag are there together, and no handle dangles.
InitAllOrNothing ==
  ctl = "idle" => /\ initialized <=> mutex
                  /\ initialized <=> event_queue # 0
                  /\ event_queue = alive

\* Called from below the GUI task's priority, gui_stop always finds that the task
\* went by itself: twenty polls are more than one receive timeout, so the task is
\* never deleted in mid-receive and the owner never reaches vTaskDelete with a
\* handle that may be cleared.
StopIsGraceful == outranked => ctl \notin {"kill", "clear", "dead"}

\* With the clients out of the way, no call reaches a queue that gui_events_deinit
\* deleted, the calls of the GUI task and those after a restart among them.
NoDanglingQueue == quiescent => ~fault

\* docs/gui/foundation.md: the event transport is thread-safe, so a client may
\* call it at any time.
ThreadSafe == ~fault

\* An accepted event is received, unless the GUI is stopped first.
EventsConsumed ==
  \A n \in 1 .. MaxSent : sent >= n /\ running ~> got >= n \/ ~running
=============================================================================
