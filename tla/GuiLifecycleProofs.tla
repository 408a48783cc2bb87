------------------------- MODULE GuiLifecycleProofs -------------------------
(***************************************************************************)
(* What GuiLifecycle.tla promises for any clients, length of the queue,    *)
(* numbers of tasks and queues, and times.  One step of each lemma for one *)
(* action of the controller, the GUI task or a client.  At the end: the    *)
(* calls of the lifecycle return in a bounded number of steps and ticks.   *)
(***************************************************************************)
EXTENDS GuiLifecycle, TLAPS

USE GuiConstants DEF callers, lifecycle, objects, controller, events, Task

----------------------------------------------------------------------------
(* A task that has not left its loop for good.                                *)
Active(t) == task[t] \notin {"none", "dead", "leave"}

(* The flag, the mutex and the queue are there together; only between the two *)
(* steps of gui_events_deinit is the handle that of a queue that is gone.     *)
Resources ==
  /\ initialized <=> mutex
  /\ initialized <=> event_queue # 0
  /\ ctl # "idle" => initialized
  /\ IF ctl = "forget" THEN alive = 0 ELSE event_queue = alive

(* The handle is that of the task that is active, if there is one.            *)
Handles ==
  /\ \A t \in Task : task[t] = "none" <=> t > tasks
  /\ \A t \in Task : Active(t) => gui_task = t
  /\ gui_task # 0 /\ ctl # "clear" => Active(gui_task)
  /\ ctl = "clear" => \A t \in Task : ~Active(t)
  /\ running => \A t \in Task : task[t] # "clear"

(* What is known of flag and handle at each place of the controller.          *)
Places ==
  /\ ctl \in {"idle", "start"} => (running <=> gui_task # 0)
  /\ ctl = "create" => running /\ gui_task = 0
  /\ ctl \in Stopping \cup {"dead"} => ~running
  /\ ctl \in {"delete", "forget"} => gui_task = 0 /\ stopping = "deinit"
  /\ ctl = "create" \/ (ctl = "start" /\ ~running) => tasks < MaxTasks

(* A client in gui_event_send that is kept out of gui_deinit has a queue.     *)
Clients ==
  quiescent => /\ ~fault
               /\ \A c \in Client : client[c] # "idle" => initialized /\ ~Deiniting

(* While a caller of low priority polls, the task is past its receive, or has *)
(* less of its timeout left than the polls so far leave of it.                *)
Outlasted ==
  outranked =>
    /\ ctl \notin {"kill", "clear", "dead"}
    /\ ctl = "poll" =>
         \A t \in Task : Active(t) =>
           \/ task[t] \in {"loop", "clear"}
           \/ /\ task[t] = "blocked"
              /\ wait = 0 \/ wait + polls * PollTicks <= LoopTicks + delay

(* The inductive invariant.                                                   *)
IInv == TypeOK /\ Resources /\ Handles /\ Places /\ Clients /\ Outlasted

----------------------------------------------------------------------------
(* Types; a GUI that is not initialized does not run.                         *)
LEMMA TypesKept ==
  ASSUME IInv, Step, UNCHANGED callers
  PROVE  TypeOK'
<1>1. CASE InitFails
  BY <1>1 DEF IInv, TypeOK, InitFails
<1>2. CASE InitResources
  BY <1>2 DEF IInv, TypeOK, InitResources, Controls
<1>3. CASE StartCall
  BY <1>3 DEF IInv, TypeOK, StartCall, Controls
<1>4. CASE StopCall("stop")
  <2>1. /\ stopping' = "stop" /\ ~running' /\ running' \in BOOLEAN /\ polls' = 0 /\ delay' = 0
        /\ ctl' \in {"poll", "delete", "idle"}
        /\ UNCHANGED <<initialized, gui_task, event_queue, mutex, task, wait, objects, client,
                       events, fault>>
    BY <1>4 DEF StopCall
  <2> QED
    BY <2>1 DEF IInv, TypeOK, Controls
<1>5. CASE StopCall("deinit")
  <2>1. /\ stopping' = "deinit" /\ ~running' /\ running' \in BOOLEAN /\ polls' = 0 /\ delay' = 0
        /\ ctl' \in {"poll", "delete", "idle"}
        /\ UNCHANGED <<initialized, gui_task, event_queue, mutex, task, wait, objects, client,
                       events, fault>>
    BY <1>5 DEF StopCall
  <2> QED
    BY <2>1 DEF IInv, TypeOK, Controls
<1>6. CASE StartAgain
  BY <1>6 DEF IInv, TypeOK, StartAgain, Controls
<1>7. CASE StartFlag
  BY <1>7 DEF IInv, TypeOK, StartFlag, Resources, Controls
<1>8. CASE CreateOk
  BY <1>8 DEF IInv, TypeOK, CreateOk, Places, Runnable, Controls
<1>9. CASE CreateFails
  BY <1>9 DEF IInv, TypeOK, CreateFails, Places, Controls
<1>10. CASE StopPoll
  <2>1. /\ ctl' \in Controls /\ polls' \in 0 .. StopPolls /\ delay' \in 0 .. PollTicks
    BY <1>10 DEF IInv, TypeOK, StopPoll, PollsExhausted, StopReturn, Controls
  <2> QED
    BY <1>10, <2>1 DEF IInv, TypeOK, StopPoll
<1>11. CASE StopKill
  BY <1>11 DEF IInv, TypeOK, StopKill, Controls
<1>12. CASE StopClear
  BY <1>12 DEF IInv, TypeOK, StopClear, StopReturn, Controls
<1>13. CASE DeinitDelete
  BY <1>13 DEF IInv, TypeOK, DeinitDelete, Controls
<1>14. CASE DeinitForget
  <2>1. /\ ctl = "forget" /\ ctl' = "idle" /\ event_queue' = 0
        /\ UNCHANGED <<gui_task, task, wait, objects, polls, delay, stopping, client, events,
                       fault>>
    BY <1>14 DEF DeinitForget
  <2>2. ~running' /\ running' \in BOOLEAN /\ mutex' \in BOOLEAN /\ initialized' \in BOOLEAN
    BY <1>14 DEF DeinitForget, IInv, TypeOK, Places, Stopping
  <2> QED
    BY <2>1, <2>2 DEF IInv, TypeOK, Controls
<1>15. ASSUME NEW t \in Task, LoopTest(t)
      PROVE  TypeOK'
  BY <1>15 DEF IInv, TypeOK, LoopTest, Runnable
<1>16. ASSUME NEW t \in Task, Receive(t)
      PROVE  TypeOK'
  BY <1>16 DEF IInv, TypeOK, Receive, Queued, Runnable
<1>17. ASSUME NEW t \in Task, Block(t)
      PROVE  TypeOK'
  BY <1>17 DEF IInv, TypeOK, Block
<1>18. ASSUME NEW t \in Task, TimesOut(t)
      PROVE  TypeOK'
  BY <1>18 DEF IInv, TypeOK, TimesOut, Runnable
<1>19. ASSUME NEW t \in Task, ClearHandle(t)
      PROVE  TypeOK'
  BY <1>19 DEF IInv, TypeOK, ClearHandle, Runnable
<1>20. ASSUME NEW t \in Task, DeleteSelf(t)
      PROVE  TypeOK'
  BY <1>20 DEF IInv, TypeOK, DeleteSelf
<1>21. ASSUME NEW c \in Client, SendCall(c)
      PROVE  TypeOK'
  BY <1>21 DEF IInv, TypeOK, SendCall
<1>22. ASSUME NEW c \in Client, SendRefused(c)
      PROVE  TypeOK'
  BY <1>22 DEF IInv, TypeOK, SendRefused
<1>23. ASSUME NEW c \in Client, SendQueued(c)
      PROVE  TypeOK'
  BY <1>23 DEF IInv, TypeOK, SendQueued
<1>24. ASSUME NEW c \in Client, SendWaits(c)
      PROVE  TypeOK'
  BY <1>24 DEF IInv, TypeOK, SendWaits
<1>25. ASSUME NEW c \in Client, SendTimesOut(c)
      PROVE  TypeOK'
  BY <1>25 DEF IInv, TypeOK, SendTimesOut
<1>26. ASSUME NEW c \in Client, SendDangles(c)
      PROVE  TypeOK'
  BY <1>26 DEF IInv, TypeOK, SendDangles
<1>27. CASE Tick
  BY <1>27 DEF IInv, TypeOK, Tick
<1> QED
  BY <1>1, <1>2, <1>3, <1>4, <1>5, <1>6, <1>7, <1>8, <1>9, <1>10, <1>11,
     <1>12, <1>13, <1>14, <1>15, <1>16, <1>17, <1>18, <1>19, <1>20, <1>21,
     <1>22, <1>23, <1>24, <1>25, <1>26, <1>27
     DEF Step, Returning, GuiTask, Send

(* The mutex, the queue and the flag come and go in the same calls.           *)
LEMMA ResourcesKept ==
  ASSUME IInv, Step, UNCHANGED callers
  PROVE  Resources'
<1>1. CASE InitFails
  BY <1>1 DEF IInv, Resources, InitFails
<1>2. CASE InitResources
  BY <1>2 DEF IInv, Resources, InitResources, TypeOK
<1>3. CASE StartCall
  BY <1>3 DEF IInv, Resources, StartCall
<1>4. CASE StopCall("stop")
  BY <1>4 DEF IInv, Resources, StopCall, TypeOK
<1>5. CASE StopCall("deinit")
  BY <1>5 DEF IInv, Resources, StopCall
<1>6. CASE StartAgain
  BY <1>6 DEF IInv, Resources, StartAgain
<1>7. CASE StartFlag
  BY <1>7 DEF IInv, Resources, StartFlag
<1>8. CASE CreateOk
  BY <1>8 DEF IInv, Resources, CreateOk
<1>9. CASE CreateFails
  BY <1>9 DEF IInv, Resources, CreateFails
<1>10. CASE StopPoll
  BY <1>10 DEF IInv, Resources, StopPoll, StopReturn
<1>11. CASE StopKill
  BY <1>11 DEF IInv, Resources, StopKill
<1>12. CASE StopClear
  BY <1>12 DEF IInv, Resources, StopClear, StopReturn
<1>13. CASE DeinitDelete
  BY <1>13 DEF IInv, Resources, DeinitDelete
<1>14. CASE DeinitForget
  BY <1>14 DEF IInv, Resources, DeinitForget
<1>15. ASSUME NEW t \in Task, GuiTask(t)
      PROVE  Resources'
  BY <1>15 DEF IInv, Resources, GuiTask, LoopTest, Receive, Block, TimesOut,
         ClearHandle, DeleteSelf
<1>16. ASSUME NEW c \in Client, Send(c)
      PROVE  Resources'
  BY <1>16 DEF IInv, Resources, Send, SendCall, SendRefused, SendQueued,
         SendWaits, SendTimesOut, SendDangles
<1>17. CASE Tick
  BY <1>17 DEF IInv, Resources, Tick
<1> QED
  BY <1>1, <1>2, <1>3, <1>4, <1>5, <1>6, <1>7, <1>8, <1>9, <1>10, <1>11,
     <1>12, <1>13, <1>14, <1>15, <1>16, <1>17
     DEF Step, Returning

(* A new task is created only when the handle is clear, and then no task is   *)
(* active; the handle is cleared when its task ended or is past its loop.     *)
LEMMA HandlesKept ==
  ASSUME IInv, Step, UNCHANGED callers
  PROVE  Handles'
<1>1. CASE InitFails
  BY <1>1 DEF IInv, Handles, Active, InitFails
<1>2. CASE InitResources
  BY <1>2 DEF IInv, Handles, Active, InitResources
<1>3. CASE StartCall
  BY <1>3 DEF IInv, Handles, Active, StartCall
<1>4. CASE StopCall("stop")
  BY <1>4 DEF IInv, Handles, Active, StopCall
<1>5. CASE StopCall("deinit")
  BY <1>5 DEF IInv, Handles, Active, StopCall
<1>6. CASE StartAgain
  BY <1>6 DEF IInv, Handles, Active, StartAgain
<1>7. CASE StartFlag
  BY <1>7 DEF IInv, Handles, Active, StartFlag, Places
<1>8. CASE CreateOk
  BY <1>8 DEF IInv, Handles, Active, CreateOk, TypeOK, Places
<1>9. CASE CreateFails
  BY <1>9 DEF IInv, Handles, Active, CreateFails, Places
<1>10. CASE StopPoll
  BY <1>10 DEF IInv, Handles, Active, StopPoll
<1>11. CASE StopKill
  BY <1>11 DEF IInv, Handles, Active, StopKill, TypeOK
<1>12. CASE StopClear
  BY <1>12 DEF IInv, Handles, Active, StopClear
<1>13. CASE DeinitDelete
  BY <1>13 DEF IInv, Handles, Active, DeinitDelete
<1>14. CASE DeinitForget
  BY <1>14 DEF IInv, Handles, Active, DeinitForget
<1>15. ASSUME NEW t \in Task, LoopTest(t)
      PROVE  Handles'
  BY <1>15 DEF IInv, Handles, Active, LoopTest
<1>16. ASSUME NEW t \in Task, Receive(t)
      PROVE  Handles'
  BY <1>16 DEF IInv, Handles, Active, Receive
<1>17. ASSUME NEW t \in Task, Block(t)
      PROVE  Handles'
  BY <1>17 DEF IInv, Handles, Active, Block
<1>18. ASSUME NEW t \in Task, TimesOut(t)
      PROVE  Handles'
  BY <1>18 DEF IInv, Handles, Active, TimesOut
<1>19. ASSUME NEW t \in Task, ClearHandle(t)
      PROVE  Handles'
  BY <1>19 DEF IInv, Handles, Active, ClearHandle, TypeOK
<1>20. ASSUME NEW t \in Task, DeleteSelf(t)
      PROVE  Handles'
  BY <1>20 DEF IInv, Handles, Active, DeleteSelf
<1>21. ASSUME NEW c \in Client, Send(c)
      PROVE  Handles'
  BY <1>21 DEF IInv, Handles, Active, Send, SendCall, SendRefused, SendQueued,
         SendWaits, SendTimesOut, SendDangles
<1>22. CASE Tick
  BY <1>22 DEF IInv, Handles, Active, Tick
<1> QED
  BY <1>1, <1>2, <1>3, <1>4, <1>5, <1>6, <1>7, <1>8, <1>9, <1>10, <1>11,
     <1>12, <1>13, <1>14, <1>15, <1>16, <1>17, <1>18, <1>19, <1>20, <1>21,
     <1>22
     DEF Step, Returning, GuiTask

(* The controller leaves gui_stop with the flag and the handle both cleared.  *)
LEMMA PlacesKept ==
  ASSUME IInv, Step, UNCHANGED callers
  PROVE  Places'
<1>1. CASE InitFails
  BY <1>1 DEF IInv, Places, InitFails
<1>2. CASE InitResources
  BY <1>2 DEF IInv, Places, InitResources, Stopping
<1>3. CASE StartCall
  BY <1>3 DEF IInv, Places, StartCall, Stopping
<1>4. CASE StopCall("stop")
  BY <1>4 DEF IInv, Places, StopCall
<1>5. CASE StopCall("deinit")
  BY <1>5 DEF IInv, Places, StopCall
<1>6. CASE StartAgain
  BY <1>6 DEF IInv, Places, StartAgain, Stopping
<1>7. CASE StartFlag
  BY <1>7 DEF IInv, Places, StartFlag, Stopping
<1>8. CASE CreateOk
  BY <1>8 DEF IInv, Places, CreateOk, TypeOK, Stopping
<1>9. CASE CreateFails
  BY <1>9 DEF IInv, Places, CreateFails
<1>10. CASE StopPoll
  BY <1>10 DEF IInv, Places, StopPoll, Stopping, StopReturn
<1>11. CASE StopKill
  BY <1>11 DEF IInv, Places, StopKill, Stopping
<1>12. CASE StopClear
  BY <1>12 DEF IInv, Places, StopClear, Stopping, StopReturn
<1>13. CASE DeinitDelete
  BY <1>13 DEF IInv, Places, DeinitDelete, Stopping
<1>14. CASE DeinitForget
  BY <1>14 DEF IInv, Places, DeinitForget, Stopping
<1>15. ASSUME NEW t \in Task, LoopTest(t)
      PROVE  Places'
  BY <1>15 DEF IInv, Places, LoopTest
<1>16. ASSUME NEW t \in Task, Receive(t)
      PROVE  Places'
  BY <1>16 DEF IInv, Places, Receive
<1>17. ASSUME NEW t \in Task, Block(t)
      PROVE  Places'
  BY <1>17 DEF IInv, Places, Block
<1>18. ASSUME NEW t \in Task, TimesOut(t)
      PROVE  Places'
  BY <1>18 DEF IInv, Places, TimesOut
<1>19. ASSUME NEW t \in Task, ClearHandle(t)
      PROVE  Places'
  BY <1>19 DEF IInv, Places, ClearHandle, Handles
<1>20. ASSUME NEW t \in Task, DeleteSelf(t)
      PROVE  Places'
  BY <1>20 DEF IInv, Places, DeleteSelf
<1>21. ASSUME NEW c \in Client, Send(c)
      PROVE  Places'
  BY <1>21 DEF IInv, Places, Send, SendCall, SendRefused, SendQueued,
         SendWaits, SendTimesOut, SendDangles
<1>22. CASE Tick
  BY <1>22 DEF IInv, Places, Tick
<1> QED
  BY <1>1, <1>2, <1>3, <1>4, <1>5, <1>6, <1>7, <1>8, <1>9, <1>10, <1>11,
     <1>12, <1>13, <1>14, <1>15, <1>16, <1>17, <1>18, <1>19, <1>20, <1>21,
     <1>22
     DEF Step, Returning, GuiTask

(* The queue goes only when no task is active and, for callers that keep the  *)
(* clients out, none is inside a send.                                        *)
LEMMA ClientsKept ==
  ASSUME IInv, Step, UNCHANGED callers
  PROVE  Clients'
<1>1. CASE InitFails
  BY <1>1 DEF IInv, Clients, Deiniting, InitFails
<1>2. CASE InitResources
  BY <1>2 DEF IInv, Clients, Deiniting, InitResources
<1>3. CASE StartCall
  BY <1>3 DEF IInv, Clients, Deiniting, StartCall, Stopping
<1>4. CASE StopCall("stop")
  BY <1>4 DEF IInv, Clients, Deiniting, StopCall
<1>5. CASE StopCall("deinit")
  BY <1>5 DEF IInv, Clients, Deiniting, StopCall, MayDeinit
<1>6. CASE StartAgain
  BY <1>6 DEF IInv, Clients, Deiniting, StartAgain, Stopping
<1>7. CASE StartFlag
  BY <1>7 DEF IInv, Clients, Deiniting, StartFlag, Stopping
<1>8. CASE CreateOk
  BY <1>8 DEF IInv, Clients, Deiniting, CreateOk, Stopping
<1>9. CASE CreateFails
  BY <1>9 DEF IInv, Clients, Deiniting, CreateFails, Stopping
<1>10. CASE StopPoll
  BY <1>10 DEF IInv, Clients, Deiniting, StopPoll, Stopping
<1>11. CASE StopKill
  BY <1>11 DEF IInv, Clients, Deiniting, StopKill, Stopping
<1>12. CASE StopClear
  BY <1>12 DEF IInv, Clients, Deiniting, StopClear, Stopping
<1>13. CASE DeinitDelete
  BY <1>13 DEF IInv, Clients, Deiniting, DeinitDelete, Stopping
<1>14. CASE DeinitForget
  BY <1>14 DEF IInv, Clients, Deiniting, DeinitForget, Places, Stopping
<1>15. ASSUME NEW t \in Task, LoopTest(t)
      PROVE  Clients'
  BY <1>15 DEF IInv, Clients, Deiniting, LoopTest
<1>16. ASSUME NEW t \in Task, Receive(t)
      PROVE  Clients'
  BY <1>16 DEF IInv, Clients, Deiniting, Receive, TypeOK, Places, Handles,
         Resources, Active
<1>17. ASSUME NEW t \in Task, Block(t)
      PROVE  Clients'
  BY <1>17 DEF IInv, Clients, Deiniting, Block, TypeOK, Places, Handles,
         Resources, Active
<1>18. ASSUME NEW t \in Task, TimesOut(t)
      PROVE  Clients'
  BY <1>18 DEF IInv, Clients, Deiniting, TimesOut
<1>19. ASSUME NEW t \in Task, ClearHandle(t)
      PROVE  Clients'
  BY <1>19 DEF IInv, Clients, Deiniting, ClearHandle
<1>20. ASSUME NEW t \in Task, DeleteSelf(t)
      PROVE  Clients'
  BY <1>20 DEF IInv, Clients, Deiniting, DeleteSelf
<1>21. ASSUME NEW c \in Client, SendCall(c)
      PROVE  Clients'
  BY <1>21 DEF IInv, Clients, Deiniting, SendCall, Resources
<1>22. ASSUME NEW c \in Client, SendRefused(c)
      PROVE  Clients'
  BY <1>22 DEF IInv, Clients, Deiniting, SendRefused
<1>23. ASSUME NEW c \in Client, SendQueued(c)
      PROVE  Clients'
  BY <1>23 DEF IInv, Clients, Deiniting, SendQueued
<1>24. ASSUME NEW c \in Client, SendWaits(c)
      PROVE  Clients'
  BY <1>24 DEF IInv, Clients, Deiniting, SendWaits
<1>25. ASSUME NEW c \in Client, SendTimesOut(c)
      PROVE  Clients'
  BY <1>25 DEF IInv, Clients, Deiniting, SendTimesOut
<1>26. ASSUME NEW c \in Client, SendDangles(c)
      PROVE  Clients'
  BY <1>26 DEF IInv, Clients, Deiniting, SendDangles, Places, Resources,
         Stopping
<1>27. CASE Tick
  BY <1>27 DEF IInv, Clients, Deiniting, Tick
<1> QED
  BY <1>1, <1>2, <1>3, <1>4, <1>5, <1>6, <1>7, <1>8, <1>9, <1>10, <1>11,
     <1>12, <1>13, <1>14, <1>15, <1>16, <1>17, <1>18, <1>19, <1>20, <1>21,
     <1>22, <1>23, <1>24, <1>25, <1>26, <1>27
     DEF Step, Returning, GuiTask, Send

(* At the first poll the task waits at most a receive timeout.  Time passes   *)
(* for both, so when the polls are used up nothing of the timeout is left.    *)
LEMMA OutlastedKept ==
  ASSUME IInv, Step, UNCHANGED callers
  PROVE  Outlasted'
<1>1. CASE InitFails
  BY <1>1 DEF IInv, Outlasted, Active, InitFails
<1>2. CASE InitResources
  BY <1>2 DEF IInv, Outlasted, Active, InitResources
<1>3. CASE StartCall
  BY <1>3 DEF IInv, Outlasted, Active, StartCall
<1>4. CASE StopCall("stop")
  <2> SUFFICES ASSUME outranked PROVE Outlasted'
    BY DEF Outlasted
  <2>1. /\ running => ctl' = "poll"
        /\ ctl' \in {"poll", "delete", "idle"}
        /\ polls' = 0 /\ delay' = 0 /\ UNCHANGED <<task, wait, outranked>>
        /\ ctl = "idle"
    BY <1>4 DEF StopCall
  <2>2. \A t \in Task : ~Ready(t)
    BY <1>4 DEF StopCall, Scheduled
  <2>3. \A t \in Task : Active(t) => task[t] = "blocked"
    BY <2>2 DEF IInv, TypeOK, Ready, Runnable, Active
  <2>4. wait + 0 * PollTicks <= LoopTicks + 0
    BY DEF IInv, TypeOK
  <2>5. \A t \in Task : Active(t)' => task'[t] = "blocked"
    BY <2>1, <2>3 DEF Active
  <2> QED
    BY <2>1, <2>4, <2>5 DEF Outlasted
<1>5. CASE StopCall("deinit")
  <2> SUFFICES ASSUME outranked PROVE Outlasted'
    BY DEF Outlasted
  <2>1. /\ running => ctl' = "poll"
        /\ ctl' \in {"poll", "delete", "idle"}
        /\ polls' = 0 /\ delay' = 0 /\ UNCHANGED <<task, wait, outranked>>
        /\ ctl = "idle"
    BY <1>5 DEF StopCall
  <2>2. \A t \in Task : ~Ready(t)
    BY <1>5 DEF StopCall, Scheduled
  <2>3. \A t \in Task : Active(t) => task[t] = "blocked"
    BY <2>2 DEF IInv, TypeOK, Ready, Runnable, Active
  <2>4. wait + 0 * PollTicks <= LoopTicks + 0
    BY DEF IInv, TypeOK
  <2>5. \A t \in Task : Active(t)' => task'[t] = "blocked"
    BY <2>1, <2>3 DEF Active
  <2> QED
    BY <2>1, <2>4, <2>5 DEF Outlasted
<1>6. CASE StartAgain
  BY <1>6 DEF IInv, Outlasted, Active, StartAgain
<1>7. CASE StartFlag
  BY <1>7 DEF IInv, Outlasted, Active, StartFlag
<1>8. CASE CreateOk
  BY <1>8 DEF IInv, Outlasted, Active, CreateOk
<1>9. CASE CreateFails
  BY <1>9 DEF IInv, Outlasted, Active, CreateFails
<1>10. CASE StopPoll
  <2> SUFFICES ASSUME outranked PROVE Outlasted'
    BY DEF Outlasted
  <2>0. /\ outranked' /\ ctl = "poll" /\ Scheduled /\ delay = 0 /\ task' = task /\ wait' = wait
        /\ polls \in Nat /\ wait \in Nat /\ PollTicks \in Nat
    BY <1>10 DEF StopPoll, IInv, TypeOK
  <2>1. \A t \in Task : Active(t) => /\ task[t] = "blocked" /\ wait > 0
                                    /\ wait + polls * PollTicks <= LoopTicks
    <3>1. \A t \in Task : ~Ready(t)
      BY <2>0 DEF Scheduled
    <3>2. \A t \in Task : Active(t) => task[t] = "blocked" /\ wait # 0
      BY <3>1 DEF IInv, TypeOK, Ready, Runnable, Active
    <3>3. polls * PollTicks \in Nat
      BY <2>0, Z3
    <3> QED
      BY <2>0, <3>2, <3>3 DEF IInv, Outlasted
  <2>2. CASE gui_task = 0
    BY <1>10, <2>0, <2>2 DEF StopPoll, Outlasted, StopReturn
  <2>3. CASE gui_task # 0
    <3>1. Active(gui_task) /\ gui_task \in Task
      BY <2>0, <2>3 DEF IInv, Handles, TypeOK
    <3>2. polls # StopPolls
      BY <2>0, <2>1, <3>1, PollsOutlastReceive
    <3>3. ctl' = "poll" /\ polls' = polls + 1 /\ delay' = PollTicks
      BY <1>10, <2>0, <2>3, <3>2 DEF StopPoll, PollsExhausted
    <3>4. (polls + 1) * PollTicks = polls * PollTicks + PollTicks /\ polls * PollTicks \in Nat
      BY <2>0, Z3
    <3>5. \A t \in Task : Active(t)' => /\ task'[t] = "blocked"
                                       /\ wait' + polls' * PollTicks <= LoopTicks + delay'
      BY <2>0, <2>1, <3>3, <3>4 DEF Active
    <3> QED
      BY <3>3, <3>5 DEF Outlasted
  <2> QED
    BY <2>2, <2>3
<1>11. CASE StopKill
  BY <1>11 DEF IInv, Outlasted, Active, StopKill
<1>12. CASE StopClear
  BY <1>12 DEF IInv, Outlasted, Active, StopClear
<1>13. CASE DeinitDelete
  BY <1>13 DEF IInv, Outlasted, Active, DeinitDelete
<1>14. CASE DeinitForget
  BY <1>14 DEF IInv, Outlasted, Active, DeinitForget
<1>15. ASSUME NEW t \in Task, LoopTest(t)
      PROVE  Outlasted'
  <2> SUFFICES ASSUME outranked PROVE Outlasted'
    BY DEF Outlasted
  <2>1. /\ task[t] = "loop" /\ task' = [task EXCEPT ![t] = IF running THEN "receive" ELSE "clear"]
        /\ UNCHANGED <<wait, polls, delay, ctl, outranked>>
    BY <1>15 DEF LoopTest
  <2>2. ctl = "poll" => ~running
    BY DEF IInv, Places, Stopping
  <2>3. ctl \notin {"kill", "clear", "dead"}
    BY DEF IInv, Outlasted
  <2>4. ASSUME ctl = "poll", NEW u \in Task, Active(u)'
        PROVE  \/ task'[u] \in {"loop", "clear"}
               \/ /\ task'[u] = "blocked"
                  /\ wait = 0 \/ wait + polls * PollTicks <= LoopTicks + delay
    <3>1. CASE u = t
      BY <2>1, <2>2, <2>4, <3>1 DEF IInv, TypeOK
    <3>2. CASE u # t
      <4>1. task'[u] = task[u] /\ Active(u)
        BY <2>1, <2>4, <3>2 DEF IInv, TypeOK, Active
      <4> QED
        BY <2>4, <4>1 DEF IInv, Outlasted
    <3> QED
      BY <3>1, <3>2
  <2> QED
    BY <2>1, <2>3, <2>4 DEF Outlasted
<1>16. ASSUME NEW t \in Task, Receive(t)
      PROVE  Outlasted'
  BY <1>16 DEF IInv, Outlasted, Active, Receive
<1>17. ASSUME NEW t \in Task, Block(t)
      PROVE  Outlasted'
  BY <1>17 DEF IInv, Outlasted, Active, Block
<1>18. ASSUME NEW t \in Task, TimesOut(t)
      PROVE  Outlasted'
  BY <1>18 DEF IInv, Outlasted, Active, TimesOut
<1>19. ASSUME NEW t \in Task, ClearHandle(t)
      PROVE  Outlasted'
  BY <1>19 DEF IInv, Outlasted, Active, ClearHandle
<1>20. ASSUME NEW t \in Task, DeleteSelf(t)
      PROVE  Outlasted'
  BY <1>20 DEF IInv, Outlasted, Active, DeleteSelf
<1>21. ASSUME NEW c \in Client, Send(c)
      PROVE  Outlasted'
  BY <1>21 DEF IInv, Outlasted, Active, Send, SendCall, SendRefused,
         SendQueued, SendWaits, SendTimesOut, SendDangles
<1>22. CASE Tick
  BY <1>22 DEF IInv, Outlasted, Active, Tick, TypeOK
<1> QED
  BY <1>1, <1>2, <1>3, <1>4, <1>5, <1>6, <1>7, <1>8, <1>9, <1>10, <1>11,
     <1>12, <1>13, <1>14, <1>15, <1>16, <1>17, <1>18, <1>19, <1>20, <1>21,
     <1>22
     DEF Step, Returning, GuiTask

----------------------------------------------------------------------------
LEMMA InitInv == Init => IInv
<1> SUFFICES ASSUME Init PROVE IInv
  OBVIOUS
<1>1. TypeOK
  <2>1. /\ ~initialized /\ ~running /\ initialized \in BOOLEAN /\ running \in BOOLEAN
        /\ mutex \in BOOLEAN /\ fault \in BOOLEAN /\ outranked \in BOOLEAN /\ quiescent \in BOOLEAN
    BY DEF Init
  <2>2. /\ gui_task = 0 /\ event_queue = 0 /\ tasks = 0 /\ queues = 0 /\ alive = 0
        /\ wait = 0 /\ polls = 0 /\ delay = 0 /\ sent = 0 /\ got = 0
        /\ ctl = "idle" /\ stopping = "none"
        /\ task = [t \in Task |-> "none"] /\ client = [c \in Client |-> "idle"]
    BY DEF Init
  <2> QED
    BY <2>1, <2>2 DEF TypeOK, Runnable, Controls
<1>2. Resources
  <2>1. ~initialized /\ ~mutex /\ event_queue = 0 /\ alive = 0 /\ ctl = "idle"
    BY DEF Init
  <2> QED
    BY <2>1 DEF Resources
<1>3. Handles
  <2>1. ~running /\ gui_task = 0 /\ tasks = 0 /\ ctl = "idle" /\ \A t \in Task : task[t] = "none"
    BY DEF Init
  <2> QED
    BY <2>1 DEF Handles, Active
<1>4. Places
  <2>1. ~running /\ gui_task = 0 /\ ctl = "idle"
    BY DEF Init
  <2> QED
    BY <2>1 DEF Places, Stopping
<1>5. Clients
  BY DEF Init, Clients
<1>6. Outlasted
  BY DEF Init, Outlasted
<1> QED
  BY <1>1, <1>2, <1>3, <1>4, <1>5, <1>6 DEF IInv

LEMMA StepInv == IInv /\ [Next]_vars => IInv'
<1> SUFFICES ASSUME IInv, [Next]_vars
             PROVE  IInv'
  OBVIOUS
<1>1. CASE Next
  BY <1>1, TypesKept, ResourcesKept, HandlesKept, PlacesKept, ClientsKept, OutlastedKept
     DEF Next, IInv
<1>2. CASE UNCHANGED vars
  BY <1>2 DEF vars, IInv, TypeOK, Resources, Handles, Places, Clients, Outlasted, Active,
              Deiniting
<1> QED
  BY <1>1, <1>2

(* The invariant holds in every behaviour of the GUI.                         *)
THEOREM Invariant == Spec => []IInv
  BY InitInv, StepInv, PTL DEF Spec

(* The variables of gui_main.c and gui_events.c have their types, and only an *)
(* initialized GUI runs.                                                      *)
THEOREM TypeCorrect == Spec => []TypeOK
<1>1. IInv => TypeOK
  BY DEF IInv
<1> QED
  BY <1>1, Invariant, PTL

(* After gui_init or gui_deinit the mutex, the queue and the flag are there   *)
(* together or not at all.                                                    *)
THEOREM AllOrNothing == Spec => []InitAllOrNothing
<1>1. IInv => InitAllOrNothing
  BY DEF IInv, TypeOK, Resources, InitAllOrNothing
<1> QED
  BY <1>1, Invariant, PTL

(* Starts and stops in any order leave at most one task in the loop.          *)
THEOREM OneTask == Spec => []OneGuiTask
<1>1. IInv => OneGuiTask
  BY DEF IInv, Handles, Active, OneGuiTask, Live
<1> QED
  BY <1>1, Invariant, PTL

(* Between calls s_gui_running says whether there is a task, and s_gui_task   *)
(* which.                                                                     *)
THEOREM FlagMatchesTask == Spec => []RunningMatchesTask
<1>1. IInv => RunningMatchesTask
  BY DEF IInv, TypeOK, Handles, Places, Active, RunningMatchesTask, Live
<1> QED
  BY <1>1, Invariant, PTL

(* gui_stop from a low priority never reaches its vTaskDelete, whatever the   *)
(* number of polls and their time, as long as they outlast one receive.       *)
THEOREM Graceful == Spec => []StopIsGraceful
<1>1. IInv => StopIsGraceful
  BY DEF IInv, Outlasted, StopIsGraceful
<1> QED
  BY <1>1, Invariant, PTL

(* gui_events_deinit deletes no queue that the GUI task uses, nor a client    *)
(* that is kept out of gui_deinit.                                            *)
THEOREM NoDangling == Spec => []NoDanglingQueue
<1>1. IInv => NoDanglingQueue
  BY DEF IInv, Clients, NoDanglingQueue
<1> QED
  BY <1>1, Invariant, PTL

----------------------------------------------------------------------------
(* Calls return.  The steps and the ticks of waiting a call of the lifecycle   *)
(* still needs at most: a round of the polls of gui_stop is one step and       *)
(* PollTicks ticks.                                                           *)
CallLeft ==
  CASE ctl = "poll" -> (StopPolls - polls) * (PollTicks + 1) + delay + 5
    [] ctl = "kill" -> 4
    [] ctl = "clear" -> 3
    [] ctl \in {"delete", "start"} -> 2
    [] ctl \in {"forget", "create"} -> 1
    [] OTHER -> 0

MostLeft == StopPolls * (PollTicks + 1) + 5

(* Inside a call CallLeft never grows, whatever GUI task and clients do; a     *)
(* step of the call lowers it, and so does a tick while the call waits.        *)
CallsAdvance ==
  [][ctl \notin {"idle", "dead"} =>
       /\ CallLeft \in 1 .. MostLeft
       /\ CallLeft' <= CallLeft
       /\ Returning \/ (Tick /\ ctl = "poll" /\ delay > 0) => CallLeft' < CallLeft]_vars

(* The first delay of gui_stop comes after the first poll.                    *)
Pacing == ctl = "poll" /\ polls = 0 => delay = 0

LEMMA PacingKept ==
  ASSUME IInv, Pacing, Step
  PROVE  Pacing'
<1>1. CASE UNCHANGED controller
  BY <1>1 DEF Pacing
<1>2. CASE StopCall("stop") \/ StopCall("deinit")
  BY <1>2 DEF StopCall, Pacing
<1>3. CASE StopPoll
  <2>1. CASE ctl' = "poll"
    <3>1. polls' = polls + 1 /\ polls \in Nat
      BY <1>3, <2>1 DEF StopPoll, StopReturn, IInv, TypeOK
    <3> QED
      BY <3>1 DEF Pacing
  <2> QED
    BY <2>1 DEF Pacing
<1>4. CASE Tick
  BY <1>4 DEF Tick, Pacing, IInv, TypeOK
<1>5. ASSUME ctl' # "poll"
      PROVE  Pacing'
  BY <1>5 DEF Pacing
<1>6. CASE InitFails \/ InitResources \/ StartCall \/ StartAgain \/ StartFlag \/ CreateOk
           \/ CreateFails \/ StopKill \/ StopClear \/ DeinitDelete \/ DeinitForget
  BY <1>1, <1>5, <1>6 DEF InitFails, InitResources, StartCall, StartAgain, StartFlag, CreateOk,
     CreateFails, StopKill, StopClear, StopReturn, DeinitDelete, DeinitForget
<1>7. CASE \/ \E t \in Task : GuiTask(t)
           \/ \E c \in Client : Send(c)
  BY <1>1, <1>7 DEF GuiTask, LoopTest, Receive, Block, TimesOut, ClearHandle, DeleteSelf,
     Send, SendCall, SendRefused, SendQueued, SendWaits, SendTimesOut, SendDangles
<1> QED
  BY <1>2, <1>3, <1>4, <1>6, <1>7 DEF Step, Returning

(* The rounds of a loop of S polls, the p of them made already, of k each.    *)
LEMMA Rounds ==
  ASSUME NEW S \in Nat, NEW p \in 0 .. S, NEW k \in Nat
  PROVE  /\ (S - p) * k \in Nat
         /\ p = 0 => (S - p) * k = S * k
         /\ p > 0 => (S - p) * k <= S * k - k
         /\ p < S => (S - (p + 1)) * k = (S - p) * k - k
<1>1. (S - p) * k = S * k - p * k /\ (S - (p + 1)) * k = (S - p) * k - k
  OBVIOUS
<1>2. (S - p) * k \in Nat
  OBVIOUS
<1>3. p > 0 => p * k >= k
  OBVIOUS
<1>4. S * k \in Nat /\ p * k \in Nat /\ (p = 0 => p * k = 0)
  OBVIOUS
<1> QED
  BY <1>1, <1>2, <1>3, <1>4

LEMMA LeftBounded ==
  ASSUME IInv, Pacing, ctl \notin {"idle", "dead"}
  PROVE  CallLeft \in 1 .. MostLeft
<1> DEFINE rounds == (StopPolls - polls) * (PollTicks + 1)
           all == StopPolls * (PollTicks + 1)
<1>1. polls \in 0 .. StopPolls /\ delay \in 0 .. PollTicks /\ ctl \in Controls
  BY DEF IInv, TypeOK
<1>2. /\ rounds \in Nat /\ all \in Nat
      /\ polls = 0 => rounds = all
      /\ polls > 0 => rounds <= all - (PollTicks + 1)
  BY <1>1, Rounds
<1>3. CASE ctl = "poll"
  <2>1. CallLeft = rounds + delay + 5 /\ MostLeft = all + 5
    BY <1>3 DEF CallLeft, MostLeft
  <2>2. polls = 0 => delay = 0
    BY <1>3 DEF Pacing
  <2> HIDE DEF rounds, all
  <2> QED
    BY <1>1, <1>2, <2>1, <2>2
<1>4. CASE ctl # "poll"
  <2>1. CallLeft \in 1 .. 4
    BY <1>1, <1>4 DEF CallLeft, Controls
  <2>2. MostLeft = all + 5
    BY DEF MostLeft
  <2> HIDE DEF all
  <2> QED
    BY <1>2, <2>1, <2>2
<1> QED
  BY <1>3, <1>4

(* A poll of gui_stop: the task is gone, or there is one round less to come.   *)
LEMMA PollLowers ==
  ASSUME IInv, StopPoll
  PROVE  CallLeft' < CallLeft /\ CallLeft' <= CallLeft
<1> DEFINE rounds == (StopPolls - polls) * (PollTicks + 1)
<1>1. polls \in 0 .. StopPolls /\ ctl = "poll" /\ delay = 0
  BY DEF IInv, TypeOK, StopPoll
<1>2. rounds \in Nat /\ CallLeft = rounds + 5
  <2>1. rounds \in Nat
    BY <1>1, Rounds
  <2> QED
    BY <1>1, <2>1 DEF CallLeft
<1>3. CASE gui_task = 0 \/ PollsExhausted
  <2>1. ctl' \in {"delete", "idle", "kill"}
    BY <1>3 DEF StopPoll, StopReturn
  <2>2. CallLeft' \in 0 .. 4
    BY <2>1 DEF CallLeft
  <2> HIDE DEF rounds
  <2> QED
    BY <1>2, <2>2
<1>4. CASE ~(gui_task = 0 \/ PollsExhausted)
  <2>1. polls' = polls + 1 /\ delay' = PollTicks /\ ctl' = "poll" /\ polls < StopPolls
    BY <1>1, <1>4 DEF StopPoll, PollsExhausted
  <2>2. CallLeft' = (StopPolls - (polls + 1)) * (PollTicks + 1) + PollTicks + 5
    BY <2>1 DEF CallLeft
  <2>3. (StopPolls - (polls + 1)) * (PollTicks + 1) = rounds - (PollTicks + 1)
    BY <1>1, <2>1, Rounds
  <2> HIDE DEF rounds
  <2> QED
    BY <1>2, <2>2, <2>3
<1> QED
  BY <1>3, <1>4

(* Every step of a call.                                                       *)
LEMMA CallLowers ==
  ASSUME IInv, Returning
  PROVE  CallLeft' < CallLeft /\ CallLeft' <= CallLeft
<1>1. CASE StartAgain \/ StartFlag \/ CreateOk \/ CreateFails
  BY <1>1 DEF StartAgain, StartFlag, CreateOk, CreateFails, CallLeft
<1>2. CASE StopKill \/ StopClear \/ DeinitDelete \/ DeinitForget
  BY <1>2 DEF StopKill, StopClear, StopReturn, DeinitDelete, DeinitForget, CallLeft
<1> QED
  BY <1>1, <1>2, PollLowers DEF Returning

(* A tick while gui_stop waits.                                               *)
LEMMA TickLowers ==
  ASSUME IInv, Tick, ctl # "idle"
  PROVE  /\ CallLeft' <= CallLeft
         /\ ctl = "poll" /\ delay > 0 => CallLeft' < CallLeft
<1> DEFINE rounds == (StopPolls - polls) * (PollTicks + 1)
<1>1. polls \in 0 .. StopPolls /\ delay \in Nat /\ ctl \in Controls
  BY DEF IInv, TypeOK
<1>2. /\ UNCHANGED <<ctl, polls>>
      /\ delay' = IF delay > 0 THEN delay - 1 ELSE 0
  BY DEF Tick
<1>3. CASE ctl = "poll"
  <2>1. CallLeft = rounds + delay + 5 /\ CallLeft' = rounds + delay' + 5
    BY <1>2, <1>3 DEF CallLeft
  <2>2. rounds \in Nat
    BY <1>1, Rounds
  <2> HIDE DEF rounds
  <2> QED
    BY <1>1, <1>2, <2>1, <2>2
<1>4. CASE ctl # "poll"
  BY <1>1, <1>2, <1>4 DEF CallLeft, Controls
<1> QED
  BY <1>3, <1>4

LEMMA Advance ==
  ASSUME IInv, Pacing, Step, ctl \notin {"idle", "dead"}
  PROVE  /\ CallLeft \in 1 .. MostLeft
         /\ CallLeft' <= CallLeft
         /\ Returning \/ (Tick /\ ctl = "poll" /\ delay > 0) => CallLeft' < CallLeft
<1>1. CallLeft \in 1 .. MostLeft
  BY LeftBounded
<1>2. MostLeft \in Nat
  BY Rounds DEF MostLeft
<1>3. ASSUME UNCHANGED <<ctl, polls, delay>>
      PROVE  CallLeft' <= CallLeft
  <2>1. CallLeft' = CallLeft
    BY <1>3 DEF CallLeft
  <2> QED
    BY <1>1, <1>2, <2>1
<1>4. ASSUME Returning
      PROVE  CallLeft' <= CallLeft
  BY <1>4, CallLowers
<1>5. ASSUME Tick
      PROVE  CallLeft' <= CallLeft
  BY <1>5, TickLowers
<1>6. ASSUME \/ \E t \in Task : GuiTask(t)
             \/ \E c \in Client : Send(c)
      PROVE  CallLeft' <= CallLeft
  BY <1>3, <1>6 DEF GuiTask, LoopTest, Receive, Block, TimesOut, ClearHandle, DeleteSelf,
     Send, SendCall, SendRefused, SendQueued, SendWaits, SendTimesOut, SendDangles
<1>7. ~(InitFails \/ InitResources \/ StartCall \/ StopCall("stop") \/ StopCall("deinit"))
  BY DEF InitFails, InitResources, StartCall, StopCall
<1>8. CallLeft' <= CallLeft
  BY <1>3, <1>4, <1>5, <1>6, <1>7 DEF Step
<1> QED
  BY <1>1, <1>8, CallLowers, TickLowers

(* gui_init, gui_start, gui_stop and gui_deinit return after a number of steps *)
(* of their own and ticks of waiting that the number and the length of the    *)
(* polls of gui_stop bound, whatever the GUI task and the clients do.         *)
THEOREM CallsReturn == Spec => CallsAdvance
<1>1. Init => Pacing
  BY DEF Init, Pacing
<1>2. IInv /\ Pacing /\ [Next]_vars => Pacing'
  <2>1. CASE UNCHANGED vars
    BY <2>1 DEF vars, Pacing
  <2> QED
    BY <2>1, PacingKept DEF Next
<1>3. IInv /\ Pacing /\ [Next]_vars =>
        [ctl \notin {"idle", "dead"} =>
           /\ CallLeft \in 1 .. MostLeft
           /\ CallLeft' <= CallLeft
           /\ Returning \/ (Tick /\ ctl = "poll" /\ delay > 0) => CallLeft' < CallLeft]_vars
  BY Advance DEF Next
<1> QED
  BY <1>1, <1>2, <1>3, Invariant, PTL DEF Spec, CallsAdvance
=============================================================================
