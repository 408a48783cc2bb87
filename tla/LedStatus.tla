------------------------------ MODULE LedStatus ------------------------------
(***************************************************************************)
(* utils/src/led_status.c: one task owns the LED and calls led_status_init,*)
(* led_set_mode and led_status_deinit; the FreeRTOS timer task runs the    *)
(* callback of the blink timer.  xTimerStart, xTimerStop and xTimerDelete  *)
(* only post a command to the queue of the timer task, and post nothing    *)
(* when it is full.  The owner and the timer task preempt each other.      *)
(* The phase of the blink pattern (s_tick) is abstracted: what a blinking  *)
(* mode shows at a tick is on or off.                                      *)
(***************************************************************************)
EXTENDS Naturals, Sequences

CONSTANTS Pin,          \* GPIO numbers
          NC,           \* GPIO_NUM_NC
          QueueLength,  \* of the timer task's queue
          MaxTimers     \* bound of the model on the timers ever created

ASSUME LedConstants ==
  /\ NC \notin Pin
  /\ QueueLength \in Nat \ {0} /\ MaxTimers \in Nat

VARIABLES
  initialized, mode,      \* s_initialized, s_mode
  led_timer, led_pin,     \* s_led_timer, a timer or 0; s_led_pin
  level,                  \* level[p]: the level pin p was set to
  owner, show,            \* where the owner is; the level it is about to set
  timer, timers,          \* timer[t]: state of timer t; how many were created so far
  commands,               \* the queue of the timer task
  callback, on, pin,      \* where the callback is; its locals
  lost                    \* history: the timers whose delete was not posted

module == <<initialized, mode, led_timer, led_pin>>
task == <<owner, show>>
service == <<timer, timers, commands>>
locals == <<callback, on, pin>>
vars == <<module, level, task, service, locals, lost>>

Mode == {"IDLE", "SCANNING", "ATTACKING", "CAPTURING"}
Argument == Mode \cup {"invalid"}
Timer == 1 .. MaxTimers
Command == [op : {"start", "stop", "delete"}, timer : Timer] \cup {[op |-> "other"]}

\* led_level_for_mode: steady in one mode, blinking in the others.
Levels(m) == IF m = "ATTACKING" THEN {TRUE} ELSE BOOLEAN

Init ==
  /\ initialized = FALSE /\ mode = "IDLE" /\ led_timer = 0 /\ led_pin = NC
  /\ level = [p \in Pin |-> FALSE]
  /\ owner = "idle" /\ show = FALSE
  /\ timer = [t \in Timer |-> "none"] /\ timers = 0 /\ commands = <<>>
  /\ callback = "idle" /\ on = FALSE /\ pin = NC
  /\ lost = {}

\* xTimerStart, xTimerStop and xTimerDelete with a block time of 0.
Room == Len(commands) < QueueLength
Post(o) == commands' = Append(commands, [op |-> o, timer |-> led_timer])

\* led_apply_level: the owner is the only one to change what it tests.
Apply(l) ==
  level' = IF initialized /\ led_pin # NC THEN [level EXCEPT ![led_pin] = l] ELSE level

----------------------------------------------------------------------------
\* led_status_init, once gpio_config went through

InitPin(p) ==
  /\ owner = "idle" /\ ~initialized /\ timers < MaxTimers
  /\ led_pin' = p
  /\ owner' = "create"
  /\ UNCHANGED <<initialized, mode, led_timer, level, show, service, locals, lost>>

CreateOk ==
  /\ owner = "create"
  /\ timers' = timers + 1
  /\ timer' = [timer EXCEPT ![timers + 1] = "dormant"]
  /\ led_timer' = timers + 1
  /\ owner' = "start"
  /\ UNCHANGED <<initialized, mode, led_pin, level, show, commands, locals, lost>>

CreateFails ==
  /\ owner = "create"
  /\ led_pin' = NC
  /\ owner' = "idle"
  /\ UNCHANGED <<initialized, mode, led_timer, level, show, service, locals, lost>>

StartPosted ==
  /\ owner = "start" /\ Room
  /\ Post("start")
  /\ owner' = "publish"
  /\ UNCHANGED <<module, level, show, timer, timers, locals, lost>>

StartRefused ==
  /\ owner = "start" /\ ~Room
  /\ owner' = "undo"
  /\ UNCHANGED <<module, level, show, service, locals, lost>>

\* The delete is posted to the queue that was full: it may be lost too.
PostDelete ==
  IF Room THEN Post("delete") /\ UNCHANGED lost
          ELSE lost' = lost \cup {led_timer} /\ UNCHANGED commands

MutantUndoForgets ==
  /\ owner = "undo"
  /\ led_timer' = 0 /\ led_pin' = NC
  /\ owner' = "idle"
  /\ UNCHANGED <<initialized, mode, level, show, service, locals, lost>>
StartUndone ==
  /\ owner = "undo"
  /\ PostDelete
  /\ led_timer' = 0 /\ led_pin' = NC
  /\ owner' = "idle"
  /\ UNCHANGED <<initialized, mode, level, show, timer, timers, locals>>

InitPublishes ==
  /\ owner = "publish"
  /\ mode' = "IDLE" /\ initialized' = TRUE
  /\ owner' = "apply" /\ show' = FALSE
  /\ UNCHANGED <<led_timer, led_pin, level, service, locals, lost>>

----------------------------------------------------------------------------
\* led_set_mode

SetMode(m) ==
  /\ owner = "idle" /\ initialized /\ m \in Mode
  /\ mode' = m
  /\ show' \in Levels(m)
  /\ owner' = "apply"
  /\ UNCHANGED <<initialized, led_timer, led_pin, level, service, locals, lost>>

OwnerApplies ==
  /\ owner = "apply"
  /\ Apply(show)
  /\ owner' = "idle"
  /\ UNCHANGED <<module, show, service, locals, lost>>

----------------------------------------------------------------------------
\* led_status_deinit

MutantDeletesTwice ==
  /\ owner = "idle" /\ initialized
  /\ IF Room THEN Post("delete") ELSE UNCHANGED commands
  /\ owner' = "delete"
  /\ UNCHANGED <<module, level, show, timer, timers, locals, lost>>
DeinitStops ==
  /\ owner = "idle" /\ initialized
  /\ IF Room THEN Post("stop") ELSE UNCHANGED commands
  /\ owner' = "delete"
  /\ UNCHANGED <<module, level, show, timer, timers, locals, lost>>

DeinitDeletes ==
  /\ owner = "delete"
  /\ PostDelete
  /\ led_timer' = 0
  /\ owner' = "dark"
  /\ UNCHANGED <<initialized, mode, led_pin, level, show, timer, timers, locals>>

DeinitDarkens ==
  /\ owner = "dark"
  /\ Apply(FALSE)
  /\ owner' = "reset"
  /\ UNCHANGED <<module, show, service, locals, lost>>

DeinitResetsPin ==
  /\ owner = "reset"
  /\ led_pin' = NC
  /\ owner' = "clear"
  /\ UNCHANGED <<initialized, mode, led_timer, level, show, service, locals, lost>>

DeinitClears ==
  /\ owner = "clear"
  /\ initialized' = FALSE /\ mode' = "IDLE"
  /\ owner' = "idle"
  /\ UNCHANGED <<led_timer, led_pin, level, show, service, locals, lost>>

----------------------------------------------------------------------------
\* The timer task: commands in order, and callbacks of the timers that expire.

Handled(c) ==
  CASE c.op = "start"  -> [timer EXCEPT ![c.timer] = "active"]
    [] c.op = "stop"   -> [timer EXCEPT ![c.timer] = "dormant"]
    [] c.op = "delete" -> [timer EXCEPT ![c.timer] = "none"]
    [] OTHER           -> timer

HandleCommand ==
  /\ callback = "idle" /\ commands # <<>>
  /\ timer' = Handled(Head(commands))
  /\ commands' = Tail(commands)
  /\ UNCHANGED <<module, level, task, timers, locals, lost>>

\* The timer reloads itself (pdTRUE), and led_timer_cb begins.
MutantOneShot(t) ==
  /\ callback = "idle" /\ timer[t] = "active"
  /\ timer' = [timer EXCEPT ![t] = "dormant"]
  /\ callback' = IF initialized THEN "level" ELSE "idle"
  /\ UNCHANGED <<module, level, task, timers, commands, on, pin, lost>>
Expires(t) ==
  /\ callback = "idle" /\ timer[t] = "active"
  /\ callback' = IF initialized THEN "level" ELSE "idle"
  /\ UNCHANGED <<module, level, task, service, on, pin, lost>>

CallbackLevel ==
  /\ callback = "level"
  /\ on' \in Levels(mode)
  /\ callback' = "test"
  /\ UNCHANGED <<module, level, task, service, pin, lost>>

CallbackTests ==
  /\ callback = "test"
  /\ callback' = IF initialized /\ led_pin # NC THEN "set" ELSE "idle"
  /\ pin' = led_pin
  /\ UNCHANGED <<module, level, task, service, on, lost>>

\* s_led_pin is not volatile: the pin is the one that was tested or the one that
\* is read again.  gpio_set_level refuses GPIO_NUM_NC.
CallbackSets ==
  /\ callback = "set"
  /\ \E p \in {pin, led_pin} :
       level' = IF p # NC THEN [level EXCEPT ![p] = on] ELSE level
  /\ callback' = "idle"
  /\ UNCHANGED <<module, task, service, on, pin, lost>>

TimerTask ==
  \/ HandleCommand
  \/ \E t \in Timer : Expires(t)
  \/ CallbackLevel \/ CallbackTests \/ CallbackSets

\* Another user of software timers posts a command of its own.
OtherPosts ==
  /\ Room
  /\ commands' = Append(commands, [op |-> "other"])
  /\ UNCHANGED <<module, level, task, timer, timers, locals, lost>>

CallGoesOn ==
  \/ CreateOk \/ CreateFails \/ StartPosted \/ StartRefused \/ StartUndone \/ InitPublishes
  \/ OwnerApplies
  \/ DeinitDeletes \/ DeinitDarkens \/ DeinitResetsPin \/ DeinitClears

Next ==
  \/ \E p \in Pin : InitPin(p)
  \/ \E m \in Argument : SetMode(m)
  \/ DeinitStops
  \/ CallGoesOn
  \/ TimerTask
  \/ OtherPosts

Spec == Init /\ [][Next]_vars

\* A call that began goes on; the timer task gets to run its callbacks, commands
\* and expired timers, the expired ones also when commands keep coming.
Fairness ==
  /\ WF_vars(CallGoesOn)
  /\ WF_vars(HandleCommand)
  /\ WF_vars(CallbackLevel \/ CallbackTests \/ CallbackSets)
  /\ \A t \in Timer : SF_vars(Expires(t))
FairSpec == Spec /\ Fairness

----------------------------------------------------------------------------
\* Types.
TypeOK ==
  /\ initialized \in BOOLEAN /\ mode \in Mode
  /\ led_timer \in 0 .. timers /\ led_pin \in Pin \cup {NC}
  /\ level \in [Pin -> BOOLEAN]
  /\ owner \in {"idle", "create", "start", "undo", "publish", "apply",
                "delete", "dark", "reset", "clear"}
  /\ show \in BOOLEAN
  /\ timer \in [Timer -> {"none", "dormant", "active"}] /\ timers \in 0 .. MaxTimers
  /\ commands \in Seq(Command) /\ Len(commands) <= QueueLength
  /\ callback \in {"idle", "level", "test", "set"} /\ on \in BOOLEAN /\ pin \in Pin \cup {NC}
  /\ lost \subseteq 1 .. timers

\* The timers there are to stay: no delete of theirs is on the way.
Standing ==
  {t \in Timer : /\ timer[t] # "none"
                 /\ \A i \in DOMAIN commands : commands[i] # [op |-> "delete", timer |-> t]}

\* Between the owner's calls the LED is there altogether or not at all: a finished
\* led_status_init leaves the handle, the pin and a timer, a failed one and
\* led_status_deinit leave none of them.  Only a timer whose delete met a full
\* queue stays, be it in the deinit or in the undo of a start that was refused
\* because of that very queue (led_status.c:83, 102), and it has no handle.
LedAllOrNothing ==
  owner = "idle" =>
    /\ initialized <=> led_timer # 0
    /\ initialized <=> led_pin # NC
    /\ Standing \ lost = IF initialized THEN {led_timer} ELSE {}

\* The timer task never meets a command for a timer it has deleted, whatever calls
\* of the owner are waiting in the queue: nothing is posted behind a delete.
NoUseAfterDelete ==
  \A i \in DOMAIN commands :
    commands[i].op # "other" =>
      /\ timer[commands[i].timer] # "none"
      /\ commands[i].op = "delete" =>
           \A j \in DOMAIN commands :
             j > i /\ commands[j].op # "other" => commands[j].timer # commands[i].timer

\* A timer whose delete was posted is the owner's or has that delete on the way,
\* and of those at most one blinks: that of the owner, or one that was given up and
\* that the next one cannot overtake.  A delete that met a full queue costs its own
\* timer and no other.
OneBlinker ==
  /\ Standing \subseteq lost \cup {led_timer}
  /\ \A t, u \in Timer \ lost : timer[t] = "active" /\ timer[u] = "active" => t = u

\* The LED ends up showing the mode: a callback that preempted led_set_mode, or was
\* preempted by it, with the level of the old mode is made good by a later one.
AttackShown ==
  \A p \in Pin :
    <>[](initialized /\ owner = "idle" /\ mode = "ATTACKING" /\ led_pin = p) => <>[]level[p]
=============================================================================
