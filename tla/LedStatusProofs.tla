-------------------------- MODULE LedStatusProofs ---------------------------
(***************************************************************************)
(* What LedStatus.tla promises for every pin, every queue length and every *)
(* number of timers.  The commands of the owner wait in the queue while it *)
(* goes on, so what the timer task will meet is a fact about the queue:    *)
(* nothing follows a delete of the same timer, the timer the owner holds   *)
(* is not about to be deleted, and between the starts of two timers there  *)
(* is the delete of the first, unless that delete met a full queue.        *)
(***************************************************************************)
EXTENDS LedStatus, TLAPS

USE LedConstants

Is(i, o, t) == commands[i].op = o /\ commands[i].timer = t
Deletes(t) == \E i \in DOMAIN commands : Is(i, "delete", t)

(* What the owner has at each of its steps.                                 *)
Before == {"start", "undo", "publish"}
With == {"apply", "delete"}
After == {"dark", "reset"}
OwnerState ==
  /\ owner = "idle" => /\ initialized <=> led_timer # 0
                       /\ initialized <=> led_pin # NC
  /\ owner = "create" => ~initialized /\ led_timer = 0 /\ led_pin # NC /\ timers < MaxTimers
  /\ owner \in Before => ~initialized /\ led_timer # 0 /\ led_pin # NC
  /\ owner \in With => initialized /\ led_timer # 0 /\ led_pin # NC
  /\ owner \in After => initialized /\ led_timer = 0 /\ led_pin # NC
  /\ owner = "clear" => initialized /\ led_timer = 0 /\ led_pin = NC

(* The timer the owner holds exists, and no delete of it is on the way or   *)
(* was lost.                                                                *)
HandleLive ==
  led_timer # 0 => timer[led_timer] # "none" /\ ~Deletes(led_timer) /\ led_timer \notin lost

TimersBelow == \A t \in Timer : timer[t] # "none" => t <= timers

(* A new timer is unknown to the timer task until its start is posted.      *)
NotStarted ==
  owner \in {"start", "undo"} =>
    \A i \in DOMAIN commands : commands[i].op # "other" => commands[i].timer # led_timer

GivenUp == \A t \in Timer \ lost : timer[t] # "none" => t = led_timer \/ Deletes(t)

(* By the time a start is handled every other timer that ran is deleted, or *)
(* was to stay behind.                                                      *)
StartsAlone ==
  \A i \in DOMAIN commands :
    commands[i].op = "start" =>
      /\ \A u \in Timer \ lost : timer[u] = "active" /\ u # commands[i].timer =>
           \E j \in 1 .. i - 1 : Is(j, "delete", u)
      /\ \A j \in 1 .. i - 1 : commands[j].op = "start" /\ commands[j].timer \notin lost =>
           \E k \in j + 1 .. i - 1 : Is(k, "delete", commands[j].timer)

OneActive == \A t, u \in Timer \ lost : timer[t] = "active" /\ timer[u] = "active" => t = u

QueueInv == HandleLive /\ TimersBelow /\ NoUseAfterDelete /\ GivenUp /\ StartsAlone /\ OneActive

IInv == TypeOK /\ OwnerState /\ NotStarted /\ QueueInv

LEMMA Initially == Init => IInv
<1> SUFFICES ASSUME Init
             PROVE  IInv
  OBVIOUS
<1>1. /\ initialized = FALSE /\ led_timer = 0 /\ led_pin = NC /\ owner = "idle"
      /\ timer = [t \in Timer |-> "none"] /\ timers = 0 /\ commands = <<>> /\ lost = {}
  BY DEF Init
<1>2. TypeOK
  <2>1. /\ commands \in Seq(Command) /\ Len(commands) = 0
        /\ timers \in 0 .. MaxTimers /\ led_timer \in 0 .. timers
        /\ level \in [Pin -> BOOLEAN] /\ timer \in [Timer -> {"none", "dormant", "active"}]
    BY DEF Init
  <2>2. mode \in Mode
    BY DEF Init, Mode
  <2>3. /\ initialized \in BOOLEAN /\ show \in BOOLEAN /\ on \in BOOLEAN /\ lost \subseteq 1 .. timers
        /\ led_pin \in Pin \cup {NC} /\ pin \in Pin \cup {NC}
        /\ owner = "idle" /\ callback = "idle"
    BY DEF Init
  <2> QED
    BY <2>1, <2>2, <2>3 DEF TypeOK
<1>3. OwnerState
  BY <1>1 DEF OwnerState, Before, With, After
<1>4. NotStarted
  BY <1>1 DEF NotStarted
<1>5. DOMAIN commands = {}
  BY <1>1
<1>6. QueueInv
  BY <1>1, <1>5 DEF QueueInv, HandleLive, TimersBelow, NoUseAfterDelete, GivenUp, StartsAlone,
                    OneActive
<1> QED
  BY <1>2, <1>3, <1>4, <1>6 DEF IInv

----------------------------------------------------------------------------
(* What is in the queue after a post, and after the timer task took the     *)
(* first command.                                                           *)

LEMMA Appended ==
  ASSUME commands \in Seq(Command), NEW c \in Command, commands' = Append(commands, c)
  PROVE  /\ commands' \in Seq(Command)
         /\ Len(commands) \in Nat /\ Len(commands') = Len(commands) + 1
         /\ DOMAIN commands = 1 .. Len(commands) /\ DOMAIN commands' = 1 .. Len(commands) + 1
         /\ \A i \in 1 .. Len(commands) : commands'[i] = commands[i]
         /\ commands'[Len(commands) + 1] = c
  OBVIOUS

LEMMA Taken ==
  ASSUME commands \in Seq(Command), commands # <<>>, commands' = Tail(commands)
  PROVE  /\ commands' \in Seq(Command)
         /\ Len(commands) \in Nat \ {0} /\ Len(commands') = Len(commands) - 1
         /\ DOMAIN commands = 1 .. Len(commands) /\ DOMAIN commands' = 1 .. Len(commands) - 1
         /\ \A i \in 1 .. Len(commands) - 1 : commands'[i] = commands[i + 1]
         /\ Head(commands) = commands[1] /\ commands[1] \in Command
  OBVIOUS

LEMMA CommandKinds ==
  ASSUME NEW c \in Command
  PROVE  /\ c.op \in {"start", "stop", "delete", "other"}
         /\ c.op # "other" => c.timer \in Timer /\ c = [op |-> c.op, timer |-> c.timer]
<1>1. CASE c \in [op : {"start", "stop", "delete"}, timer : Timer]
  BY <1>1
<1>2. CASE c = [op |-> "other"]
  BY <1>2
<1> QED
  BY <1>1, <1>2 DEF Command

(* A step that neither touches the timers nor the queue nor the handle.     *)
LEMMA QueueKept ==
  ASSUME QueueInv, UNCHANGED <<led_timer, timer, timers, commands, lost>>
  PROVE  QueueInv'
  BY DEF QueueInv, HandleLive, TimersBelow, NoUseAfterDelete, GivenUp, StartsAlone, OneActive,
         Deletes, Is

(* A command that is not a start, posted by another user or for the timer   *)
(* the owner holds: the facts about the queue extend to it, and a delete    *)
(* goes with the handle.                                                    *)
LEMMA Posted ==
  ASSUME TypeOK, QueueInv, NEW c \in Command, commands' = Append(commands, c),
         UNCHANGED <<timer, timers, lost>>,
         \/ c.op = "other" /\ led_timer' = led_timer
         \/ c.op = "stop" /\ c.timer = led_timer /\ led_timer # 0 /\ led_timer' = led_timer
         \/ c.op = "delete" /\ c.timer = led_timer /\ led_timer # 0 /\ led_timer' = 0
         \/ /\ c.op = "start" /\ c.timer = led_timer /\ led_timer # 0 /\ led_timer' = led_timer
            /\ \A i \in DOMAIN commands : commands[i].op # "other" => commands[i].timer # led_timer
  PROVE  QueueInv'
<1> DEFINE n == Len(commands)
<1>1. /\ n \in Nat /\ DOMAIN commands = 1 .. n /\ DOMAIN commands' = 1 .. n + 1
      /\ \A i \in 1 .. n : commands'[i] = commands[i]
      /\ commands'[n + 1] = c
  BY Appended DEF TypeOK
<1>2. \A t : Deletes(t)' <=> Deletes(t) \/ (c.op = "delete" /\ c.timer = t)
  BY <1>1 DEF Deletes, Is
<1>3. HandleLive'
  BY <1>2 DEF QueueInv, HandleLive
<1>4. TimersBelow'
  BY DEF QueueInv, TimersBelow
<1>5. NoUseAfterDelete'
  <2> SUFFICES ASSUME NEW i \in 1 .. n + 1, commands'[i].op # "other"
               PROVE  /\ timer[commands'[i].timer] # "none"
                      /\ commands'[i].op = "delete" =>
                           \A j \in 1 .. n + 1 :
                             j > i /\ commands'[j].op # "other" =>
                               commands'[j].timer # commands'[i].timer
    BY <1>1 DEF NoUseAfterDelete
  <2>1. CASE i = n + 1
    BY <2>1, <1>1 DEF QueueInv, HandleLive
  <2>2. CASE i \in 1 .. n
    <3>1. /\ timer[commands[i].timer] # "none" /\ commands'[i] = commands[i]
          /\ commands[i].op = "delete" =>
               \A j \in 1 .. n : j > i /\ commands[j].op # "other" =>
                                   commands[j].timer # commands[i].timer
      BY <2>2, <1>1 DEF QueueInv, NoUseAfterDelete
    <3>2. commands[i].op = "delete" /\ c.op # "other" => c.timer # commands[i].timer
      BY <2>2, <1>1 DEF QueueInv, HandleLive, Deletes, Is
    <3> QED
      BY <3>1, <3>2, <1>1
  <2> QED
    BY <2>1, <2>2
<1>6. GivenUp'
  <2> SUFFICES ASSUME NEW t \in Timer \ lost, timer[t] # "none"
               PROVE  t = led_timer' \/ Deletes(t)'
    BY DEF GivenUp
  <2> QED
    BY <1>2 DEF QueueInv, GivenUp
<1>7. StartsAlone'
  <2> SUFFICES ASSUME NEW i \in 1 .. n + 1, commands'[i].op = "start"
               PROVE  /\ \A u \in Timer \ lost : timer[u] = "active" /\ u # commands'[i].timer =>
                           \E j \in 1 .. i - 1 : Is(j, "delete", u)'
                      /\ \A j \in 1 .. i - 1 :
                           commands'[j].op = "start" /\ commands'[j].timer \notin lost =>
                           \E k \in j + 1 .. i - 1 : Is(k, "delete", commands[j].timer)'
    BY <1>1 DEF StartsAlone
  <2>1. CASE i \in 1 .. n
    <3>1. \A j \in 1 .. i - 1 : commands'[j] = commands[j]
      BY <2>1, <1>1
    <3>2. commands'[i] = commands[i]
      BY <2>1, <1>1
    <3> QED
      BY <2>1, <1>1, <3>1, <3>2 DEF QueueInv, StartsAlone, Is
  <2>2. CASE i = n + 1
    <3>1. c.timer = led_timer /\ c.op = "start"
      BY <2>2, <1>1
    <3>2. ASSUME NEW u \in Timer \ lost, timer[u] = "active", u # led_timer
          PROVE  \E j \in 1 .. n : Is(j, "delete", u)'
      <4>1. Deletes(u)
        BY <3>2 DEF QueueInv, GivenUp
      <4> QED
        BY <4>1, <1>1 DEF Deletes, Is
    <3>3. ASSUME NEW j \in 1 .. n, commands[j].op = "start", commands[j].timer \notin lost
          PROVE  \E k \in j + 1 .. n : Is(k, "delete", commands[j].timer)'
      <4>1. commands[j] \in Command
        BY <1>1 DEF TypeOK
      <4>2. commands[j].timer \in Timer /\ commands[j].timer # led_timer
        BY <4>1, <3>1, <3>3, <1>1, CommandKinds
      <4>3. timer[commands[j].timer] # "none"
        BY <3>3, <1>1 DEF QueueInv, NoUseAfterDelete
      <4>4. Deletes(commands[j].timer)
        BY <3>3, <4>2, <4>3 DEF QueueInv, GivenUp
      <4>5. PICK k \in 1 .. n : Is(k, "delete", commands[j].timer)
        BY <4>4, <1>1 DEF Deletes
      <4>6. k # j /\ ~(j > k)
        BY <4>5, <3>3, <1>1 DEF Is, QueueInv, NoUseAfterDelete
      <4>7. k \in j + 1 .. n
        BY <4>6
      <4> QED
        BY <4>7, <4>5, <1>1 DEF Is
    <3>4. \A j \in 1 .. n : commands'[j] = commands[j]
      BY <1>1
    <3>5. i - 1 = n /\ commands'[i].timer = led_timer
      BY <2>2, <1>1, <3>1
    <3> QED
      BY <3>2, <3>3, <3>4, <3>5
  <2> QED
    BY <2>1, <2>2
<1>8. OneActive'
  BY DEF QueueInv, OneActive
<1> QED
  BY <1>3, <1>4, <1>5, <1>6, <1>7, <1>8 DEF QueueInv

(* The timer task takes the first command.                                  *)
LEMMA CommandHandled ==
  ASSUME TypeOK, QueueInv, HandleCommand
  PROVE  QueueInv' /\ timer' \in [Timer -> {"none", "dormant", "active"}]
<1> DEFINE n == Len(commands)
           c == commands[1]
           t == c.timer
<1>1. /\ n \in Nat \ {0} /\ DOMAIN commands = 1 .. n /\ DOMAIN commands' = 1 .. n - 1
      /\ \A i \in 1 .. n - 1 : commands'[i] = commands[i + 1]
      /\ Head(commands) = c /\ c \in Command
  BY Taken DEF TypeOK, HandleCommand
<1>2. UNCHANGED <<led_timer, timers, lost>> /\ timer' = Handled(c)
  BY <1>1 DEF HandleCommand, module
<1>3. timer \in [Timer -> {"none", "dormant", "active"}]
  BY DEF TypeOK
<1>4. c.op # "other" => t \in Timer /\ timer[t] # "none"
  BY <1>1, CommandKinds DEF QueueInv, NoUseAfterDelete
<1>5. \/ c.op = "other" /\ timer' = timer
      \/ c.op = "start" /\ timer' = [timer EXCEPT ![t] = "active"]
      \/ c.op = "stop" /\ timer' = [timer EXCEPT ![t] = "dormant"]
      \/ c.op = "delete" /\ timer' = [timer EXCEPT ![t] = "none"]
  BY <1>1, <1>2, CommandKinds DEF Handled
<1>6. timer' \in [Timer -> {"none", "dormant", "active"}]
  BY <1>3, <1>5
<1>7. \A u \in Timer :
        /\ timer'[u] = "none" <=> timer[u] = "none" \/ (c.op = "delete" /\ u = t)
        /\ timer'[u] = "active" => timer[u] = "active" \/ (c.op = "start" /\ u = t)
        /\ timer'[u] = "active" => ~(c.op = "delete" /\ u = t)
  BY <1>3, <1>4, <1>5
<1>8. \A u : Deletes(u) <=> Deletes(u)' \/ (c.op = "delete" /\ u = t)
  <2> SUFFICES ASSUME NEW u
               PROVE  Deletes(u) <=> Deletes(u)' \/ (c.op = "delete" /\ u = t)
    OBVIOUS
  <2>1. ASSUME Deletes(u)
        PROVE  Deletes(u)' \/ (c.op = "delete" /\ u = t)
    <3>1. PICK i \in 1 .. n : Is(i, "delete", u)
      BY <2>1, <1>1 DEF Deletes
    <3>2. CASE i = 1
      BY <3>1, <3>2 DEF Is
    <3>3. CASE i # 1
      <4>1. i - 1 \in 1 .. n - 1 /\ commands'[i - 1] = commands[i]
        BY <3>3, <1>1
      <4> QED
        BY <4>1, <3>1, <1>1 DEF Deletes, Is
    <3> QED
      BY <3>2, <3>3
  <2>2. ASSUME Deletes(u)'
        PROVE  Deletes(u)
    <3>1. PICK i \in 1 .. n - 1 : Is(i, "delete", u)'
      BY <2>2, <1>1 DEF Deletes
    <3>2. i + 1 \in 1 .. n /\ commands'[i] = commands[i + 1]
      BY <1>1
    <3> QED
      BY <3>1, <3>2, <1>1 DEF Deletes, Is
  <2>3. ASSUME c.op = "delete" /\ u = t
        PROVE  Deletes(u)
    BY <2>3, <1>1 DEF Deletes, Is
  <2> QED
    BY <2>1, <2>2, <2>3
<1>9. HandleLive'
  <2> SUFFICES ASSUME led_timer # 0
               PROVE  timer'[led_timer] # "none" /\ ~Deletes(led_timer)' /\ led_timer \notin lost
    BY <1>2 DEF HandleLive
  <2>1. timer[led_timer] # "none" /\ ~Deletes(led_timer) /\ led_timer \notin lost
    BY DEF QueueInv, HandleLive
  <2>2. led_timer \in Timer
    BY DEF TypeOK, Timer
  <2> QED
    BY <2>1, <2>2, <1>2, <1>7, <1>8
<1>10. TimersBelow'
  BY <1>2, <1>7 DEF QueueInv, TimersBelow
<1>11. NoUseAfterDelete'
  <2> SUFFICES ASSUME NEW i \in 1 .. n - 1, commands'[i].op # "other"
               PROVE  /\ timer'[commands'[i].timer] # "none"
                      /\ commands'[i].op = "delete" =>
                           \A j \in 1 .. n - 1 :
                             j > i /\ commands'[j].op # "other" =>
                               commands'[j].timer # commands'[i].timer
    BY <1>1 DEF NoUseAfterDelete
  <2>1. /\ i + 1 \in 1 .. n /\ i + 1 > 1 /\ commands'[i] = commands[i + 1]
        /\ commands[i + 1] \in Command
    BY <1>1 DEF TypeOK
  <2>2. commands[i + 1].timer \in Timer
    BY <2>1, CommandKinds
  <2>3. timer[commands[i + 1].timer] # "none"
    BY <2>1, <1>1 DEF QueueInv, NoUseAfterDelete
  <2>4. c.op = "delete" => commands[i + 1].timer # t
    BY <2>1, <1>1 DEF QueueInv, NoUseAfterDelete
  <2>5. timer'[commands'[i].timer] # "none"
    BY <2>1, <2>2, <2>3, <2>4, <1>7
  <2>6. ASSUME commands'[i].op = "delete", NEW j \in 1 .. n - 1, j > i, commands'[j].op # "other"
        PROVE  commands'[j].timer # commands'[i].timer
    <3>1. j + 1 \in 1 .. n /\ j + 1 > i + 1 /\ commands'[j] = commands[j + 1]
      BY <2>6, <1>1
    <3> QED
      BY <2>6, <3>1, <2>1, <1>1 DEF QueueInv, NoUseAfterDelete
  <2> QED
    BY <2>5, <2>6
<1>12. GivenUp'
  <2> SUFFICES ASSUME NEW u \in Timer \ lost, timer'[u] # "none"
               PROVE  u = led_timer \/ Deletes(u)'
    BY <1>2 DEF GivenUp
  <2> QED
    BY <1>7, <1>8 DEF QueueInv, GivenUp
<1>13. StartsAlone'
  <2> SUFFICES ASSUME NEW i \in 1 .. n - 1, commands'[i].op = "start"
               PROVE  /\ \A u \in Timer \ lost : timer'[u] = "active" /\ u # commands'[i].timer =>
                           \E j \in 1 .. i - 1 : Is(j, "delete", u)'
                      /\ \A j \in 1 .. i - 1 :
                           commands'[j].op = "start" /\ commands'[j].timer \notin lost =>
                           \E k \in j + 1 .. i - 1 : Is(k, "delete", commands[j].timer)'
    BY <1>1, <1>2 DEF StartsAlone
  <2>1. /\ i + 1 \in 1 .. n /\ commands'[i] = commands[i + 1]
        /\ commands[i + 1].op = "start"
    BY <1>1
  <2>2. \A k \in 1 .. i - 1 : commands'[k] = commands[k + 1]
    BY <1>1
  <2>3. ASSUME NEW u \in Timer \ lost, timer'[u] = "active", u # commands[i + 1].timer
        PROVE  \E j \in 2 .. i : Is(j, "delete", u)
    <3>1. CASE timer[u] = "active"
      <4>1. PICK j \in 1 .. i : Is(j, "delete", u)
        BY <2>1, <2>3, <3>1, <1>1 DEF QueueInv, StartsAlone
      <4>2. j # 1
        BY <4>1, <1>7, <2>3 DEF Is
      <4> QED
        BY <4>1, <4>2
    <3>2. CASE c.op = "start" /\ u = t
      BY <3>2, <2>1, <1>1 DEF QueueInv, StartsAlone
    <3> QED
      BY <3>1, <3>2, <2>3, <1>7
  <2>4. ASSUME NEW j \in 1 .. i - 1, commands'[j].op = "start", commands'[j].timer \notin lost
        PROVE  \E k \in j + 2 .. i : Is(k, "delete", commands[j + 1].timer)
    <3>1. /\ j + 1 \in 1 .. (i + 1) - 1
          /\ commands[j + 1].op = "start" /\ commands[j + 1].timer \notin lost
      BY <2>4, <2>2
    <3> QED
      BY <3>1, <2>1, <1>1 DEF QueueInv, StartsAlone
  <2>5. \A j \in 2 .. i : j - 1 \in 1 .. i - 1 /\ commands'[j - 1] = commands[j]
    BY <2>2
  <2>6. ASSUME NEW u, \E j \in 2 .. i : Is(j, "delete", u)
        PROVE  \E j \in 1 .. i - 1 : commands'[j].op = "delete" /\ commands'[j].timer = u
    BY <2>5, <2>6 DEF Is
  <2>7. ASSUME NEW j \in 1 .. i - 1, NEW u, \E k \in j + 2 .. i : Is(k, "delete", u)
        PROVE  \E k \in j + 1 .. i - 1 : commands'[k].op = "delete" /\ commands'[k].timer = u
    <3>1. PICK k \in j + 2 .. i : Is(k, "delete", u)
      BY <2>7
    <3>2. k - 1 \in j + 1 .. i - 1 /\ commands'[k - 1] = commands[k]
      BY <2>5
    <3> QED
      BY <3>1, <3>2 DEF Is
  <2>8. \A u \in Timer \ lost : timer'[u] = "active" /\ u # commands'[i].timer =>
          \E j \in 1 .. i - 1 : Is(j, "delete", u)'
    BY <2>1, <2>3, <2>6 DEF Is
  <2>9. \A j \in 1 .. i - 1 : commands'[j].op = "start" /\ commands'[j].timer \notin lost =>
          \E k \in j + 1 .. i - 1 : Is(k, "delete", commands[j].timer)'
    <3> SUFFICES ASSUME NEW j \in 1 .. i - 1, commands'[j].op = "start",
                        commands'[j].timer \notin lost
                 PROVE  \E k \in j + 1 .. i - 1 : Is(k, "delete", commands[j].timer)'
      OBVIOUS
    <3>1. \E k \in j + 1 .. i - 1 :
             commands'[k].op = "delete" /\ commands'[k].timer = commands[j + 1].timer
      BY <2>4, <2>7, ZenonT(30)
    <3>2. commands'[j].timer = commands[j + 1].timer
      BY <2>2
    <3> QED
      BY <3>1, <3>2 DEF Is
  <2> QED
    BY <2>8, <2>9
<1>14. OneActive'
  <2> SUFFICES ASSUME NEW u \in Timer \ lost, NEW v \in Timer \ lost,
                      timer'[u] = "active", timer'[v] = "active"
               PROVE  u = v
    BY <1>2 DEF OneActive
  <2>1. c.op = "start" => \A w \in Timer \ lost : timer[w] = "active" => w = t
    BY <1>1 DEF QueueInv, StartsAlone
  <2> QED
    BY <2>1, <1>7 DEF QueueInv, OneActive
<1> QED
  BY <1>6, <1>9, <1>10, <1>11, <1>12, <1>13, <1>14 DEF QueueInv

(* xTimerCreate: the new timer is in nobody's command.                      *)
LEMMA TimerCreated ==
  ASSUME TypeOK, OwnerState, QueueInv, CreateOk
  PROVE  QueueInv' /\ NotStarted' /\ TypeOK' /\ OwnerState'
<1> DEFINE new == timers + 1
<1>1. /\ timers \in 0 .. MaxTimers /\ timers < MaxTimers /\ led_timer = 0
      /\ ~initialized /\ led_pin # NC
  BY DEF TypeOK, OwnerState, CreateOk
<1>2. /\ timers' = new /\ led_timer' = new /\ timer' = [timer EXCEPT ![new] = "dormant"]
      /\ owner' = "start"
      /\ UNCHANGED <<initialized, mode, led_pin, level, show, commands, callback, on, pin, lost>>
  BY DEF CreateOk, locals
<1>3. /\ new \in Timer /\ new # 0 /\ new \in 0 .. MaxTimers /\ new \in 0 .. new
      /\ new \notin lost /\ lost \subseteq 1 .. new
  BY <1>1 DEF Timer, TypeOK
<1>4. timer \in [Timer -> {"none", "dormant", "active"}] /\ commands \in Seq(Command)
  BY DEF TypeOK
<1>5. timer' \in [Timer -> {"none", "dormant", "active"}]
  BY <1>2, <1>4
<1>6. timer[new] = "none"
  BY <1>1, <1>3 DEF QueueInv, TimersBelow
<1>7. \A u \in Timer : /\ u # new => timer'[u] = timer[u]
                      /\ timer'[new] = "dormant"
  BY <1>2, <1>3, <1>4
<1>8. \A i \in DOMAIN commands :
        commands[i].op # "other" => commands[i].timer \in Timer /\ commands[i].timer # new
                                    /\ timer[commands[i].timer] # "none"
  <2> SUFFICES ASSUME NEW i \in DOMAIN commands, commands[i].op # "other"
               PROVE  /\ commands[i].timer \in Timer /\ commands[i].timer # new
                      /\ timer[commands[i].timer] # "none"
    OBVIOUS
  <2>1. commands[i] \in Command
    BY <1>4
  <2>2. timer[commands[i].timer] # "none"
    BY DEF QueueInv, NoUseAfterDelete
  <2> QED
    BY <2>1, <2>2, <1>6, CommandKinds
<1>9. \A u : Deletes(u)' <=> Deletes(u)
  BY <1>2 DEF Deletes, Is
<1>10. ~Deletes(new)
  BY <1>8 DEF Deletes, Is
<1>11. HandleLive' /\ NotStarted'
  <2>1. timer'[led_timer'] # "none"
    BY <1>2, <1>3, <1>7
  <2>2. ~Deletes(led_timer)'
    BY <1>2, <1>9, <1>10
  <2> QED
    BY <2>1, <2>2, <1>2, <1>3, <1>8 DEF HandleLive, NotStarted
<1>12. TimersBelow'
  <2>1. \A u \in Timer : u \in Nat
    BY DEF Timer
  <2> QED
    BY <1>1, <1>2, <1>7, <2>1 DEF QueueInv, TimersBelow
<1>13. NoUseAfterDelete'
  BY <1>2, <1>7, <1>8 DEF QueueInv, NoUseAfterDelete
<1>14. GivenUp'
  BY <1>1, <1>2, <1>7, <1>9 DEF QueueInv, GivenUp, Timer
<1>15. StartsAlone'
  BY <1>2, <1>7 DEF QueueInv, StartsAlone, Is
<1>16. OneActive'
  BY <1>2, <1>7 DEF QueueInv, OneActive
<1>17. TypeOK'
  BY <1>2, <1>3, <1>5 DEF TypeOK
<1>18. OwnerState'
  BY <1>1, <1>2, <1>3 DEF OwnerState, Before, With, After
<1> QED
  BY <1>11, <1>12, <1>13, <1>14, <1>15, <1>16, <1>17, <1>18 DEF QueueInv

(* A post that found room.                                                  *)
LEMMA PostTypes ==
  ASSUME TypeOK, NEW c \in Command, Room, commands' = Append(commands, c)
  PROVE  commands' \in Seq(Command) /\ Len(commands') <= QueueLength
  BY Appended DEF TypeOK, Room

LEMMA OwnCommand ==
  ASSUME TypeOK, led_timer # 0, NEW o \in {"start", "stop", "delete"}
  PROVE  [op |-> o, timer |-> led_timer] \in Command
<1>1. led_timer \in Timer
  BY DEF TypeOK, Timer
<1> QED
  BY <1>1 DEF Command

(* xTimerDelete gives the handle up, and its loss is recorded.              *)
LEMMA DeletePosted ==
  ASSUME TypeOK, QueueInv, led_timer # 0, PostDelete, led_timer' = 0, UNCHANGED <<timer, timers>>
  PROVE  QueueInv' /\ commands' \in Seq(Command) /\ Len(commands') <= QueueLength
         /\ lost' \subseteq 1 .. timers
<1>1. CASE Room
  <2>1. [op |-> "delete", timer |-> led_timer] \in Command
    BY OwnCommand
  <2>2. commands' = Append(commands, [op |-> "delete", timer |-> led_timer]) /\ lost' = lost
    BY <1>1 DEF PostDelete, Post
  <2>3. QueueInv'
    BY <2>1, <2>2, Posted
  <2> QED
    BY <1>1, <2>1, <2>2, <2>3, PostTypes DEF TypeOK
<1>2. CASE ~Room
  <2>1. lost' = lost \cup {led_timer} /\ commands' = commands
    BY <1>2 DEF PostDelete
  <2>2. lost' \subseteq 1 .. timers
    BY <2>1 DEF TypeOK
  <2>3. \A t \in Timer \ lost' : t \in Timer \ lost /\ t # led_timer
    BY <2>1
  <2>4. /\ HandleLive' /\ TimersBelow' /\ NoUseAfterDelete' /\ OneActive'
        /\ \A t : Deletes(t)' <=> Deletes(t)
    BY <2>1 DEF QueueInv, HandleLive, TimersBelow, NoUseAfterDelete, OneActive, Deletes, Is
  <2>5. GivenUp'
    BY <2>3, <2>4 DEF QueueInv, GivenUp
  <2>6. StartsAlone'
    BY <2>1 DEF QueueInv, StartsAlone, Is
  <2> QED
    BY <2>1, <2>2, <2>4, <2>5, <2>6 DEF QueueInv, TypeOK
<1> QED
  BY <1>1, <1>2

(* Pins that are set are pins.                                              *)
LEMMA Applied ==
  ASSUME TypeOK, NEW l \in BOOLEAN, Apply(l)
  PROVE  level' \in [Pin -> BOOLEAN]
  BY DEF TypeOK, Apply

LEMMA InitSteps ==
  ASSUME IInv, \/ \E p \in Pin : InitPin(p)
               \/ CreateOk \/ CreateFails \/ StartPosted \/ StartRefused \/ StartUndone
               \/ InitPublishes
  PROVE  IInv'
<1> USE DEF OwnerState, Before, With, After
<1>1. ASSUME NEW p \in Pin, InitPin(p)
      PROVE  IInv'
  <2>1. QueueInv'
    BY <1>1, QueueKept DEF InitPin, service, IInv
  <2>2. TypeOK'
    BY <1>1 DEF InitPin, service, locals, IInv, TypeOK
  <2> QED
    BY <1>1, <2>1, <2>2 DEF InitPin, service, IInv, TypeOK, NotStarted
<1>2. CASE CreateOk
  BY <1>2, TimerCreated DEF IInv
<1>3. CASE CreateFails
  <2>1. QueueInv'
    BY <1>3, QueueKept DEF CreateFails, service, IInv
  <2>2. TypeOK'
    BY <1>3 DEF CreateFails, service, locals, IInv, TypeOK
  <2> QED
    BY <1>3, <2>1, <2>2 DEF CreateFails, IInv, NotStarted
<1>4. CASE StartPosted
  <2>1. /\ led_timer # 0 /\ owner = "start" /\ owner' = "publish" /\ Room
        /\ commands' = Append(commands, [op |-> "start", timer |-> led_timer])
        /\ UNCHANGED <<initialized, mode, led_timer, led_pin, level, show, timer, timers,
                       callback, on, pin, lost>>
    BY <1>4 DEF StartPosted, Post, module, locals, IInv
  <2>2. [op |-> "start", timer |-> led_timer] \in Command
    BY <2>1, OwnCommand DEF IInv
  <2>3. QueueInv'
    BY <2>1, <2>2, Posted DEF IInv, NotStarted
  <2>4. commands' \in Seq(Command) /\ Len(commands') <= QueueLength
    BY <2>1, <2>2, PostTypes DEF IInv
  <2>5. TypeOK'
    BY <2>1, <2>4 DEF IInv, TypeOK
  <2> QED
    BY <2>1, <2>3, <2>5 DEF IInv, NotStarted
<1>5. CASE StartRefused
  <2>1. QueueInv'
    BY <1>5, QueueKept DEF StartRefused, module, service, IInv
  <2>2. TypeOK'
    BY <1>5 DEF StartRefused, module, service, locals, IInv, TypeOK
  <2> QED
    BY <1>5, <2>1, <2>2 DEF StartRefused, module, service, IInv, NotStarted
<1>6. CASE StartUndone
  <2>1. /\ led_timer # 0 /\ owner = "undo" /\ owner' = "idle" /\ PostDelete
        /\ led_timer' = 0 /\ led_pin' = NC
        /\ UNCHANGED <<initialized, mode, level, show, timer, timers, callback, on, pin>>
    BY <1>6 DEF StartUndone, locals, IInv
  <2>2. /\ QueueInv' /\ commands' \in Seq(Command) /\ Len(commands') <= QueueLength
        /\ lost' \subseteq 1 .. timers
    BY <2>1, DeletePosted DEF IInv
  <2>3. TypeOK'
    BY <2>1, <2>2 DEF IInv, TypeOK
  <2> QED
    BY <2>1, <2>2, <2>3 DEF IInv, NotStarted
<1>7. CASE InitPublishes
  <2>1. QueueInv'
    BY <1>7, QueueKept DEF InitPublishes, service, IInv
  <2>2. TypeOK'
    BY <1>7 DEF InitPublishes, service, locals, IInv, TypeOK, Mode
  <2> QED
    BY <1>7, <2>1, <2>2 DEF InitPublishes, IInv, NotStarted
<1> QED
  BY <1>1, <1>2, <1>3, <1>4, <1>5, <1>6, <1>7

LEMMA LaterSteps ==
  ASSUME IInv, \/ \E m \in Argument : SetMode(m)
               \/ OwnerApplies \/ DeinitStops \/ DeinitDeletes \/ DeinitDarkens
               \/ DeinitResetsPin \/ DeinitClears
  PROVE  IInv'
<1> USE DEF OwnerState, Before, With, After
<1>1. ASSUME NEW m \in Argument, SetMode(m)
      PROVE  IInv'
  <2>1. QueueInv'
    BY <1>1, QueueKept DEF SetMode, service, IInv
  <2>2. show' \in BOOLEAN
    BY <1>1 DEF SetMode, Levels
  <2>3. TypeOK'
    BY <1>1, <2>2 DEF SetMode, service, locals, IInv, TypeOK
  <2> QED
    BY <1>1, <2>1, <2>3 DEF SetMode, service, IInv, NotStarted
<1>2. CASE OwnerApplies
  <2>1. QueueInv'
    BY <1>2, QueueKept DEF OwnerApplies, module, service, IInv
  <2>2. level' \in [Pin -> BOOLEAN]
    BY <1>2, Applied DEF OwnerApplies, IInv, TypeOK
  <2>3. TypeOK'
    BY <1>2, <2>2 DEF OwnerApplies, module, service, locals, IInv, TypeOK
  <2> QED
    BY <1>2, <2>1, <2>3 DEF OwnerApplies, module, service, IInv, NotStarted
<1>3. CASE DeinitStops
  <2>1. /\ led_timer # 0 /\ initialized /\ led_pin # NC /\ owner' = "delete"
        /\ UNCHANGED <<initialized, mode, led_timer, led_pin, level, show, timer, timers,
                       callback, on, pin, lost>>
    BY <1>3 DEF DeinitStops, module, locals, IInv
  <2>2. QueueInv' /\ commands' \in Seq(Command) /\ Len(commands') <= QueueLength
    <3>1. CASE Room
      <4>1. [op |-> "stop", timer |-> led_timer] \in Command
        BY <2>1, OwnCommand DEF IInv
      <4>2. commands' = Append(commands, [op |-> "stop", timer |-> led_timer])
        BY <1>3, <3>1 DEF DeinitStops, Post
      <4> QED
        BY <3>1, <4>1, <4>2, <2>1, Posted, PostTypes DEF IInv
    <3>2. CASE ~Room
      BY <1>3, <3>2, <2>1, QueueKept DEF DeinitStops, IInv, TypeOK
    <3> QED
      BY <3>1, <3>2
  <2>3. TypeOK'
    BY <2>1, <2>2 DEF IInv, TypeOK
  <2> QED
    BY <2>1, <2>2, <2>3 DEF IInv, NotStarted
<1>4. CASE DeinitDeletes
  <2>1. /\ led_timer # 0 /\ owner = "delete" /\ owner' = "dark" /\ PostDelete
        /\ led_timer' = 0 /\ initialized /\ led_pin # NC
        /\ UNCHANGED <<initialized, mode, led_pin, level, show, timer, timers, callback, on, pin>>
    BY <1>4 DEF DeinitDeletes, locals, IInv
  <2>2. /\ QueueInv' /\ commands' \in Seq(Command) /\ Len(commands') <= QueueLength
        /\ lost' \subseteq 1 .. timers
    BY <2>1, DeletePosted DEF IInv
  <2>3. TypeOK'
    BY <2>1, <2>2 DEF IInv, TypeOK
  <2> QED
    BY <2>1, <2>2, <2>3 DEF IInv, NotStarted
<1>5. CASE DeinitDarkens
  <2>1. QueueInv'
    BY <1>5, QueueKept DEF DeinitDarkens, module, service, IInv
  <2>2. level' \in [Pin -> BOOLEAN]
    BY <1>5, Applied DEF DeinitDarkens, IInv
  <2>3. TypeOK'
    BY <1>5, <2>2 DEF DeinitDarkens, module, service, locals, IInv, TypeOK
  <2> QED
    BY <1>5, <2>1, <2>3 DEF DeinitDarkens, module, service, IInv, NotStarted
<1>6. CASE DeinitResetsPin
  <2>1. QueueInv'
    BY <1>6, QueueKept DEF DeinitResetsPin, service, IInv
  <2>2. TypeOK'
    BY <1>6 DEF DeinitResetsPin, service, locals, IInv, TypeOK
  <2> QED
    BY <1>6, <2>1, <2>2 DEF DeinitResetsPin, IInv, NotStarted
<1>7. CASE DeinitClears
  <2>1. QueueInv'
    BY <1>7, QueueKept DEF DeinitClears, service, IInv
  <2>2. TypeOK'
    BY <1>7 DEF DeinitClears, service, locals, IInv, TypeOK, Mode
  <2> QED
    BY <1>7, <2>1, <2>2 DEF DeinitClears, IInv, NotStarted
<1> QED
  BY <1>1, <1>2, <1>3, <1>4, <1>5, <1>6, <1>7

(* The owner's part of the invariant in a step of the timer task or of      *)
(* another user of timers.                                                  *)
LEMMA OwnerWaits ==
  ASSUME OwnerState, UNCHANGED <<initialized, led_timer, led_pin, owner, timers>>
  PROVE  OwnerState'
  BY DEF OwnerState, Before, With, After

LEMMA TimerSteps ==
  ASSUME IInv, TimerTask \/ OtherPosts
  PROVE  IInv'
<1>1. CASE HandleCommand
  <2>1. /\ commands # <<>> /\ commands' = Tail(commands)
        /\ UNCHANGED <<initialized, mode, led_timer, led_pin, level, owner, show, timers,
                       callback, on, pin, lost>>
    BY <1>1 DEF HandleCommand, module, task, locals
  <2>2. /\ commands' \in Seq(Command) /\ Len(commands) \in Nat \ {0}
        /\ DOMAIN commands = 1 .. Len(commands) /\ DOMAIN commands' = 1 .. Len(commands) - 1
        /\ Len(commands') = Len(commands) - 1
        /\ \A i \in 1 .. Len(commands) - 1 : commands'[i] = commands[i + 1]
    BY <2>1, Taken DEF IInv, TypeOK
  <2>3. QueueInv' /\ timer' \in [Timer -> {"none", "dormant", "active"}]
    BY <1>1, CommandHandled DEF IInv
  <2>4. Len(commands') <= QueueLength
    BY <2>2 DEF IInv, TypeOK
  <2>5. TypeOK'
    BY <2>1, <2>2, <2>3, <2>4 DEF IInv, TypeOK
  <2>6. NotStarted'
    <3> SUFFICES ASSUME owner \in {"start", "undo"}, NEW i \in 1 .. Len(commands) - 1,
                        commands'[i].op # "other"
                 PROVE  commands'[i].timer # led_timer
      BY <2>1, <2>2 DEF NotStarted
    <3>1. i + 1 \in DOMAIN commands /\ commands'[i] = commands[i + 1]
      BY <2>2
    <3> QED
      BY <3>1 DEF IInv, NotStarted
  <2> QED
    BY <2>1, <2>3, <2>5, <2>6, OwnerWaits DEF IInv
<1>2. ASSUME UNCHANGED <<initialized, mode, led_timer, led_pin, owner, show, timer, timers,
                         commands, lost>>,
             level' \in [Pin -> BOOLEAN], on' \in BOOLEAN, pin' \in Pin \cup {NC},
             callback' \in {"idle", "level", "test", "set"}
      PROVE  IInv'
  <2>1. QueueInv'
    BY <1>2, QueueKept DEF IInv
  <2>2. TypeOK'
    BY <1>2 DEF IInv, TypeOK
  <2> QED
    BY <1>2, <2>1, <2>2, OwnerWaits DEF IInv, NotStarted
<1>3. ASSUME NEW t \in Timer, Expires(t)
      PROVE  IInv'
  <2>1. /\ UNCHANGED <<initialized, mode, led_timer, led_pin, owner, show, timer, timers,
                       commands, lost, level, on, pin>>
        /\ callback' \in {"idle", "level", "test", "set"}
    BY <1>3 DEF Expires, module, task, service
  <2> QED
    BY <2>1, <1>2 DEF IInv, TypeOK
<1>4. CASE CallbackLevel
  <2>1. /\ UNCHANGED <<initialized, mode, led_timer, led_pin, owner, show, timer, timers,
                       commands, lost, level, pin>>
        /\ callback' = "test" /\ on' \in BOOLEAN
    BY <1>4 DEF CallbackLevel, module, task, service, Levels
  <2> QED
    BY <2>1, <1>2 DEF IInv, TypeOK
<1>5. CASE CallbackTests
  <2>1. /\ UNCHANGED <<initialized, mode, led_timer, led_pin, owner, show, timer, timers,
                       commands, lost, level, on>>
        /\ callback' \in {"idle", "set"} /\ pin' = led_pin
    BY <1>5 DEF CallbackTests, module, task, service
  <2> QED
    BY <2>1, <1>2 DEF IInv, TypeOK
<1>6. CASE CallbackSets
  <2>1. /\ UNCHANGED <<initialized, mode, led_timer, led_pin, owner, show, timer, timers,
                       commands, lost, on, pin>>
        /\ callback' = "idle"
    BY <1>6 DEF CallbackSets, module, task, service
  <2>2. level' \in [Pin -> BOOLEAN]
    BY <1>6 DEF CallbackSets, IInv, TypeOK
  <2> QED
    BY <2>1, <2>2, <1>2 DEF IInv, TypeOK
<1>7. CASE OtherPosts
  <2>1. /\ Room /\ commands' = Append(commands, [op |-> "other"])
        /\ UNCHANGED <<initialized, mode, led_timer, led_pin, level, owner, show, timer, timers,
                       callback, on, pin, lost>>
    BY <1>7 DEF OtherPosts, module, task, locals
  <2>2. [op |-> "other"] \in Command
    BY DEF Command
  <2>3. QueueInv' /\ commands' \in Seq(Command) /\ Len(commands') <= QueueLength
    BY <2>1, <2>2, Posted, PostTypes DEF IInv
  <2>4. TypeOK'
    BY <2>1, <2>3 DEF IInv, TypeOK
  <2>5. /\ DOMAIN commands = 1 .. Len(commands) /\ DOMAIN commands' = 1 .. Len(commands) + 1
        /\ Len(commands) \in Nat
        /\ \A i \in 1 .. Len(commands) : commands'[i] = commands[i]
        /\ commands'[Len(commands) + 1] = [op |-> "other"]
    BY <2>1, <2>2, Appended DEF IInv, TypeOK
  <2>6. NotStarted'
    <3> SUFFICES ASSUME owner \in {"start", "undo"}, NEW i \in 1 .. Len(commands) + 1,
                        commands'[i].op # "other"
                 PROVE  commands'[i].timer # led_timer
      BY <2>1, <2>5 DEF NotStarted
    <3>1. i \in 1 .. Len(commands) /\ commands'[i] = commands[i]
      BY <2>5
    <3> QED
      BY <3>1, <2>5 DEF IInv, NotStarted
  <2> QED
    BY <2>1, <2>3, <2>4, <2>6, OwnerWaits DEF IInv
<1> QED
  BY <1>1, <1>3, <1>4, <1>5, <1>6, <1>7 DEF TimerTask

LEMMA Inductive == IInv /\ [Next]_vars => IInv'
<1> SUFFICES ASSUME IInv, [Next]_vars
             PROVE  IInv'
  OBVIOUS
<1>1. CASE UNCHANGED vars
  <2>1. UNCHANGED <<initialized, mode, led_timer, led_pin, level, owner, show, timer, timers,
                    commands, callback, on, pin, lost>>
    BY <1>1 DEF vars, module, task, service, locals
  <2>2. QueueInv'
    BY <2>1, QueueKept DEF IInv
  <2>3. TypeOK'
    BY <2>1 DEF IInv, TypeOK
  <2> QED
    BY <2>1, <2>2, <2>3, OwnerWaits DEF IInv, NotStarted
<1>2. CASE Next
  BY <1>2, InitSteps, LaterSteps, TimerSteps DEF Next, CallGoesOn
<1> QED
  BY <1>1, <1>2

----------------------------------------------------------------------------
(* The strengthened invariant holds throughout.                             *)
THEOREM Invariant == Spec => []IInv
  BY Initially, Inductive, PTL DEF Spec

(* Variables keep their types; the mode is one of the four.                 *)
THEOREM TypeCorrect == Spec => []TypeOK
<1>1. IInv => TypeOK
  BY DEF IInv
<1> QED
  BY <1>1, Invariant, PTL

(* A timer is to stay unless the queue holds its delete.                    *)
LEMMA StandsOrGoes ==
  ASSUME TypeOK, NEW t \in Timer
  PROVE  t \in Standing <=> timer[t] # "none" /\ ~Deletes(t)
<1>1. \A i \in DOMAIN commands : commands[i] = [op |-> "delete", timer |-> t] <=> Is(i, "delete", t)
  <2> SUFFICES ASSUME NEW i \in DOMAIN commands
               PROVE  commands[i] = [op |-> "delete", timer |-> t] <=> Is(i, "delete", t)
    OBVIOUS
  <2>1. commands[i] \in Command
    BY DEF TypeOK
  <2> QED
    BY <2>1, CommandKinds DEF Is
<1> QED
  BY <1>1 DEF Standing, Deletes

(* A finished led_status_init leaves the handle, the pin and a timer; a     *)
(* failed one and led_status_deinit leave none of them, but for the timers  *)
(* whose delete met a full queue, which stay without a handle.              *)
THEOREM AllOrNothing == Spec => []LedAllOrNothing
<1>1. IInv => LedAllOrNothing
  <2> SUFFICES ASSUME IInv, owner = "idle"
               PROVE  /\ initialized <=> led_timer # 0
                      /\ initialized <=> led_pin # NC
                      /\ Standing \ lost = IF initialized THEN {led_timer} ELSE {}
    BY DEF LedAllOrNothing
  <2>1. /\ initialized <=> led_timer # 0
        /\ initialized <=> led_pin # NC
    BY DEF IInv, OwnerState
  <2>2. \A t \in Timer \ lost : t \in Standing => t = led_timer
    BY StandsOrGoes DEF IInv, QueueInv, GivenUp
  <2>3. led_timer # 0 => led_timer \in Timer /\ led_timer \in Standing \ lost
    <3>1. led_timer # 0 => led_timer \in Timer
      BY DEF IInv, TypeOK, Timer
    <3> QED
      BY <3>1, StandsOrGoes DEF IInv, QueueInv, HandleLive
  <2>4. Standing \subseteq Timer /\ 0 \notin Timer
    BY DEF Standing, Timer
  <2> QED
    BY <2>1, <2>2, <2>3, <2>4
<1> QED
  BY <1>1, Invariant, PTL

(* The timer task never meets a command for a timer it has deleted, with a  *)
(* queue of any length and any traffic of other users in it.                *)
THEOREM CommandsMeetTimers == Spec => []NoUseAfterDelete
<1>1. IInv => NoUseAfterDelete
  BY DEF IInv, QueueInv
<1> QED
  BY <1>1, Invariant, PTL

(* Leaving out the timers whose delete met a full queue, one blinks at most *)
(* and every one is the owner's or about to be deleted.                     *)
THEOREM AtMostOneBlinks == Spec => []OneBlinker
<1>1. IInv => OneBlinker
  <2> SUFFICES ASSUME IInv
               PROVE  Standing \subseteq lost \cup {led_timer}
    BY DEF OneBlinker, IInv, QueueInv, OneActive
  <2>1. ASSUME NEW t \in Standing, t \notin lost
        PROVE  t = led_timer
    <3>1. t \in Timer
      BY DEF Standing
    <3> QED
      BY <2>1, <3>1, StandsOrGoes DEF IInv, QueueInv, GivenUp
  <2> QED
    BY <2>1
<1> QED
  BY <1>1, Invariant, PTL

----------------------------------------------------------------------------
(* Between the calls of the owner, while the LED is to be lit.              *)
Attacking == initialized /\ owner = "idle" /\ mode = "ATTACKING"

(* The callback has in hand what the mode asks for, or nothing yet.  One    *)
(* that preempted the owner may not: until it is over, CallbackTrue fails.  *)
CallbackTrue ==
  /\ callback \in {"test", "set"} => on
  /\ callback = "set" => pin = led_pin

(* While the LED is to be lit, a callback that is over, or that begins, is  *)
(* true from then on; when one sets the level the pin is lit, and no step   *)
(* of anybody makes it dark again.                                          *)
AttackStays ==
  [][Attacking /\ Attacking' =>
       /\ callback' \in {"idle", "level"} \/ CallbackTrue => CallbackTrue'
       /\ CallbackTrue /\ CallbackSets => level'[led_pin']
       /\ CallbackTrue /\ level[led_pin] => level'[led_pin']]_vars

(* What the mode asks for is shown for good after at most one callback that *)
(* a change of the mode overtook: the safety half of AttackShown.           *)
THEOREM AttackSettles == Spec => AttackStays
<1> DEFINE Stays == /\ callback' \in {"idle", "level"} \/ CallbackTrue => CallbackTrue'
                    /\ CallbackTrue /\ CallbackSets => level'[led_pin']
                    /\ CallbackTrue /\ level[led_pin] => level'[led_pin']
<1>1. ASSUME IInv, Attacking, Attacking', Next
      PROVE  Stays
  <2>1. level \in [Pin -> BOOLEAN] /\ led_pin \in Pin /\ led_pin # NC
    BY <1>1 DEF IInv, TypeOK, OwnerState, Attacking
  <2>2. CASE UNCHANGED <<module, level, locals>> /\ ~CallbackSets
    BY <2>2 DEF CallbackTrue, module, locals
  <2>3. CASE \E t \in Timer : Expires(t)
    BY <2>3, <1>1 DEF Expires, CallbackTrue, CallbackSets, Attacking, module
  <2>4. CASE CallbackLevel
    BY <2>4, <1>1 DEF CallbackLevel, CallbackTrue, CallbackSets, Attacking, module, Levels
  <2>5. CASE CallbackTests
    BY <2>5, <1>1, <2>1 DEF CallbackTests, CallbackTrue, CallbackSets, Attacking, module
  <2>6. CASE CallbackSets
    <3>1. callback = "set" /\ callback' = "idle" /\ UNCHANGED <<led_pin, on, pin>>
      BY <2>6 DEF CallbackSets, module
    <3>2. CallbackTrue'
      BY <3>1 DEF CallbackTrue
    <3>3. CASE CallbackTrue
      <4>1. pin = led_pin /\ on
        BY <3>1, <3>3 DEF CallbackTrue
      <4>2. level' = [level EXCEPT ![led_pin] = on]
        BY <2>6, <2>1, <4>1 DEF CallbackSets
      <4>3. level'[led_pin']
        BY <2>1, <3>1, <4>1, <4>2
      <4> QED
        BY <3>2, <4>3
    <3> QED
      BY <3>2, <3>3
  <2>7. CASE HandleCommand \/ OtherPosts
    BY <2>2, <2>7 DEF HandleCommand, OtherPosts, CallbackSets, locals
  <2>8. ~(\/ \E p \in Pin : InitPin(p)
          \/ \E m \in Argument : SetMode(m)
          \/ DeinitStops \/ CallGoesOn)
    BY <1>1 DEF Attacking, InitPin, SetMode, DeinitStops, CallGoesOn, CreateOk, CreateFails,
       StartPosted, StartRefused, StartUndone, InitPublishes, OwnerApplies, DeinitDeletes,
       DeinitDarkens, DeinitResetsPin, DeinitClears
  <2> QED
    BY <1>1, <2>3, <2>4, <2>5, <2>6, <2>7, <2>8 DEF Next, TimerTask
<1>2. IInv /\ [Next]_vars => [Attacking /\ Attacking' => Stays]_vars
  BY <1>1
<1> QED
  BY <1>2, Invariant, PTL DEF Spec, AttackStays
=============================================================================
