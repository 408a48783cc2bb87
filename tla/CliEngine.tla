----------------------------- MODULE CliEngine ------------------------------
(***************************************************************************)
(* cli/src/cli_engine.c: lines entered at the prompt, the history ring,    *)
(* and scripts, which the one CLI task runs recursively.  A script is the  *)
(* sequence of pieces fgets reads it in: a line that does not fit in the   *)
(* buffer comes in several, each of which is run as a line.  What          *)
(* a command other than script, set, get and reboot does is its outcome:   *)
(* "done" returns 0, "fails" returns 1 or names no command, "skip" is an   *)
(* empty line or a comment.  Of a value stored in NVS only the length is   *)
(* kept.                                                                   *)
(***************************************************************************)
EXTENDS Naturals, Sequences, SequencesExt

CONSTANTS Script,           \* files on the card
          Pieces,           \* Pieces[f]: the commands in it
          Entered,          \* commands typed at the prompt
          Key,
          MaxScriptDepth,   \* CLI_MAX_SCRIPT_DEPTH
          MaxFiles,         \* max_files of the mount in sd_card.c
          HistoryDepth,     \* CLI_HISTORY_DEPTH
          MaxValueLen,      \* CLI_MAX_NVS_VALUE_LEN
          MaxEntered        \* bound of the model on lines entered since boot

Command == [op : {"done", "fails", "skip", "reboot"}]
             \cup [op : {"script"}, file : Script]
             \cup [op : {"set"}, key : Key, len : Nat]
             \cup [op : {"get"}, key : Key]

ASSUME CliConstants ==
  /\ Pieces \in [Script -> Seq(Command)]
  /\ Entered \subseteq Command
  /\ MaxScriptDepth \in Nat /\ MaxFiles \in Nat /\ MaxValueLen \in Nat /\ MaxEntered \in Nat
  /\ HistoryDepth \in Nat \ {0}

VARIABLES
  mounted,          \* sd_card_is_mounted()
  running,          \* "prompt", "script", or "abort": a command of a script failed
  stack,            \* the scripts being run: file, and pieces read of it
  script_depth,     \* s_script_depth
  history, history_count, history_next,     \* s_history and its counters
  nvs,              \* length of the string under each key, 0 if there is none
  entered,          \* history: the lines entered since boot
  failed, ran       \* history: since the last line entered

ring == <<history, history_count, history_next>>
scripts == <<running, stack, script_depth>>
ghosts == <<entered, failed, ran>>
vars == <<mounted, scripts, ring, nvs, ghosts>>

None == [op |-> "skip"]
Slots == 0 .. HistoryDepth - 1

Init ==
  /\ mounted \in BOOLEAN
  /\ running = "prompt" /\ stack = <<>> /\ script_depth = 0
  /\ history = [i \in Slots |-> None] /\ history_count = 0 /\ history_next = 0
  /\ nvs = [k \in Key |-> 0]
  /\ entered = <<>> /\ failed = FALSE /\ ran = 0

----------------------------------------------------------------------------
\* cli_engine_dispatch_line on c, with pending the scripts being run: what it
\* does to them, the NVS and the state of the task.

Outcome(ok, pending) ==
  /\ stack' = pending
  /\ running' = IF pending = <<>> THEN "prompt" ELSE IF ok THEN "script" ELSE "abort"
  /\ failed' = ~ok

Simple(c, pending) ==
  /\ c.op \in {"done", "fails"}
  /\ Outcome(c.op = "done", pending)
  /\ UNCHANGED <<script_depth, nvs>>

\* cmd_script: refused at the depth limit, without a card, and when the file
\* cannot be opened, as when max_files are open already.
DepthReached == script_depth >= MaxScriptDepth

ScriptOpens(c, pending) ==
  /\ c.op = "script" /\ ~DepthReached /\ mounted /\ Len(pending) < MaxFiles
  /\ stack' = Append(pending, [file |-> c.file, read |-> 0])
  /\ script_depth' = script_depth + 1
  /\ running' = "script" /\ failed' = FALSE
  /\ UNCHANGED nvs

ScriptRefused(c, pending) ==
  /\ c.op = "script"
  /\ \/ DepthReached \/ ~mounted
     \/ Len(pending) = MaxFiles
  /\ Outcome(FALSE, pending)
  /\ UNCHANGED <<script_depth, nvs>>

\* cmd_set: nvs_set_str may fail, and the commit after it.
SetStores(c, pending) ==
  /\ c.op = "set"
  /\ nvs' = [nvs EXCEPT ![c.key] = c.len]
  /\ \E committed \in BOOLEAN : Outcome(committed, pending)
  /\ UNCHANGED script_depth

SetFails(c, pending) ==
  /\ c.op = "set"
  /\ Outcome(FALSE, pending)
  /\ UNCHANGED <<script_depth, nvs>>

\* cmd_get: the string and its terminator must fit in the buffer.
Get(c, pending) ==
  /\ c.op = "get"
  /\ Outcome(nvs[c.key] \in 1 .. MaxValueLen - 1, pending)
  /\ UNCHANGED <<script_depth, nvs>>

Dispatch(c, pending) ==
  \/ Simple(c, pending)
  \/ ScriptOpens(c, pending) \/ ScriptRefused(c, pending)
  \/ SetStores(c, pending) \/ SetFails(c, pending)
  \/ Get(c, pending)

----------------------------------------------------------------------------
\* cli_history_push
MutantNextStays(c) ==
  /\ history' = [history EXCEPT ![history_next] = c]
  /\ history_count' = IF history_count < HistoryDepth THEN history_count + 1 ELSE history_count
  /\ history_next' = IF history_count < HistoryDepth THEN (history_next + 1) % HistoryDepth
                                                     ELSE history_next
HistoryPush(c) ==
  /\ history' = [history EXCEPT ![history_next] = c]
  /\ history_next' = (history_next + 1) % HistoryDepth
  /\ history_count' = IF history_count < HistoryDepth THEN history_count + 1 ELSE history_count

\* A line is entered at the prompt.
Enter(c) ==
  /\ running = "prompt" /\ Len(entered) < MaxEntered
  /\ c.op \notin {"reboot", "skip"}
  /\ HistoryPush(c)
  /\ entered' = Append(entered, c) /\ ran' = 1
  /\ Dispatch(c, <<>>)
  /\ UNCHANGED mounted

\* cmd_reboot: the RAM is lost, the NVS is kept.  A script may hold the command.
Restarts ==
  /\ mounted' \in BOOLEAN
  /\ running' = "prompt" /\ stack' = <<>> /\ script_depth' = 0
  /\ history' = [i \in Slots |-> None] /\ history_count' = 0 /\ history_next' = 0
  /\ entered' = <<>> /\ failed' = FALSE /\ ran' = 0
  /\ UNCHANGED nvs

Reboot == running = "prompt" /\ [op |-> "reboot"] \in Entered /\ Restarts

----------------------------------------------------------------------------
\* The loop of cmd_script

Top == Last(stack)
Text == Pieces[Top.file]
Piece == Text[Top.read + 1]
Advanced == [stack EXCEPT ![Len(stack)].read = Top.read + 1]
More == running = "script" /\ Top.read < Len(Text)

MutantSkipStays ==
  /\ More /\ Piece.op = "skip"
  /\ UNCHANGED vars
Skip ==
  /\ More /\ Piece.op = "skip"
  /\ stack' = Advanced
  /\ UNCHANGED <<mounted, running, script_depth, ring, nvs, ghosts>>

RunPiece ==
  /\ More /\ Piece.op \notin {"skip", "reboot"}
  /\ Dispatch(Piece, Advanced)
  /\ ran' = ran + 1
  /\ UNCHANGED <<mounted, ring, entered>>

RunReboot == More /\ Piece.op = "reboot" /\ Restarts

\* End of file, or a failed command: the file is closed, and what cmd_script
\* returns is what the script that called it sees.
Resume == IF Len(stack) = 1 THEN "prompt" ELSE "script"

ScriptEnds ==
  /\ running = "script" /\ Top.read = Len(Text)
  /\ stack' = Front(stack)
  /\ script_depth' = script_depth - 1
  /\ running' = Resume
  /\ UNCHANGED <<mounted, ring, nvs, ghosts>>

MutantCallerGoesOn ==
  /\ running = "abort"
  /\ stack' = Front(stack)
  /\ script_depth' = script_depth - 1
  /\ running' = Resume
  /\ UNCHANGED <<mounted, ring, nvs, ghosts>>
MutantDepthLeaks ==
  /\ running = "abort"
  /\ stack' = Front(stack)
  /\ running' = IF Len(stack) = 1 THEN "prompt" ELSE "abort"
  /\ UNCHANGED <<mounted, script_depth, ring, nvs, ghosts>>
ScriptAborts ==
  /\ running = "abort"
  /\ stack' = Front(stack)
  /\ script_depth' = script_depth - 1
  /\ running' = IF Len(stack) = 1 THEN "prompt" ELSE "abort"
  /\ UNCHANGED <<mounted, ring, nvs, ghosts>>

Work == Skip \/ RunPiece \/ RunReboot \/ ScriptEnds \/ ScriptAborts

Next ==
  \/ \E c \in Entered : Enter(c)
  \/ Reboot
  \/ Work

Spec == Init /\ [][Next]_vars
FairSpec == Spec /\ WF_vars(Work)

----------------------------------------------------------------------------
\* Types.
TypeOK ==
  /\ mounted \in BOOLEAN /\ failed \in BOOLEAN /\ ran \in Nat
  /\ running \in {"prompt", "script", "abort"} /\ (running = "prompt" <=> stack = <<>>)
  /\ stack \in Seq([file : Script, read : Nat])
  /\ history \in [Slots -> Command] /\ entered \in Seq(Command)
  /\ history_count \in 0 .. HistoryDepth /\ history_next \in Slots
  /\ nvs \in [Key -> Nat]

\* The depth counts the open scripts, whichever way they end, so that the limit
\* still lets scripts run after any number of aborts; and it is never passed.
DepthCountsScripts == script_depth = Len(stack) /\ script_depth <= MaxScriptDepth

\* The ring holds the last lines entered, in order, and only those: what scripts
\* run is not in it.
HistoryHoldsLast ==
  /\ history_count = IF Len(entered) < HistoryDepth THEN Len(entered) ELSE HistoryDepth
  /\ \A i \in 1 .. history_count :
       history[(history_next + HistoryDepth - i) % HistoryDepth] = entered[Len(entered) + 1 - i]

\* When a command fails, deep in scripts that call scripts, none of them runs
\* another one.
FailureStopsScripts ==
  [][failed /\ running # "prompt" => ran' = ran /\ nvs' = nvs]_vars

\* Scripts end, also those that call themselves: the prompt comes back.
PromptReturns == running # "prompt" ~> running = "prompt"
=============================================================================
