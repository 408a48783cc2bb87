-------------------------- MODULE CliEngineProofs ---------------------------
(***************************************************************************)
(* What CliEngine.tla promises for any scripts, however they call each     *)
(* other and themselves, any depth limit and any length of the history.    *)
(* What a command does to the scripts that run it is the same wherever it  *)
(* stands (Dispatched), and the ring is read back through the arithmetic   *)
(* modulo its length (Newest, Older).  At the end: scripts terminate, by a *)
(* well-founded order on what the stack of them has left to read.          *)
(***************************************************************************)
EXTENDS CliEngine, SequenceTheorems, WellFoundedInduction, TLAPS

USE CliConstants

Frame == [file : Script, read : Nat]

(* A script that goes on has seen no failure.                              *)
ScriptUnharmed == running = "script" => ~failed

IInv == TypeOK /\ DepthCountsScripts /\ ScriptUnharmed /\ HistoryHoldsLast

----------------------------------------------------------------------------
(* The remainder of a sum of two indexes of the ring.                      *)
LEMMA RemainderBelow ==
  ASSUME NEW x \in Nat, NEW D \in Nat \ {0}, x < D
  PROVE  x % D = x
  OBVIOUS

LEMMA RemainderAbove ==
  ASSUME NEW x \in Nat, NEW D \in Nat \ {0}, D <= x, x < 2 * D
  PROVE  x % D = x - D
  BY Z3

(* The slot after slot n.                                                  *)
LEMMA NextSlot ==
  ASSUME NEW D \in Nat \ {0}, NEW n \in 0 .. D - 1
  PROVE  (n + 1) % D = IF n + 1 < D THEN n + 1 ELSE 0
<1>1. n + 1 \in Nat /\ n + 1 <= D /\ D < 2 * D
  OBVIOUS
<1>2. CASE n + 1 < D
  BY <1>1, <1>2, RemainderBelow
<1>3. CASE n + 1 = D
  <2>1. (n + 1) % D = (n + 1) - D
    BY <1>1, <1>3, RemainderAbove
  <2> QED
    BY <1>3, <2>1
<1> QED
  BY <1>1, <1>2, <1>3

(* One before the next slot, round the ring, is the slot just written. *)
LEMMA Newest ==
  ASSUME NEW D \in Nat \ {0}, NEW n \in 0 .. D - 1
  PROVE  /\ (n + 1) % D \in 0 .. D - 1
         /\ (((n + 1) % D) + D - 1) % D = n
<1>1. (n + 1) % D = IF n + 1 < D THEN n + 1 ELSE 0
  BY NextSlot
<1>2. CASE n + 1 < D
  <2>1. (n + 1) % D = n + 1 /\ n + D \in Nat /\ n + D < 2 * D
    BY <1>1, <1>2
  <2>2. (n + D) % D = n
    BY <2>1, RemainderAbove
  <2>3. (n + 1) + D - 1 = n + D
    OBVIOUS
  <2> QED
    BY <2>1, <2>2, <2>3
<1>3. CASE n + 1 = D
  <2>1. (n + 1) % D = 0
    BY <1>1, <1>3
  <2>2. 0 + D - 1 = n /\ n \in Nat /\ n < 2 * D /\ n < D
    BY <1>3
  <2>3. n % D = n
    BY <2>2, RemainderBelow
  <2> QED
    BY <2>1, <2>2, <2>3
<1> QED
  BY <1>2, <1>3

(* What was i - 1 back is i back once a line was added, in another slot. *)
LEMMA Older ==
  ASSUME NEW D \in Nat \ {0}, NEW n \in 0 .. D - 1, NEW i \in 2 .. D
  PROVE  /\ (((n + 1) % D) + D - i) % D = (n + D - (i - 1)) % D
         /\ (n + D - (i - 1)) % D \in (0 .. D - 1) \ {n}
<1> DEFINE x == n + D - (i - 1)
<1>1. (n + 1) % D = IF n + 1 < D THEN n + 1 ELSE 0
  BY NextSlot
<1>2. x \in Nat /\ x < 2 * D
  OBVIOUS
<1>3. x % D = IF x < D THEN x ELSE x - D
  <2>1. x < D => x % D = x
    BY <1>2, RemainderBelow
  <2>2. D <= x => x % D = x - D
    BY <1>2, RemainderAbove
  <2> HIDE DEF x
  <2> QED
    BY <1>2, <2>1, <2>2
<1>4. (((n + 1) % D) + D - i) % D = x % D
  <2>1. CASE n + 1 < D
    BY <1>1, <2>1
  <2>2. CASE n + 1 = D
    <3>1. ((n + 1) % D) + D - i = D - i
      BY <1>1, <2>2
    <3>2. D - i \in Nat /\ D - i < D /\ x = D + (D - i)
      BY <2>2
    <3>3. (D - i) % D = D - i
      BY <3>2, RemainderBelow
    <3>4. x % D = D - i
      BY <1>3, <3>2
    <3> QED
      BY <3>1, <3>3, <3>4
  <2> QED
    BY <2>1, <2>2
<1>5. x % D \in (0 .. D - 1) \ {n}
  BY <1>3
<1> QED
  BY <1>4, <1>5

(* A line entered is the newest of the ring, the others are one further back. *)
LEMMA RingKept ==
  ASSUME TypeOK, HistoryHoldsLast, NEW c \in Command, HistoryPush(c),
         entered' = Append(entered, c)
  PROVE  /\ HistoryHoldsLast'
         /\ history' \in [Slots -> Command]
         /\ history_count' \in 0 .. HistoryDepth /\ history_next' \in Slots
         /\ entered' \in Seq(Command)
<1> DEFINE D == HistoryDepth
           n == history_next
<1>1. /\ D \in Nat \ {0} /\ n \in 0 .. D - 1
      /\ history \in [Slots -> Command] /\ entered \in Seq(Command)
      /\ history_count \in 0 .. D
  BY DEF TypeOK, Slots
<1>2. /\ history' = [history EXCEPT ![n] = c] /\ history_next' = (n + 1) % D
      /\ history_count' = IF history_count < D THEN history_count + 1 ELSE history_count
  BY DEF HistoryPush
<1>3. history_count = IF Len(entered) < D THEN Len(entered) ELSE D
  BY DEF HistoryHoldsLast
<1>4. Len(entered) \in Nat /\ Len(entered') = Len(entered) + 1 /\ entered' \in Seq(Command)
  BY <1>1
<1>5. history_count' = IF Len(entered') < D THEN Len(entered') ELSE D
  BY <1>1, <1>2, <1>3, <1>4
<1>6. history_count' \in 0 .. D /\ history_count' <= history_count + 1
  BY <1>1, <1>2
<1>7. history_next' \in 0 .. D - 1 /\ (history_next' + D - 1) % D = n
  BY <1>1, <1>2, Newest
<1>8. history' \in [Slots -> Command] /\ n \in Slots
  BY <1>1, <1>2 DEF Slots
<1>9. ASSUME NEW i \in 1 .. history_count'
      PROVE  history'[(history_next' + D - i) % D] = entered'[Len(entered') + 1 - i]
  <2>1. CASE i = 1
    <3>1. entered'[Len(entered') + 1 - i] = c
      BY <1>1, <1>4, <2>1
    <3>2. history'[n] = c
      BY <1>1, <1>2, <1>8
    <3>3. (history_next' + D - i) % D = n
      BY <1>7, <2>1
    <3> QED
      BY <3>1, <3>2, <3>3
  <2>2. CASE i # 1
    <3>1. i \in 2 .. D /\ i - 1 \in 1 .. history_count
      BY <1>1, <1>6, <2>2
    <3>2. /\ (history_next' + D - i) % D = (n + D - (i - 1)) % D
          /\ (n + D - (i - 1)) % D \in (0 .. D - 1) \ {n}
      BY <1>1, <1>2, <3>1, Older
    <3>3. history'[(n + D - (i - 1)) % D] = history[(n + D - (i - 1)) % D]
      BY <1>1, <1>2, <3>2 DEF Slots
    <3>4. history[(n + D - (i - 1)) % D] = entered[Len(entered) + 1 - (i - 1)]
      BY <3>1 DEF HistoryHoldsLast
    <3>5. entered'[Len(entered') + 1 - i] = entered[Len(entered) + 1 - (i - 1)]
      <4>1. Len(entered') + 1 - i = Len(entered) + 1 - (i - 1)
        BY <1>4
      <4>2. Len(entered) + 1 - (i - 1) \in 1 .. Len(entered)
        BY <1>1, <1>3, <1>4, <3>1
      <4> QED
        BY <1>1, <4>1, <4>2
    <3> QED
      BY <3>2, <3>3, <3>4, <3>5
  <2> QED
    BY <2>1, <2>2
<1> QED
  BY <1>4, <1>5, <1>6, <1>7, <1>8, <1>9 DEF HistoryHoldsLast, Slots

----------------------------------------------------------------------------
(* The scripts as a step leaves them. *)
ScriptsGood ==
  /\ running \in {"prompt", "script", "abort"} /\ (running = "prompt" <=> stack = <<>>)
  /\ stack \in Seq(Frame)
  /\ script_depth = Len(stack) /\ script_depth <= MaxScriptDepth
  /\ failed \in BOOLEAN /\ (running = "script" => ~failed)
  /\ nvs \in [Key -> Nat]

LEMMA Parts == IInv <=> /\ ScriptsGood /\ HistoryHoldsLast
                        /\ mounted \in BOOLEAN /\ ran \in Nat
                        /\ history \in [Slots -> Command] /\ entered \in Seq(Command)
                        /\ history_count \in 0 .. HistoryDepth /\ history_next \in Slots
  BY DEF IInv, TypeOK, DepthCountsScripts, ScriptUnharmed, ScriptsGood, Frame

(* What a command returns decides whether the script it stands in goes on.   *)
LEMMA OutcomeGood ==
  ASSUME NEW pending \in Seq(Frame), NEW ok \in BOOLEAN, Outcome(ok, pending)
  PROVE  /\ running' \in {"prompt", "script", "abort"} /\ (running' = "prompt" <=> stack' = <<>>)
         /\ stack' = pending
         /\ failed' \in BOOLEAN /\ (running' = "script" => ~failed')
  BY DEF Outcome

(* cli_engine_dispatch_line, with as many scripts running as the depth says.  *)
LEMMA Dispatched ==
  ASSUME NEW c \in Command, NEW pending \in Seq(Frame), Dispatch(c, pending),
         script_depth = Len(pending), script_depth <= MaxScriptDepth,
         nvs \in [Key -> Nat]
  PROVE  ScriptsGood'
<1>1. ASSUME NEW ok \in BOOLEAN, Outcome(ok, pending), UNCHANGED script_depth,
             nvs' \in [Key -> Nat]
      PROVE  ScriptsGood'
  BY <1>1, OutcomeGood DEF ScriptsGood
<1>2. CASE Simple(c, pending)
  <2>1. (c.op = "done") \in BOOLEAN
    OBVIOUS
  <2> QED
    BY <1>1, <1>2, <2>1 DEF Simple
<1>3. CASE ScriptOpens(c, pending)
  <2>1. /\ stack' = Append(pending, [file |-> c.file, read |-> 0])
        /\ script_depth' = script_depth + 1 /\ script_depth < MaxScriptDepth
        /\ running' = "script" /\ failed' = FALSE /\ nvs' = nvs
    BY <1>3 DEF ScriptOpens, DepthReached
  <2>2. c.file \in Script
    BY <1>3 DEF ScriptOpens, Command
  <2>3. [file |-> c.file, read |-> 0] \in Frame
    BY <2>2 DEF Frame
  <2>4. stack' \in Seq(Frame) /\ Len(stack') = Len(pending) + 1 /\ stack' # <<>>
    BY <2>1, <2>3
  <2>5. script_depth' = Len(stack') /\ script_depth' <= MaxScriptDepth
    <3>1. script_depth \in Nat /\ script_depth + 1 <= MaxScriptDepth
      BY <2>1
    <3> QED
      BY <2>1, <2>4, <3>1
  <2>6. nvs' \in [Key -> Nat]
    BY <2>1
  <2> QED
    BY <2>1, <2>4, <2>5, <2>6 DEF ScriptsGood
<1>4. CASE ScriptRefused(c, pending)
  BY <1>1, <1>4 DEF ScriptRefused
<1>5. CASE SetStores(c, pending)
  <2>1. c.key \in Key /\ c.len \in Nat
    BY <1>5 DEF SetStores, Command
  <2>2. nvs' \in [Key -> Nat]
    BY <1>5, <2>1 DEF SetStores
  <2>3. PICK committed \in BOOLEAN : Outcome(committed, pending)
    BY <1>5 DEF SetStores
  <2> QED
    BY <1>1, <1>5, <2>2, <2>3 DEF SetStores
<1>6. CASE SetFails(c, pending)
  BY <1>1, <1>6 DEF SetFails
<1>7. CASE Get(c, pending)
  <2>1. (nvs[c.key] \in 1 .. MaxValueLen - 1) \in BOOLEAN
    OBVIOUS
  <2> QED
    BY <1>1, <1>7, <2>1 DEF Get
<1> QED
  BY <1>2, <1>3, <1>4, <1>5, <1>6, <1>7 DEF Dispatch

----------------------------------------------------------------------------
LEMMA Initially == Init => IInv
<1> SUFFICES ASSUME Init
             PROVE  IInv
  OBVIOUS
<1>1. ScriptsGood
  <2>1. stack = <<>> /\ Len(stack) = 0 /\ stack \in Seq(Frame)
    BY DEF Init
  <2>2. nvs \in [Key -> Nat]
    BY DEF Init
  <2>3. running = "prompt" /\ failed = FALSE /\ script_depth = 0
    BY DEF Init
  <2>4. failed \in BOOLEAN /\ (running = "script" => ~failed)
    BY <2>3
  <2>5. script_depth = Len(stack) /\ script_depth <= MaxScriptDepth
    BY <2>1, <2>3
  <2>6. running \in {"prompt", "script", "abort"} /\ (running = "prompt" <=> stack = <<>>)
    BY <2>1, <2>3
  <2> QED
    BY <2>1, <2>2, <2>4, <2>5, <2>6 DEF ScriptsGood
<1>2. None \in Command
  BY DEF None, Command
<1>3. history \in [Slots -> Command] /\ 0 \in Slots
  BY <1>2 DEF Init, Slots
<1>4. HistoryHoldsLast
  BY DEF Init, HistoryHoldsLast
<1> QED
  BY <1>1, <1>3, <1>4, Parts DEF Init

LEMMA EnterKeeps ==
  ASSUME IInv, NEW c \in Entered, Enter(c)
  PROVE  IInv'
<1>1. ScriptsGood /\ TypeOK /\ HistoryHoldsLast /\ c \in Command
  BY Parts DEF IInv
<1>2. HistoryPush(c) /\ entered' = Append(entered, c) /\ Dispatch(c, <<>>)
  BY DEF Enter
<1>3. <<>> \in Seq(Frame) /\ Len(<<>>) = 0
  OBVIOUS
<1>4. script_depth = 0 /\ script_depth <= MaxScriptDepth
  BY <1>1, <1>3 DEF Enter, ScriptsGood
<1>5. ScriptsGood'
  BY <1>1, <1>2, <1>3, <1>4, Dispatched DEF ScriptsGood
<1>6. /\ HistoryHoldsLast' /\ history' \in [Slots -> Command]
      /\ history_count' \in 0 .. HistoryDepth /\ history_next' \in Slots
      /\ entered' \in Seq(Command)
  BY <1>1, <1>2, RingKept
<1>7. mounted' \in BOOLEAN /\ ran' \in Nat
  BY <1>1 DEF Enter, TypeOK
<1>8. (/\ ScriptsGood /\ HistoryHoldsLast
       /\ mounted \in BOOLEAN /\ ran \in Nat
       /\ history \in [Slots -> Command] /\ entered \in Seq(Command)
       /\ history_count \in 0 .. HistoryDepth /\ history_next \in Slots)' => IInv'
  BY Parts, PTL
<1> QED
  BY <1>5, <1>6, <1>7, <1>8

(* A restart: what it leaves is an initial state but for the NVS. *)
LEMMA RestartKeeps ==
  ASSUME IInv, Restarts
  PROVE  IInv'
<1>1. ScriptsGood
  BY Parts
<1>2. ScriptsGood'
  <2>1. stack' = <<>> /\ Len(stack') = 0 /\ stack' \in Seq(Frame)
    BY DEF Restarts
  <2>2. nvs' \in [Key -> Nat]
    BY <1>1 DEF Restarts, ScriptsGood
  <2>3. running' = "prompt" /\ failed' = FALSE /\ script_depth' = 0
    BY DEF Restarts
  <2>4. failed' \in BOOLEAN /\ (running' = "script" => ~failed')
    BY <2>3
  <2>5. script_depth' = Len(stack') /\ script_depth' <= MaxScriptDepth
    BY <2>1, <2>3
  <2>6. running' \in {"prompt", "script", "abort"} /\ (running' = "prompt" <=> stack' = <<>>)
    BY <2>1, <2>3
  <2> QED
    BY <2>1, <2>2, <2>4, <2>5, <2>6 DEF ScriptsGood
<1>3. None \in Command
  BY DEF None, Command
<1>4. history' \in [Slots -> Command] /\ history_next' \in Slots /\ history_count' \in 0 .. HistoryDepth
  BY <1>3 DEF Restarts, Slots
<1>5. HistoryHoldsLast'
  BY DEF Restarts, HistoryHoldsLast
<1>6. mounted' \in BOOLEAN /\ ran' \in Nat /\ entered' \in Seq(Command)
  BY DEF Restarts
<1>7. (/\ ScriptsGood /\ HistoryHoldsLast
       /\ mounted \in BOOLEAN /\ ran \in Nat
       /\ history \in [Slots -> Command] /\ entered \in Seq(Command)
       /\ history_count \in 0 .. HistoryDepth /\ history_next \in Slots)' => IInv'
  BY Parts, PTL
<1> QED
  BY <1>2, <1>4, <1>5, <1>6, <1>7

(* Steps of a script leave the ring alone. *)
LEMMA RingLeft ==
  ASSUME IInv, UNCHANGED <<mounted, ring, entered>>, ScriptsGood', ran' \in Nat
  PROVE  IInv'
<1>1. /\ HistoryHoldsLast
      /\ mounted \in BOOLEAN /\ history \in [Slots -> Command] /\ entered \in Seq(Command)
      /\ history_count \in 0 .. HistoryDepth /\ history_next \in Slots
  BY Parts
<1>2. HistoryHoldsLast'
  BY <1>1 DEF HistoryHoldsLast, ring
<1>3. (/\ ScriptsGood /\ HistoryHoldsLast
       /\ mounted \in BOOLEAN /\ ran \in Nat
       /\ history \in [Slots -> Command] /\ entered \in Seq(Command)
       /\ history_count \in 0 .. HistoryDepth /\ history_next \in Slots)' => IInv'
  BY Parts, PTL
<1> QED
  BY <1>1, <1>2, <1>3 DEF ring

(* The piece a script is at, and the script after it was read. *)
LEMMA PieceRead ==
  ASSUME IInv, More
  PROVE  /\ Piece \in Command
         /\ Advanced \in Seq(Frame) /\ Len(Advanced) = Len(stack) /\ Advanced # <<>>
<1>1. stack \in Seq(Frame) /\ stack # <<>> /\ running = "script"
  BY Parts DEF ScriptsGood, More
<1>2. Len(stack) \in 1 .. Len(stack) /\ Top = stack[Len(stack)]
  BY <1>1 DEF Top, Last
<1>3. Top \in Frame
  BY <1>1, <1>2
<1>4. Top.file \in Script /\ Top.read \in Nat
  BY <1>3 DEF Frame
<1>5. Text \in Seq(Command)
  BY <1>4 DEF Text
<1>6. Top.read + 1 \in 1 .. Len(Text)
  BY <1>4, <1>5 DEF More
<1>7. Piece \in Command
  BY <1>5, <1>6 DEF Piece
<1>8. [stack[Len(stack)] EXCEPT !.read = Top.read + 1] \in Frame
  BY <1>2, <1>3, <1>4 DEF Frame
<1>9. Advanced = [stack EXCEPT ![Len(stack)] = [stack[Len(stack)] EXCEPT !.read = Top.read + 1]]
  BY DEF Advanced
<1>10. Advanced \in Seq(Frame) /\ Len(Advanced) = Len(stack)
  BY <1>1, <1>2, <1>8, <1>9
<1> QED
  BY <1>1, <1>7, <1>10

LEMMA SkipKeeps ==
  ASSUME IInv, Skip
  PROVE  IInv'
<1>1. ScriptsGood /\ ran \in Nat
  BY Parts
<1>2. /\ More /\ stack' = Advanced
      /\ UNCHANGED <<mounted, running, script_depth, ring, nvs, ghosts>>
  BY DEF Skip
<1>3. stack' \in Seq(Frame) /\ Len(stack') = Len(stack) /\ stack' # <<>> /\ running = "script"
  BY <1>2, PieceRead DEF More
<1>4. ScriptsGood'
  BY <1>1, <1>2, <1>3 DEF ScriptsGood, ghosts
<1> QED
  BY <1>1, <1>2, <1>4, RingLeft DEF ghosts

LEMMA RunPieceKeeps ==
  ASSUME IInv, RunPiece
  PROVE  IInv'
<1>1. ScriptsGood /\ ran \in Nat
  BY Parts
<1>2. /\ More /\ Dispatch(Piece, Advanced) /\ ran' = ran + 1
      /\ UNCHANGED <<mounted, ring, entered>>
  BY DEF RunPiece
<1>3. Piece \in Command /\ Advanced \in Seq(Frame) /\ Len(Advanced) = Len(stack)
  BY <1>2, PieceRead
<1>4. script_depth = Len(Advanced) /\ script_depth <= MaxScriptDepth /\ nvs \in [Key -> Nat]
  BY <1>1, <1>3 DEF ScriptsGood
<1> HIDE DEF Piece, Advanced
<1>5. ScriptsGood'
  BY <1>2, <1>3, <1>4, Dispatched
<1> QED
  BY <1>1, <1>2, <1>5, RingLeft

(* A script returns, at its end or because a command of it failed. *)
LEMMA ReturnKeeps ==
  ASSUME IInv, ScriptEnds \/ ScriptAborts
  PROVE  IInv'
<1>1. ScriptsGood /\ ran \in Nat
  BY Parts
<1>2. /\ stack' = Front(stack) /\ script_depth' = script_depth - 1
      /\ UNCHANGED <<mounted, ring, nvs, ghosts>>
      /\ running # "prompt"
  BY DEF ScriptEnds, ScriptAborts
<1>3. stack \in Seq(Frame) /\ Len(stack) \in Nat \ {0}
  BY <1>1, <1>2 DEF ScriptsGood
<1>4. /\ stack' \in Seq(Frame) /\ Len(stack') = Len(stack) - 1
      /\ (stack' = <<>> <=> Len(stack) = 1)
  <2>1. stack' = SubSeq(stack, 1, Len(stack) - 1)
    BY <1>2 DEF Front
  <2>2. stack' \in Seq(Frame) /\ Len(stack') = Len(stack) - 1
    <3>1. \A i \in 1 .. Len(stack) - 1 : stack[i] \in Frame
      BY <1>3
    <3>2. Len(stack) - 1 \in Int
      BY <1>3
    <3> DEFINE n == Len(stack) - 1
               F == SubSeq(stack, 1, n)
    <3>3. F \in Seq(Frame) /\ Len(F) = IF 1 <= n THEN n - 1 + 1 ELSE 0
      BY <3>1, <3>2, SubSeqProperties
    <3>4. stack' = F
      BY <2>1
    <3> HIDE DEF F
    <3>5. n \in Nat
      BY <1>3
    <3> HIDE DEF n
    <3>6. Len(F) = n
      BY <3>3, <3>5
    <3> QED
      BY <3>3, <3>4, <3>6 DEF n
  <2>3. stack' = <<>> <=> Len(stack') = 0
    BY <2>2, EmptySeq
  <2> QED
    BY <1>3, <2>2, <2>3
<1>5. /\ running' \in {"prompt", "script", "abort"}
      /\ running' = "prompt" <=> Len(stack) = 1
      /\ running' = "script" => running = "script"
  BY DEF ScriptEnds, ScriptAborts, Resume
<1>6. ScriptsGood'
  BY <1>1, <1>2, <1>3, <1>4, <1>5 DEF ScriptsGood, ghosts
<1> QED
  BY <1>1, <1>2, <1>6, RingLeft DEF ghosts

LEMMA Step == IInv /\ [Next]_vars => IInv'
<1> SUFFICES ASSUME IInv, [Next]_vars
             PROVE  IInv'
  OBVIOUS
<1>1. CASE UNCHANGED vars
  <2>1. ScriptsGood /\ ran \in Nat
    BY Parts
  <2>2. ScriptsGood'
    BY <1>1, <2>1 DEF vars, scripts, ghosts, ScriptsGood
  <2> QED
    BY <1>1, <2>1, <2>2, RingLeft DEF vars, ghosts
<1>2. CASE \E c \in Entered : Enter(c)
  BY <1>2, EnterKeeps
<1>3. CASE Reboot \/ RunReboot
  BY <1>3, RestartKeeps DEF Reboot, RunReboot
<1>4. CASE Skip
  BY <1>4, SkipKeeps
<1>5. CASE RunPiece
  BY <1>5, RunPieceKeeps
<1>6. CASE ScriptEnds \/ ScriptAborts
  BY <1>6, ReturnKeeps
<1> QED
  BY <1>1, <1>2, <1>3, <1>4, <1>5, <1>6 DEF Next, Work

(* IInv is inductive for any scripts and any commands entered.               *)
THEOREM Invariant == Spec => []IInv
  BY Initially, Step, PTL DEF Spec

(* The variables of the engine keep their types, and the prompt is there       *)
(* exactly when no script is running.                                         *)
THEOREM TypeCorrect == Spec => []TypeOK
<1>1. IInv => TypeOK
  BY DEF IInv
<1> QED
  BY <1>1, Invariant, PTL

(* s_script_depth counts the scripts that run, however they end.              *)
THEOREM DepthExact == Spec => []DepthCountsScripts
<1>1. IInv => DepthCountsScripts
  BY DEF IInv
<1> QED
  BY <1>1, Invariant, PTL

(* The ring of cli_history_push holds the last lines entered, in order, for    *)
(* any length of the ring.                                                    *)
THEOREM HistoryExact == Spec => []HistoryHoldsLast
<1>1. IInv => HistoryHoldsLast
  BY DEF IInv
<1> QED
  BY <1>1, Invariant, PTL

(* Once a command failed no script that called the failing one runs another,   *)
(* at whatever depth.                                                         *)
THEOREM FailureEndsAll == Spec => FailureStopsScripts
<1>1. ASSUME IInv, Next, failed, running # "prompt"
      PROVE  ran' = ran /\ nvs' = nvs
  <2>1. running = "abort"
    BY <1>1, Parts DEF ScriptsGood
  <2>2. ScriptAborts
    BY <1>1, <2>1 DEF Next, Enter, Reboot, Work, Skip, RunPiece, RunReboot, More, ScriptEnds
  <2> QED
    BY <2>2 DEF ScriptAborts, ghosts
<1>2. IInv /\ [Next]_vars =>
        [failed /\ running # "prompt" => ran' = ran /\ nvs' = nvs]_vars
  BY <1>1
<1> QED
  BY <1>2, Invariant, PTL DEF Spec, FailureStopsScripts

----------------------------------------------------------------------------
(* Scripts end.  What a stack of scripts still has to read, the outermost      *)
(* script first, and nothing at the depths that are not in use: a step that    *)
(* goes on with a script may open another one, of any length, but only below  *)
(* the one that has a piece less to read.                                     *)
Within(s) == \A d \in 1 .. Len(s) : s[d].read <= Len(Pieces[s[d].file])

Left(s) ==
  [d \in 1 .. MaxScriptDepth |->
     IF d <= Len(s) THEN Len(Pieces[s[d].file]) - s[d].read + 1 ELSE 0]

Sooner == LexProductOrdering(OpToRel(<, Nat), Nat, MaxScriptDepth)

(* No script is read past its end, and every step of the CLI task that runs   *)
(* scripts leaves less to read.                                               *)
ReadsWithin == Within(stack)
ScriptsAdvance == [][(running # "prompt") => <<Left(stack'), Left(stack)>> \in Sooner]_vars

LEMMA LeftType ==
  ASSUME NEW s \in Seq(Frame), Within(s)
  PROVE  /\ Left(s) \in [1 .. MaxScriptDepth -> Nat]
         /\ \A d \in 1 .. Len(s) : Len(Pieces[s[d].file]) \in Nat /\ s[d].read \in Nat
<1>1. ASSUME NEW d \in 1 .. Len(s)
      PROVE  /\ Len(Pieces[s[d].file]) \in Nat /\ s[d].read \in Nat
             /\ Len(Pieces[s[d].file]) - s[d].read + 1 \in Nat
  <2>1. s[d] \in Frame
    OBVIOUS
  <2>2. s[d].read \in Nat /\ Pieces[s[d].file] \in Seq(Command)
    BY <2>1 DEF Frame
  <2>3. s[d].read <= Len(Pieces[s[d].file])
    BY DEF Within
  <2> QED
    BY <2>2, <2>3
<1> QED
  BY <1>1 DEF Left

(* A stack comes later than one that is the same up to a script which it has   *)
(* left, or read more of.                                                     *)
LEMMA Later ==
  ASSUME NEW s \in Seq(Frame), Within(s), NEW t \in Seq(Frame), Within(t),
         NEW j \in 1 .. Len(s), Len(s) <= MaxScriptDepth,
         \A i \in 1 .. j - 1 : i <= Len(t) /\ t[i] = s[i],
         \/ Len(t) < j
         \/ j <= Len(t) /\ t[j].file = s[j].file /\ t[j].read > s[j].read
  PROVE  <<Left(t), Left(s)>> \in Sooner
<1>1. /\ Left(s) \in [1 .. MaxScriptDepth -> Nat] /\ Left(t) \in [1 .. MaxScriptDepth -> Nat]
      /\ j \in 1 .. MaxScriptDepth
  BY LeftType
<1>2. \A i \in 1 .. j - 1 : Left(t)[i] = Left(s)[i]
  BY DEF Left
<1>3. Left(t)[j] < Left(s)[j]
  <2>1. /\ Left(s)[j] = Len(Pieces[s[j].file]) - s[j].read + 1
        /\ Len(Pieces[s[j].file]) \in Nat /\ s[j].read \in Nat /\ s[j].read <= Len(Pieces[s[j].file])
    BY <1>1, LeftType DEF Left, Within
  <2>2. CASE Len(t) < j
    <3>1. Left(t)[j] = 0
      BY <2>2, <1>1 DEF Left
    <3> QED
      BY <3>1, <2>1
  <2>3. CASE j <= Len(t) /\ t[j].file = s[j].file /\ t[j].read > s[j].read
    <3>1. Left(t)[j] = Len(Pieces[s[j].file]) - t[j].read + 1 /\ t[j].read \in Nat
      BY <2>3, <1>1, LeftType, SMTT(30) DEF Left
    <3> QED
      BY <3>1, <2>1, <2>3, SMTT(30)
  <2> QED
    BY <2>2, <2>3
<1>4. <<Left(t)[j], Left(s)[j]>> \in OpToRel(<, Nat)
  BY <1>1, <1>3 DEF OpToRel
<1> QED
  BY <1>1, <1>2, <1>4 DEF Sooner, LexProductOrdering

(* The stack while its innermost script goes on.                               *)
LEMMA AdvancedIs ==
  ASSUME IInv, More, ReadsWithin
  PROVE  /\ Advanced \in Seq(Frame) /\ Len(Advanced) = Len(stack) /\ Len(stack) \in Nat \ {0}
         /\ \A i \in 1 .. Len(stack) - 1 : Advanced[i] = stack[i]
         /\ Advanced[Len(stack)].file = Top.file /\ Advanced[Len(stack)].read = Top.read + 1
         /\ Top = stack[Len(stack)] /\ Top.read \in Nat
         /\ Within(Advanced)
<1>1. stack \in Seq(Frame) /\ stack # <<>> /\ Len(stack) \in Nat \ {0}
  BY Parts DEF ScriptsGood, More
<1>2. Top = stack[Len(stack)] /\ Top \in Frame
  BY <1>1 DEF Top, Last
<1>3. Advanced \in Seq(Frame) /\ Len(Advanced) = Len(stack)
  BY PieceRead
<1> DEFINE top == [stack[Len(stack)] EXCEPT !.read = Top.read + 1]
<1>4. top.file = Top.file /\ top.read = Top.read + 1 /\ Top.read \in Nat
  BY <1>2 DEF Frame
<1>5. Advanced = [stack EXCEPT ![Len(stack)] = top]
  BY DEF Advanced
<1> HIDE DEF top
<1>6. Advanced[Len(stack)] = top /\ \A i \in 1 .. Len(stack) - 1 : Advanced[i] = stack[i]
  BY <1>1, <1>5
<1>7. Within(Advanced)
  <2> SUFFICES ASSUME NEW d \in 1 .. Len(stack)
               PROVE  Advanced[d].read <= Len(Pieces[Advanced[d].file])
    BY <1>3 DEF Within
  <2>1. CASE d = Len(stack)
    <3>1. Top.read < Len(Pieces[Top.file]) /\ Len(Pieces[Top.file]) \in Nat
      BY <1>2 DEF More, Text, Frame
    <3> QED
      BY <2>1, <3>1, <1>4, <1>6
  <2>2. CASE d # Len(stack)
    BY <2>2, <1>1, <1>6 DEF ReadsWithin, Within
  <2> QED
    BY <2>1, <2>2
<1> QED
  BY <1>1, <1>2, <1>3, <1>4, <1>6, <1>7

(* What a command does to the scripts that are running: nothing, or it opens   *)
(* one more.                                                                  *)
LEMMA Opened ==
  ASSUME NEW c \in Command, NEW pending \in Seq(Frame), Dispatch(c, pending), Within(pending)
  PROVE  /\ stack' \in Seq(Frame) /\ Within(stack')
         /\ Len(stack') >= Len(pending) /\ \A i \in 1 .. Len(pending) : stack'[i] = pending[i]
<1>1. CASE stack' = pending
  BY <1>1
<1>2. CASE ScriptOpens(c, pending)
  <2> DEFINE f == [file |-> c.file, read |-> 0]
  <2>1. stack' = Append(pending, f) /\ c.file \in Script
    BY <1>2 DEF ScriptOpens, Command
  <2>2. f \in Frame /\ f.read = 0 /\ f.file = c.file
    BY <2>1 DEF Frame
  <2> HIDE DEF f
  <2>3. /\ stack' \in Seq(Frame) /\ Len(stack') = Len(pending) + 1
        /\ stack'[Len(pending) + 1] = f /\ \A i \in 1 .. Len(pending) : stack'[i] = pending[i]
    BY <2>1, <2>2
  <2>4. Within(stack')
    <3> SUFFICES ASSUME NEW d \in 1 .. Len(pending) + 1
                 PROVE  stack'[d].read <= Len(Pieces[stack'[d].file])
      BY <2>3 DEF Within
    <3>1. CASE d = Len(pending) + 1
      <4>1. Pieces[c.file] \in Seq(Command)
        BY <2>1
      <4> QED
        BY <3>1, <4>1, <2>2, <2>3
    <3>2. CASE d # Len(pending) + 1
      BY <3>2, <2>3 DEF Within
    <3> QED
      BY <3>1, <3>2
  <2> QED
    BY <2>3, <2>4
<1> QED
  BY <1>1, <1>2 DEF Dispatch, Simple, ScriptRefused, SetStores, SetFails, Get, Outcome

(* The stack without its innermost script.                                     *)
LEMMA Returned ==
  ASSUME stack \in Seq(Frame), Len(stack) \in Nat \ {0}
  PROVE  /\ Len(Front(stack)) = Len(stack) - 1
         /\ \A i \in 1 .. Len(stack) - 1 : Front(stack)[i] = stack[i]
<1> DEFINE n == Len(stack) - 1
           F == SubSeq(stack, 1, n)
<1>1. n \in Nat /\ \A i \in 1 .. n : stack[i] \in Frame
  OBVIOUS
<1>2. /\ Len(F) = IF 1 <= n THEN n - 1 + 1 ELSE 0
      /\ \A i \in 1 .. n - 1 + 1 : F[i] = stack[1 + i - 1]
  BY <1>1, SubSeqProperties
<1>3. Front(stack) = F
  BY DEF Front
<1> HIDE DEF F, n
<1>4. Len(F) = n /\ \A i \in 1 .. n : F[i] = stack[i]
  BY <1>1, <1>2
<1> QED
  BY <1>3, <1>4 DEF n

(* One step of the CLI task.                                                   *)
LEMMA OneStep ==
  ASSUME IInv, IInv', ReadsWithin, Next
  PROVE  ReadsWithin' /\ (running # "prompt" => <<Left(stack'), Left(stack)>> \in Sooner)
<1>1. /\ stack \in Seq(Frame) /\ stack' \in Seq(Frame) /\ Len(stack) <= MaxScriptDepth
      /\ running # "prompt" => Len(stack) \in Nat \ {0}
  <2>1. ScriptsGood
    BY Parts
  <2>2. stack' \in Seq(Frame)
    BY DEF IInv, TypeOK, Frame
  <2> QED
    BY <2>1, <2>2 DEF ScriptsGood
<1>2. CASE stack' = <<>>
  <2>1. ReadsWithin'
    BY <1>2 DEF ReadsWithin, Within
  <2>2. ASSUME running # "prompt"
        PROVE  <<Left(stack'), Left(stack)>> \in Sooner
    <3>1. 1 \in 1 .. Len(stack) /\ Len(stack') < 1 /\ 1 .. 1 - 1 = {}
      BY <1>1, <1>2, <2>2
    <3> QED
      BY <3>1, <1>1, <2>1, Later DEF ReadsWithin
  <2> QED
    BY <2>1, <2>2
<1>3. ASSUME NEW c \in Entered, Enter(c)
      PROVE  ReadsWithin' /\ running = "prompt"
  <2>1. Dispatch(c, <<>>) /\ c \in Command /\ <<>> \in Seq(Frame) /\ Within(<<>>) /\ running = "prompt"
    BY <1>3 DEF Enter, Within
  <2> QED
    BY <2>1, Opened DEF ReadsWithin
<1>4. CASE Skip \/ RunPiece
  <2> DEFINE n == Len(stack)
  <2>1. /\ Advanced \in Seq(Frame) /\ Len(Advanced) = n /\ n \in Nat \ {0}
        /\ \A i \in 1 .. n - 1 : Advanced[i] = stack[i]
        /\ Advanced[n].file = stack[n].file /\ Advanced[n].read = stack[n].read + 1
        /\ stack[n].read \in Nat /\ Within(Advanced)
    BY <1>4, AdvancedIs DEF Skip, RunPiece
  <2>2. /\ Within(stack') /\ Len(stack') >= n
        /\ \A i \in 1 .. n : stack'[i] = Advanced[i]
    <3>1. CASE Skip
      BY <3>1, <2>1 DEF Skip
    <3>2. CASE RunPiece
      <4>1. Dispatch(Piece, Advanced) /\ Piece \in Command
        BY <3>2, PieceRead DEF RunPiece
      <4> HIDE DEF Piece, Advanced
      <4> QED
        BY <4>1, <2>1, Opened
    <3> QED
      BY <3>1, <3>2, <1>4
  <2>3. /\ n \in 1 .. n /\ n <= Len(stack')
        /\ stack'[n].file = stack[n].file /\ stack'[n].read > stack[n].read
        /\ \A i \in 1 .. n - 1 : i <= Len(stack') /\ stack'[i] = stack[i]
    BY <2>1, <2>2, <1>1
  <2>4. <<Left(stack'), Left(stack)>> \in Sooner
    BY <2>2, <2>3, <1>1, Later DEF ReadsWithin
  <2> QED
    BY <2>2, <2>4 DEF ReadsWithin
<1>5. CASE ScriptEnds \/ ScriptAborts
  <2>1. stack' = Front(stack) /\ running # "prompt"
    BY <1>5 DEF ScriptEnds, ScriptAborts
  <2>2. Len(stack') = Len(stack) - 1 /\ \A i \in 1 .. Len(stack) - 1 : stack'[i] = stack[i]
    BY <2>1, <1>1, Returned
  <2>3. ReadsWithin'
    <3> SUFFICES ASSUME NEW d \in 1 .. Len(stack')
                 PROVE  stack'[d].read <= Len(Pieces[stack'[d].file])
      BY DEF ReadsWithin, Within
    <3>1. Len(stack) \in Nat \ {0} /\ d \in 1 .. Len(stack) - 1 /\ d \in 1 .. Len(stack)
      BY <2>1, <2>2, <1>1
    <3>2. stack[d].read <= Len(Pieces[stack[d].file])
      BY <3>1 DEF ReadsWithin, Within
    <3>3. stack'[d] = stack[d]
      BY <3>1, <2>2
    <3> QED
      BY <3>2, <3>3
  <2>4. /\ Len(stack) \in 1 .. Len(stack) /\ Len(stack') < Len(stack)
        /\ \A i \in 1 .. Len(stack) - 1 : i <= Len(stack') /\ stack'[i] = stack[i]
    BY <2>1, <2>2, <1>1
  <2> QED
    BY <2>3, <2>4, <1>1, Later DEF ReadsWithin
<1>6. CASE Reboot \/ RunReboot
  BY <1>2, <1>6 DEF Reboot, RunReboot, Restarts
<1> QED
  BY <1>3, <1>4, <1>5, <1>6 DEF Next, Work

(* A script is never read past its end, so the loop of cmd_script always has   *)
(* a piece to run or the end of the file to find.                             *)
THEOREM ScriptsReadInBounds == Spec => []ReadsWithin
<1>1. Init => ReadsWithin
  BY DEF Init, ReadsWithin, Within
<1>2. IInv /\ IInv' /\ ReadsWithin /\ [Next]_vars => ReadsWithin'
  <2>1. CASE UNCHANGED vars
    BY <2>1 DEF vars, scripts, ReadsWithin
  <2> QED
    BY <2>1, OneStep
<1> QED
  BY <1>1, <1>2, Invariant, PTL DEF Spec

(* The order in which what is left decreases is well founded: there is no      *)
(* endless run of steps with a script running, also for scripts that call     *)
(* themselves, because the depth is limited.  The half of PromptReturns that  *)
(* needs no fairness.                                                         *)
THEOREM ScriptsTerminate ==
  /\ IsWellFoundedOn(Sooner, [1 .. MaxScriptDepth -> Nat])
  /\ Spec => [](Left(stack) \in [1 .. MaxScriptDepth -> Nat])
  /\ Spec => ScriptsAdvance
<1>1. IsWellFoundedOn(Sooner, [1 .. MaxScriptDepth -> Nat])
  <2>1. IsWellFoundedOn(OpToRel(<, Nat), Nat)
    BY NatLessThanWellFounded
  <2> QED
    BY <2>1, WFLexProductOrdering DEF Sooner
<1>2. Spec => [](Left(stack) \in [1 .. MaxScriptDepth -> Nat])
  <2>1. IInv /\ ReadsWithin => Left(stack) \in [1 .. MaxScriptDepth -> Nat]
    BY Parts, LeftType DEF ReadsWithin, ScriptsGood
  <2> QED
    BY <2>1, Invariant, ScriptsReadInBounds, PTL
<1>3. Spec => ScriptsAdvance
  <2>1. IInv /\ IInv' /\ ReadsWithin /\ [Next]_vars =>
          [(running # "prompt") => <<Left(stack'), Left(stack)>> \in Sooner]_vars
    BY OneStep
  <2> QED
    BY <2>1, Invariant, ScriptsReadInBounds, PTL DEF Spec, ScriptsAdvance
<1> QED
  BY <1>1, <1>2, <1>3
=============================================================================
