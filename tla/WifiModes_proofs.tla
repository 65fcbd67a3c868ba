-------------------------- MODULE WifiModes_proofs --------------------------
(***************************************************************************)
(* Proofs about the WiFi mode and the persistent settings.  A call of the  *)
(* WiFi object is a composition of operators from worlds to worlds, so the *)
(* invariants are predicates of a world, and every operator has a lemma    *)
(* that says what it keeps of them and what of the firmware it may change. *)
(***************************************************************************)
EXTENDS WifiModes, TLAPS

Worlds == [d : Driver, fw : Firmware, ok : BOOLEAN]

\* The driver compares with the mode the firmware has.
Known(W) == Effect(W.d.wifiMode) = W.fw.mode

\* The firmware saves only while the driver counts on it.
Counted(W) == W.d.at2 /\ W.fw.store => W.d.persistent

\* A station the driver takes for started with the module is started (AT 1).
Starts(W) ==
  ~ W.d.at2 /\ W.d.wifiModeDef # Unknown /\ "STA" \in W.d.wifiModeDef => "STA" \in W.fw.modeDef

\* A command of the call that the firmware answers.
Answered(out) == out \in {"done", "refused"}

\* Nothing is in flash that was not there before.
SameFlash(V, W) ==
  V.fw.modeDef = W.fw.modeDef /\ V.fw.saved = W.fw.saved /\ V.fw.auto = W.fw.auto

-----------------------------------------------------------------------------
(* The switch of AT 2 that says whether the firmware saves.                *)

\* Turning the switch touches nothing else.
LEMMA TurnFrame ==
  ASSUME NEW W \in Worlds, NEW save \in BOOLEAN, NEW out
  PROVE  LET A == Turn(W, save, out) IN
         /\ A \in Worlds /\ A.d = W.d
         /\ SameFlash(A, W) /\ A.fw.mode = W.fw.mode
         /\ W.d.at2 /\ W.d.persistent # save /\ A.ok => A.fw.store = save
         /\ ~ W.d.at2 \/ W.d.persistent = save => A = W
         /\ Answered(out) /\ ~ A.ok => A.fw = W.fw
BY DEF Turn, FwStore, Do, Worlds, Driver, Firmware, Answered, SameFlash

\* Turning it back touches nothing else, and when that is refused the driver counts
\* on what the switch is.
LEMMA TurnBackFrame ==
  ASSUME NEW W \in Worlds, NEW save \in BOOLEAN, NEW out, NEW C, C = TurnBack(W, save, out)
  PROVE  /\ C \in Worlds
         /\ C.d.at2 = W.d.at2 /\ C.d.wifiMode = W.d.wifiMode /\ C.d.wifiModeDef = W.d.wifiModeDef
         /\ SameFlash(C, W) /\ C.fw.mode = W.fw.mode
         /\ ~ W.d.at2 \/ W.d.persistent = save => C = W
         /\ W.d.persistent = save => C.d.persistent = save
         /\ W.d.at2 /\ W.d.persistent # save /\ Answered(out) /\ (W.fw.store => save) => Counted(C)
<1> DEFINE V == FwStore(W, W.d.persistent, out)
<1>1. C \in Worlds
  <2>1. V \in Worlds
    BY DEF FwStore, Do, Worlds, Driver, Firmware
  <2>2. C = W \/ C = V \/ C = [V EXCEPT !.d.persistent = save]
    BY DEF TurnBack
  <2> HIDE DEF V
  <2> QED BY <2>1, <2>2 DEF Worlds, Driver
<1>2. C.d.at2 = W.d.at2 /\ C.d.wifiMode = W.d.wifiMode /\ C.d.wifiModeDef = W.d.wifiModeDef
  BY DEF TurnBack, FwStore, Do, Worlds, Driver
<1>3. SameFlash(C, W) /\ C.fw.mode = W.fw.mode
  BY DEF TurnBack, FwStore, Do, Worlds, Firmware, SameFlash
<1>4. /\ ~ W.d.at2 \/ W.d.persistent = save => C = W
      /\ W.d.persistent = save => C.d.persistent = save
  BY DEF TurnBack
<1>5. W.d.at2 /\ W.d.persistent # save /\ Answered(out) /\ (W.fw.store => save) => Counted(C)
  BY DEF TurnBack, FwStore, Do, Worlds, Driver, Firmware, Answered, Counted
<1> QED
  BY <1>1, <1>2, <1>3, <1>4, <1>5

-----------------------------------------------------------------------------
(* Commands of the firmware.                                               *)

\* AT+CWMODE changes the mode, the mode at startup if it is saved, and the connection.
LEMMA FwModeFrame ==
  ASSUME NEW W \in Worlds, NEW m \in Modes, NEW save \in BOOLEAN, NEW out
  PROVE  LET B == FwMode(W, m, save, out) IN
         /\ B \in Worlds /\ B.d = W.d
         /\ B.ok <=> out = "done"
         /\ B.fw.store = W.fw.store /\ B.fw.saved = W.fw.saved /\ B.fw.auto = W.fw.auto
         /\ out # "refused" => B.fw.mode = Effect(m)
         /\ out = "refused" => B.fw = W.fw
         /\ B.fw.modeDef = IF save /\ out # "refused" THEN Effect(m) ELSE W.fw.modeDef
<1> DEFINE V == [W EXCEPT !.fw.mode = Effect(m),
                          !.fw.modeDef = IF save THEN Effect(m) ELSE @,
                          !.fw.joined = @ /\ "STA" \in Effect(m)]
<1>1. Effect(m) \in Modes
  BY DEF Effect, Modes
<1>2. V \in Worlds /\ V.d = W.d
  BY <1>1 DEF Worlds, Driver, Firmware
<1>3. /\ V.fw.store = W.fw.store /\ V.fw.saved = W.fw.saved /\ V.fw.auto = W.fw.auto
      /\ V.fw.mode = Effect(m)
      /\ V.fw.modeDef = IF save THEN Effect(m) ELSE W.fw.modeDef
  BY <1>1 DEF Worlds, Driver, Firmware
<1>4. /\ FwMode(W, m, save, out) \in Worlds
      /\ FwMode(W, m, save, out).d = W.d
      /\ FwMode(W, m, save, out).ok <=> out = "done"
      /\ FwMode(W, m, save, out).fw = IF out = "refused" THEN W.fw ELSE V.fw
  <2> HIDE DEF V
  <2>1. FwMode(W, m, save, out) = Do(W, out, V)
    BY DEF FwMode, V
  <2> QED
    BY <2>1, <1>2 DEF Do, Worlds
<1> QED
  BY <1>3, <1>4

\* A setting is saved only where the firmware saves.
LEMMA FwSetFrame ==
  ASSUME NEW W \in Worlds, NEW what \in Settings, NEW out
  PROVE  LET B == FwSet(W, what, out) IN
         /\ B \in Worlds /\ B.d = W.d
         /\ B.ok <=> out = "done"
         /\ B.fw.mode = W.fw.mode /\ B.fw.modeDef = W.fw.modeDef /\ B.fw.auto = W.fw.auto
         /\ B.fw.store = W.fw.store
         /\ ~ Saves(W) => B.fw = W.fw
         /\ Saves(W) /\ out # "refused" => what \in B.fw.saved
<1> DEFINE V == [W EXCEPT !.fw.saved = IF Saves(W) THEN @ \cup {what} ELSE @]
<1>1. /\ V \in Worlds /\ V.d = W.d
      /\ V.fw.mode = W.fw.mode /\ V.fw.modeDef = W.fw.modeDef /\ V.fw.auto = W.fw.auto
      /\ V.fw.store = W.fw.store
      /\ ~ Saves(W) => V.fw = W.fw
      /\ Saves(W) => what \in V.fw.saved
  BY DEF Worlds, Firmware
<1>2. FwSet(W, what, out) = Do(W, out, V)
  BY DEF FwSet
<1> HIDE DEF V
<1>3. /\ FwSet(W, what, out) \in Worlds
      /\ FwSet(W, what, out).d = W.d
      /\ FwSet(W, what, out).ok <=> out = "done"
      /\ FwSet(W, what, out).fw = IF out = "refused" THEN W.fw ELSE V.fw
  BY <1>1, <1>2 DEF Do, Worlds
<1> QED
  BY <1>1, <1>3 DEF Worlds, Firmware

\* After a restart the firmware has the mode it starts with, and saves.
LEMMA FwRestartFrame ==
  ASSUME NEW W \in Worlds
  PROVE  LET A == FwRestart(W) IN
         /\ A \in Worlds /\ A.d = W.d
         /\ A.fw.mode = W.fw.modeDef /\ A.fw.store
         /\ SameFlash(A, W)
BY DEF FwRestart, Worlds, Firmware, SameFlash

-----------------------------------------------------------------------------
(* setWifiMode.                                                            *)

\* What every call relies on: the mode is known to the driver afterwards as before,
\* no saving is left on that the driver does not count on, and the mode at startup
\* changes only if that was asked for.

-----------------------------------------------------------------------------
(* setWifiMode.                                                            *)

\* Types, and what it leaves alone whatever becomes of its commands.
LEMMA SetWifiModeFrame ==
  ASSUME NEW W \in Worlds, NEW m \in Modes, NEW save \in BOOLEAN, NEW o
  PROVE  LET R == SetWifiMode(W, m, save, o) IN
         /\ R \in Worlds /\ R.d.at2 = W.d.at2
         /\ R.fw.saved = W.fw.saved /\ R.fw.auto = W.fw.auto
         /\ R.fw.modeDef \in {W.fw.modeDef, Effect(m)}
         /\ W.d.persistent = save => R.d.persistent = save
         /\ ~ W.d.at2 => R.d.persistent = W.d.persistent
<1> DEFINE A == Turn(W, save, o["store"])
           s == IF W.d.at2 THEN A.fw.store ELSE save
           B == FwMode(A, m, s, o["mode"])
           C == TurnBack(B, save, o["restore"])
           N == [C EXCEPT !.ok = TRUE, !.d.wifiMode = m, !.d.wifiModeDef = IF save THEN m ELSE @]
           R == SetWifiMode(W, m, save, o)
<1>1. A \in Worlds /\ A.d = W.d /\ SameFlash(A, W)
  BY TurnFrame DEF SameFlash
<1>2. s \in BOOLEAN
  BY <1>1 DEF Worlds, Firmware
<1>3. /\ B \in Worlds /\ B.d = W.d /\ B.fw.saved = W.fw.saved /\ B.fw.auto = W.fw.auto
      /\ B.fw.modeDef \in {W.fw.modeDef, Effect(m)}
  <2> HIDE DEF A, s
  <2> QED BY <1>1, <1>2, FwModeFrame DEF SameFlash
<1>4. /\ C \in Worlds /\ C.d.at2 = W.d.at2
      /\ C.fw.saved = W.fw.saved /\ C.fw.auto = W.fw.auto
      /\ C.fw.modeDef \in {W.fw.modeDef, Effect(m)}
      /\ W.d.persistent = save => C.d.persistent = save
      /\ ~ W.d.at2 => C.d.persistent = W.d.persistent
  <2>1. B \in Worlds /\ B.d = W.d /\ C = TurnBack(B, save, o["restore"])
    BY <1>3
  <2> HIDE DEF B, C
  <2> QED BY <1>3, <2>1, TurnBackFrame DEF SameFlash
<1>5. /\ N \in Worlds /\ N.fw = C.fw
      /\ N.d.at2 = C.d.at2 /\ N.d.persistent = C.d.persistent
  <2> HIDE DEF C
  <2> QED BY <1>4 DEF Worlds, Driver
<1>6. R \in {Failed(W), Ok(W), A, Failed(C), N}
  <2> HIDE DEF A, C, N
  <2> QED BY DEF SetWifiMode, A, B, C, N, s
<1>7. /\ Failed(W) \in Worlds /\ Ok(W) \in Worlds /\ Failed(C) \in Worlds
      /\ Failed(W).d = W.d /\ Ok(W).d = W.d /\ Failed(C).d = C.d
      /\ Failed(W).fw = W.fw /\ Ok(W).fw = W.fw /\ Failed(C).fw = C.fw
  BY <1>4 DEF Failed, Ok, Worlds
<1> HIDE DEF A, B, C, N, R, s
<1> QED
  BY <1>1, <1>4, <1>5, <1>6, <1>7 DEF R, SameFlash

\* The ways setWifiMode() ends, and what its commands made of the firmware until then.
LEMMA SetWifiModeEnds ==
  ASSUME NEW W \in Worlds, NEW m \in Modes, NEW save \in BOOLEAN, NEW o,
         NEW A, NEW B, NEW C \in Worlds,
         A = Turn(W, save, o["store"]),
         B = FwMode(A, m, IF W.d.at2 THEN A.fw.store ELSE save, o["mode"]),
         C = TurnBack(B, save, o["restore"])
  PROVE  LET R == SetWifiMode(W, m, save, o) IN
         \/ R.d = W.d /\ R.fw = W.fw /\ ~ R.ok
         \/ R.d = W.d /\ R.fw = W.fw /\ m = W.d.wifiMode /\ (~ save \/ m = W.d.wifiModeDef)
         \/ R = A /\ ~ A.ok
         \/ R.d = C.d /\ R.fw = C.fw /\ A.ok /\ ~ B.ok /\ ~ R.ok
         \/ /\ A.ok /\ B.ok /\ R.fw = C.fw
            /\ R.d.at2 = C.d.at2 /\ R.d.persistent = C.d.persistent /\ R.d.wifiMode = m
            /\ R.d.wifiModeDef = IF save THEN m ELSE C.d.wifiModeDef
<1> DEFINE N == [C EXCEPT !.ok = TRUE, !.d.wifiMode = m, !.d.wifiModeDef = IF save THEN m ELSE @]
<1>1. /\ N.fw = C.fw
      /\ N.d.at2 = C.d.at2 /\ N.d.persistent = C.d.persistent /\ N.d.wifiMode = m
      /\ N.d.wifiModeDef = IF save THEN m ELSE C.d.wifiModeDef
  BY DEF Worlds, Driver
<1>2. SetWifiMode(W, m, save, o) =
        IF W.d.wifiModeDef = Unknown THEN Failed(W)
        ELSE IF m = W.d.wifiMode /\ (~ save \/ m = W.d.wifiModeDef) THEN Ok(W)
        ELSE IF ~ A.ok THEN A
        ELSE IF ~ B.ok THEN Failed(C)
        ELSE N
  BY DEF SetWifiMode
<1>3. /\ Failed(W).d = W.d /\ Failed(W).fw = W.fw /\ ~ Failed(W).ok
      /\ Ok(W).d = W.d /\ Ok(W).fw = W.fw
      /\ Failed(C).d = C.d /\ Failed(C).fw = C.fw /\ ~ Failed(C).ok
  BY DEF Failed, Ok, Worlds
<1> DEFINE R == SetWifiMode(W, m, save, o)
<1>4. \/ R = Failed(W)
      \/ R = Ok(W) /\ m = W.d.wifiMode /\ (~ save \/ m = W.d.wifiModeDef)
      \/ R = A /\ ~ A.ok
      \/ R = Failed(C) /\ A.ok /\ ~ B.ok
      \/ R = N /\ A.ok /\ B.ok
  <2> HIDE DEF N
  <2> QED BY <1>2
<1> HIDE DEF N, R
<1>5. \/ R.d = W.d /\ R.fw = W.fw /\ ~ R.ok
      \/ R.d = W.d /\ R.fw = W.fw /\ m = W.d.wifiMode /\ (~ save \/ m = W.d.wifiModeDef)
      \/ R = A /\ ~ A.ok
      \/ R.d = C.d /\ R.fw = C.fw /\ A.ok /\ ~ B.ok /\ ~ R.ok
      \/ /\ A.ok /\ B.ok /\ R.fw = C.fw
         /\ R.d.at2 = C.d.at2 /\ R.d.persistent = C.d.persistent /\ R.d.wifiMode = m
         /\ R.d.wifiModeDef = IF save THEN m ELSE C.d.wifiModeDef
  BY <1>1, <1>3, <1>4
<1> QED
  BY <1>5 DEF R

\* What every call relies on when its commands are answered: the mode is known to the
\* driver afterwards as before, no saving is left on that the driver does not count
\* on, and the mode at startup changes only if something is to be saved.
LEMMA SetWifiModeKeeps ==
  ASSUME NEW W \in Worlds, NEW m \in Modes, NEW save \in BOOLEAN, NEW o,
         Answered(o["mode"]),
         W.d.at2 /\ W.d.persistent # save => Answered(o["store"]) /\ Answered(o["restore"])
  PROVE  LET R == SetWifiMode(W, m, save, o) IN
         /\ Known(W) => Known(R)
         /\ Counted(W) => Counted(R)
         /\ Counted(W) /\ ~ W.d.persistent /\ ~ save => R.fw.modeDef = W.fw.modeDef
<1> DEFINE A == Turn(W, save, o["store"])
           s == IF W.d.at2 THEN A.fw.store ELSE save
           B == FwMode(A, m, s, o["mode"])
           C == TurnBack(B, save, o["restore"])
           R == SetWifiMode(W, m, save, o)
<1>1. /\ A \in Worlds /\ A.d = W.d /\ SameFlash(A, W) /\ A.fw.mode = W.fw.mode
      /\ W.d.at2 /\ W.d.persistent # save /\ A.ok => A.fw.store = save
      /\ ~ W.d.at2 \/ W.d.persistent = save => A = W
      /\ ~ A.ok => A.fw = W.fw \/ A = W
  BY TurnFrame
<1>2. s \in BOOLEAN
  BY <1>1 DEF Worlds, Firmware
<1>3. /\ B \in Worlds /\ B.d = W.d /\ B.fw.store = A.fw.store
      /\ B.ok => B.fw.mode = Effect(m)
      /\ ~ B.ok => B.fw = A.fw
      /\ ~ s => B.fw.modeDef = W.fw.modeDef
  <2> HIDE DEF A, s
  <2> QED BY <1>1, <1>2, FwModeFrame DEF Answered, SameFlash
<1>4. /\ C \in Worlds /\ C.d.at2 = W.d.at2
      /\ C.d.wifiMode = W.d.wifiMode
      /\ C.fw.modeDef = B.fw.modeDef /\ C.fw.mode = B.fw.mode
      /\ ~ W.d.at2 \/ W.d.persistent = save => C = B
      /\ W.d.at2 /\ W.d.persistent # save /\ (B.fw.store => save) => Counted(C)
  <2>1. B \in Worlds /\ B.d = W.d /\ C = TurnBack(B, save, o["restore"])
    BY <1>3
  <2>2. B.d.at2 /\ B.d.persistent # save => Answered(o["restore"])
    BY <2>1
  <2> HIDE DEF B, C
  <2>3. /\ SameFlash(C, B)
        /\ B.d.at2 /\ B.d.persistent # save /\ (B.fw.store => save) => Counted(C)
    BY <2>1, <2>2, TurnBackFrame
  <2> QED BY <2>1, <2>3, TurnBackFrame DEF SameFlash
<1>5. \/ R.d = W.d /\ R.fw = W.fw
      \/ R = A /\ ~ A.ok
      \/ R.d = C.d /\ R.fw = C.fw /\ A.ok /\ ~ B.ok
      \/ /\ A.ok /\ B.ok /\ R.fw = C.fw
         /\ R.d.at2 = C.d.at2 /\ R.d.persistent = C.d.persistent /\ R.d.wifiMode = m
  <2>1. /\ C \in Worlds /\ A = Turn(W, save, o["store"])
        /\ B = FwMode(A, m, IF W.d.at2 THEN A.fw.store ELSE save, o["mode"])
        /\ C = TurnBack(B, save, o["restore"]) /\ R = SetWifiMode(W, m, save, o)
    BY <1>4
  <2> HIDE DEF A, B, C, R, s
  <2> QED BY <2>1, SetWifiModeEnds
<1>6. C.d \in Driver /\ R \in Worlds
  BY <1>4, SetWifiModeFrame DEF Worlds
<1> HIDE DEF A, B, C, R
<1>7. Known(W) => Known(R)
  BY <1>1, <1>3, <1>4, <1>5, <1>6 DEF Known, Driver
<1>8. ASSUME Counted(W), A.ok PROVE Counted(C)
  BY <1>1, <1>3, <1>4, <1>8 DEF Counted
<1>9. Counted(W) => Counted(R)
  BY <1>1, <1>5, <1>6, <1>8 DEF Counted, Driver
<1>10. ASSUME Counted(W), ~ W.d.persistent, ~ save PROVE ~ s
  BY <1>1, <1>10 DEF Counted, Worlds, Driver
<1> HIDE DEF s
<1> QED
  BY <1>1, <1>3, <1>4, <1>5, <1>7, <1>9, <1>10 DEF R, SameFlash

\* AT 1: a mode with the station is at startup what the driver takes it for, also when
\* an answer got lost, as long as only such modes are saved.
LEMMA SetWifiModeStarts ==
  ASSUME NEW W \in Worlds, NEW m \in Modes, NEW save \in BOOLEAN, NEW o,
         ~ W.d.at2, Starts(W), save => "STA" \in Effect(m)
  PROVE  LET R == SetWifiMode(W, m, save, o) IN
         /\ Starts(R)
         /\ R.ok /\ save /\ "STA" \in m => "STA" \in R.fw.modeDef
<1> DEFINE A == Turn(W, save, o["store"])
           s == IF W.d.at2 THEN A.fw.store ELSE save
           B == FwMode(A, m, s, o["mode"])
           C == TurnBack(B, save, o["restore"])
           R == SetWifiMode(W, m, save, o)
<1>1. A = W
  BY TurnFrame
<1>2. /\ B \in Worlds /\ B.d = W.d
      /\ B.fw.modeDef = (IF save /\ o["mode"] # "refused" THEN Effect(m) ELSE W.fw.modeDef)
      /\ B.ok => o["mode"] = "done"
  <2>1. s = save
    OBVIOUS
  <2> HIDE DEF A, s
  <2> QED BY <1>1, <2>1, FwModeFrame
<1>3. C = B
  <2> HIDE DEF B
  <2> QED BY <1>2, TurnBackFrame
<1>4. \/ R.d = W.d /\ R.fw = W.fw /\ ~ R.ok
      \/ R.d = W.d /\ R.fw = W.fw /\ m = W.d.wifiMode /\ (~ save \/ m = W.d.wifiModeDef)
      \/ R = A /\ ~ A.ok
      \/ R.d = C.d /\ R.fw = C.fw /\ A.ok /\ ~ B.ok /\ ~ R.ok
      \/ /\ A.ok /\ B.ok /\ R.fw = C.fw /\ R.d.at2 = C.d.at2
         /\ R.d.wifiModeDef = IF save THEN m ELSE C.d.wifiModeDef
  BY <1>2, <1>3, SetWifiModeEnds
<1>5. W.d \in Driver /\ R \in Worlds /\ m # Unknown
  BY SetWifiModeFrame DEF Worlds, Modes, Unknown
<1> HIDE DEF A, B, C, R, s
<1>6. Starts(R) /\ (R.ok /\ save /\ "STA" \in m => "STA" \in R.fw.modeDef)
  BY <1>1, <1>2, <1>3, <1>4, <1>5 DEF Starts, Effect
<1> QED
  BY <1>6 DEF R

-----------------------------------------------------------------------------
(* The calls.  W is the world before, V the one after some of the commands.*)

\* What holds after any call, whatever becomes of its commands.
Sound(V, W) ==
  /\ V \in Worlds /\ V.d.at2 = W.d.at2
  /\ W.fw.modeDef # {} => V.fw.modeDef # {}
  /\ Starts(W) => Starts(V)

\* What holds after a call that is not to save anything and whose commands are answered.
Quiet(V, W) ==
  /\ Known(W) => Known(V)
  /\ Counted(W) => Counted(V)
  /\ ~ W.d.persistent => ~ V.d.persistent
  /\ Counted(W) /\ ~ W.d.persistent => SameFlash(V, W)

\* The answers that turning the switch, and setWifiMode(), wait for.
SwitchAnswered(W, save, o) ==
  W.d.at2 /\ W.d.persistent # save => Answered(o["store"]) /\ Answered(o["restore"])
ModeAnswered(W, save, o) == Answered(o["mode"]) /\ SwitchAnswered(W, save, o)

\* Commands one after the other.
LEMMA Composed ==
  ASSUME NEW U, NEW V, NEW W
  PROVE  /\ Sound(V, W) /\ Sound(U, V) => Sound(U, W)
         /\ Quiet(V, W) /\ Quiet(U, V) => Quiet(U, W)
BY DEF Sound, Quiet, SameFlash

\* A setting is kept apart from the modes.
LEMMA FwSetSafe ==
  ASSUME NEW W \in Worlds, NEW what \in Settings, NEW out
  PROVE  Sound(FwSet(W, what, out), W) /\ Quiet(FwSet(W, what, out), W)
<1> DEFINE B == FwSet(W, what, out)
<1>1. /\ B \in Worlds /\ B.d = W.d
      /\ B.fw.mode = W.fw.mode /\ B.fw.modeDef = W.fw.modeDef /\ B.fw.auto = W.fw.auto
      /\ B.fw.store = W.fw.store
      /\ ~ Saves(W) => B.fw = W.fw
  BY FwSetFrame
<1> HIDE DEF B
<1>2. Sound(B, W) /\ Quiet(B, W)
  BY <1>1 DEF Sound, Quiet, Starts, Known, Counted, SameFlash, Saves
<1> QED
  BY <1>2 DEF B

\* The bits a call turns on make a mode.
LEMMA ModeWith ==
  ASSUME NEW W \in Worlds, NEW bit \in {"STA", "SAP"}
  PROVE  W.d.wifiMode \cup {bit} \in Modes
BY DEF Worlds, Driver, Modes

\* A mode that is not to be saved is a safe one.
LEMMA SetWifiModeSafe ==
  ASSUME NEW W \in Worlds, NEW m \in Modes, NEW save \in BOOLEAN, NEW o
  PROVE  LET R == SetWifiMode(W, m, save, o) IN
         /\ (save => "STA" \in Effect(m)) => Sound(R, W)
         /\ ModeAnswered(W, FALSE, o) /\ ~ save => Quiet(R, W)
<1> DEFINE R == SetWifiMode(W, m, save, o)
<1>1. /\ R \in Worlds /\ R.d.at2 = W.d.at2
      /\ R.fw.saved = W.fw.saved /\ R.fw.auto = W.fw.auto
      /\ R.fw.modeDef \in {W.fw.modeDef, Effect(m)}
      /\ W.d.persistent = save => R.d.persistent = save
  BY SetWifiModeFrame
<1>2. Effect(m) # {}
  BY DEF Effect
<1>3. ASSUME save => "STA" \in Effect(m) PROVE Starts(W) => Starts(R)
  <2>1. CASE W.d.at2
    <3> HIDE DEF R
    <3> QED BY <1>1, <2>1 DEF Starts
  <2>2. CASE ~ W.d.at2
    BY <1>3, <2>2, SetWifiModeStarts
  <2> QED BY <2>1, <2>2
<1>4. ASSUME ModeAnswered(W, FALSE, o), save = FALSE
      PROVE  /\ Known(W) => Known(R)
             /\ Counted(W) => Counted(R)
             /\ Counted(W) /\ ~ W.d.persistent => R.fw.modeDef = W.fw.modeDef
  BY <1>4, SetWifiModeKeeps DEF ModeAnswered, SwitchAnswered
<1> HIDE DEF R
<1>5. W.d.persistent \in BOOLEAN
  BY DEF Worlds, Driver
<1>6. ASSUME save => "STA" \in Effect(m) PROVE Sound(R, W)
  BY <1>1, <1>2, <1>3, <1>6 DEF Sound
<1>7. ASSUME ModeAnswered(W, FALSE, o), save = FALSE PROVE Quiet(R, W)
  BY <1>1, <1>4, <1>5, <1>7 DEF Quiet, SameFlash
<1> QED
  BY <1>6, <1>7 DEF R

\* A setting of the station or of the access point.
LEMMA SetSafe ==
  ASSUME NEW W \in Worlds, NEW bit \in {"STA", "SAP"}, NEW what \in Settings, NEW o
  PROVE  LET R == Set(W, bit, what, o) IN
         /\ Sound(R, W)
         /\ ModeAnswered(W, FALSE, o) => Quiet(R, W)
<1> DEFINE A == SetWifiMode(W, W.d.wifiMode \cup {bit}, FALSE, o)
           B == FwSet(A, what, o["main"])
<1>1. Sound(A, W) /\ (ModeAnswered(W, FALSE, o) => Quiet(A, W))
  BY ModeWith, SetWifiModeSafe
<1>2. A \in Worlds
  BY <1>1 DEF Sound
<1> HIDE DEF A
<1>3. Sound(B, A) /\ Quiet(B, A)
  BY <1>2, FwSetSafe
<1> HIDE DEF B
<1>4. Sound(B, W) /\ (ModeAnswered(W, FALSE, o) => Quiet(B, W))
  BY <1>1, <1>3, Composed
<1>5. Set(W, bit, what, o) = A \/ Set(W, bit, what, o) = B
  BY DEF Set, A, B
<1> QED
  BY <1>1, <1>4, <1>5

\* Whether the commands of a call were done so far is no part of what it keeps.
LEMMA OkAside ==
  ASSUME NEW V \in Worlds, NEW W, NEW b \in BOOLEAN
  PROVE  /\ [V EXCEPT !.ok = b] \in Worlds
         /\ [V EXCEPT !.ok = b].d = V.d /\ [V EXCEPT !.ok = b].fw = V.fw
         /\ [V EXCEPT !.ok = b].ok = b
         /\ Sound(V, W) => Sound([V EXCEPT !.ok = b], W)
         /\ Quiet(V, W) => Quiet([V EXCEPT !.ok = b], W)
<1> DEFINE U == [V EXCEPT !.ok = b]
<1>1. U \in Worlds /\ U.d = V.d /\ U.fw = V.fw /\ U.ok = b
  BY DEF Worlds
<1> HIDE DEF U
<1>2. Sound(V, W) => Sound(U, W)
  BY <1>1 DEF Sound, Starts
<1>3. Quiet(V, W) => Quiet(U, W)
  BY <1>1 DEF Quiet, Known, Counted, SameFlash
<1> QED
  BY <1>1, <1>2, <1>3 DEF U

\* What the firmware does about the network it is told of, and whether it joins it.
LEMMA JoinedAside ==
  ASSUME NEW V \in Worlds, NEW b \in BOOLEAN
  PROVE  LET J == [V EXCEPT !.fw.joined = b] IN
         /\ J \in Worlds /\ J.d = V.d /\ J.ok = V.ok
         /\ J.fw.mode = V.fw.mode /\ J.fw.modeDef = V.fw.modeDef /\ J.fw.saved = V.fw.saved
         /\ J.fw.auto = V.fw.auto /\ J.fw.store = V.fw.store
         /\ Sound(J, V) /\ Quiet(J, V)
<1> DEFINE J == [V EXCEPT !.fw.joined = b]
<1>1. /\ J \in Worlds /\ J.d = V.d /\ J.ok = V.ok
      /\ J.fw.mode = V.fw.mode /\ J.fw.modeDef = V.fw.modeDef /\ J.fw.saved = V.fw.saved
      /\ J.fw.auto = V.fw.auto /\ J.fw.store = V.fw.store
  BY DEF Worlds, Firmware
<1> HIDE DEF J
<1>2. Sound(J, V) /\ Quiet(J, V)
  BY <1>1 DEF Sound, Quiet, Starts, Known, Counted, SameFlash
<1> QED
  BY <1>1, <1>2 DEF J

\* Whether the firmware joins at startup is saved in any case.
LEMMA AutoAside ==
  ASSUME NEW V \in Worlds, NEW b \in BOOLEAN, NEW out
  PROVE  LET N == Do(V, out, [V EXCEPT !.fw.auto = b]) IN
         /\ N \in Worlds /\ N.d = V.d
         /\ N.fw.mode = V.fw.mode /\ N.fw.modeDef = V.fw.modeDef /\ N.fw.saved = V.fw.saved
         /\ N.fw.store = V.fw.store
         /\ Sound(N, V)
         /\ Known(V) => Known(N)
         /\ Counted(V) => Counted(N)
<1> DEFINE M == [V EXCEPT !.fw.auto = b]
           N == Do(V, out, M)
<1>1. /\ M \in Worlds /\ M.d = V.d
      /\ M.fw.mode = V.fw.mode /\ M.fw.modeDef = V.fw.modeDef /\ M.fw.saved = V.fw.saved
      /\ M.fw.store = V.fw.store
  BY DEF Worlds, Firmware
<1> HIDE DEF M
<1>2. /\ N \in Worlds /\ N.d = V.d /\ N.fw \in {V.fw, M.fw}
  BY <1>1 DEF Do, Worlds
<1> HIDE DEF N
<1>3. Sound(N, V) /\ (Known(V) => Known(N)) /\ (Counted(V) => Counted(N))
  BY <1>1, <1>2 DEF Sound, Starts, Known, Counted
<1> QED
  BY <1>1, <1>2, <1>3 DEF N, M

\* A begin() saves for a sketch that is persistent, and then, when it succeeds with
\* AT 1, the network is saved and the station started with the module.
LEMMA JoinAPSafe ==
  ASSUME NEW W \in Worlds, NEW o, W.ok
  PROVE  LET R == JoinAP(W, o) IN
         /\ Sound(R, W)
         /\ ModeAnswered(W, W.d.persistent, o) =>
              /\ Known(W) => Known(R)
              /\ Counted(W) => Counted(R)
              /\ Counted(W) /\ ~ W.d.persistent => SameFlash(R, W)
         /\ ~ W.d.at2 /\ W.d.persistent /\ Starts(W) /\ R.ok =>
              "net" \in R.fw.saved /\ "STA" \in R.fw.modeDef
<1> DEFINE m == W.d.wifiMode \cup {"STA"}
           A == SetWifiMode(W, m, W.d.persistent, o)
           B == FwSet(A, "net", o["main"])
           joined == (o["main"] # "refused")
           J == [B EXCEPT !.fw.joined = joined]
           C == Do(J, o["again"], [J EXCEPT !.fw.auto = TRUE])
           O == [C EXCEPT !.ok = TRUE]
           R == JoinAP(W, o)
<1>1. m \in Modes /\ "STA" \in Effect(m) /\ "STA" \in m /\ W.d.persistent \in BOOLEAN
  BY ModeWith DEF Effect, Worlds, Driver
<1>2. Sound(A, W) /\ A \in Worlds /\ A.d.at2 = W.d.at2 /\ A.d.persistent = W.d.persistent
      /\ A.fw.saved = W.fw.saved /\ A.fw.auto = W.fw.auto
  <2> HIDE DEF m
  <2>1. Sound(A, W)
    BY <1>1, SetWifiModeSafe
  <2> QED BY <1>1, <2>1, SetWifiModeFrame
<1>3. ASSUME ModeAnswered(W, W.d.persistent, o)
      PROVE  /\ Known(W) => Known(A)
             /\ Counted(W) => Counted(A)
             /\ Counted(W) /\ ~ W.d.persistent => A.fw.modeDef = W.fw.modeDef
  <2> HIDE DEF m
  <2> QED BY <1>1, <1>3, SetWifiModeKeeps DEF ModeAnswered, SwitchAnswered
<1>4. ~ W.d.at2 /\ W.d.persistent /\ Starts(W) /\ A.ok => "STA" \in A.fw.modeDef
  <2> HIDE DEF m
  <2> QED BY <1>1, SetWifiModeStarts
<1> HIDE DEF A
<1>5. /\ Sound(B, A) /\ Quiet(B, A) /\ B \in Worlds /\ B.d = A.d
      /\ B.fw.modeDef = A.fw.modeDef
      /\ Saves(A) /\ B.ok => "net" \in B.fw.saved
  BY <1>2, FwSetFrame, FwSetSafe DEF Settings
<1> HIDE DEF B
<1>6. /\ Sound(J, B) /\ Quiet(J, B) /\ J \in Worlds /\ J.d = B.d /\ J.ok = B.ok
      /\ J.fw.modeDef = B.fw.modeDef /\ J.fw.saved = B.fw.saved
  <2>1. joined \in BOOLEAN
    OBVIOUS
  <2> HIDE DEF joined
  <2> QED BY <1>5, <2>1, JoinedAside
<1> HIDE DEF J
<1>7. /\ Sound(C, J) /\ C \in Worlds /\ C.d = J.d
      /\ C.fw.modeDef = J.fw.modeDef /\ C.fw.saved = J.fw.saved
      /\ (Known(J) => Known(C)) /\ (Counted(J) => Counted(C))
  BY <1>6, AutoAside
<1> HIDE DEF C
<1>8. Sound(O, J) /\ O.fw = C.fw /\ O.d = C.d
  BY <1>7, OkAside
<1>9. Sound(J, W) /\ Sound(O, W)
  BY <1>2, <1>5, <1>6, <1>8, Composed
<1>10. /\ Known(A) => Known(J) /\ Known(O)
       /\ Counted(A) => Counted(J) /\ Counted(O)
       /\ Counted(A) /\ ~ A.d.persistent => SameFlash(J, A)
  BY <1>5, <1>6, <1>7, <1>8, Composed DEF Quiet, Known, Counted
<1>11. R = IF ~ A.ok THEN A ELSE IF ~ B.ok \/ ~ A.d.persistent THEN J ELSE O
  BY DEF JoinAP, A, B, C, J, Ok
<1> HIDE DEF m, O, R
<1>12. ASSUME ModeAnswered(W, W.d.persistent, o)
       PROVE  /\ Known(W) => Known(R)
              /\ Counted(W) => Counted(R)
              /\ Counted(W) /\ ~ W.d.persistent => SameFlash(R, W)
  BY <1>2, <1>3, <1>10, <1>11, <1>12 DEF SameFlash
<1>13. ASSUME ~ W.d.at2, W.d.persistent, Starts(W), R.ok
       PROVE  "net" \in R.fw.saved /\ "STA" \in R.fw.modeDef
  <2>1. Saves(A)
    BY <1>2, <1>13 DEF Saves
  <2> QED
    BY <1>2, <1>4, <1>5, <1>6, <1>7, <1>8, <1>11, <1>13, <2>1
<1> QED
  BY <1>2, <1>9, <1>11, <1>12, <1>13 DEF R

\* A disconnect() leaves the modes alone, and the start of the module unless it saves.
LEMMA QuitAPSafe ==
  ASSUME NEW W \in Worlds, NEW save \in BOOLEAN, NEW o
  PROVE  LET R == QuitAP(W, save, o) IN
         /\ Sound(R, W)
         /\ Known(W) => Known(R)
         /\ SwitchAnswered(W, save, o) => (Counted(W) => Counted(R))
         /\ ~ W.d.persistent /\ ~ save => SameFlash(R, W)
<1> DEFINE A == Turn(W, save, o["store"])
           N == [A EXCEPT !.fw.auto = FALSE]
           B == IF A.d.persistent \/ save THEN Do(A, o["again"], N) ELSE A
           C == TurnBack(B, save, o["restore"])
           L == [C EXCEPT !.fw.joined = FALSE]
           M == Do(C, o["main"], L)
           R == QuitAP(W, save, o)
<1>1. /\ A \in Worlds /\ A.d = W.d /\ SameFlash(A, W) /\ A.fw.mode = W.fw.mode
      /\ W.d.at2 /\ W.d.persistent # save /\ A.ok => A.fw.store = save
      /\ ~ W.d.at2 \/ W.d.persistent = save => A = W
      /\ Answered(o["store"]) /\ ~ A.ok => A.fw = W.fw
  BY TurnFrame
<1> HIDE DEF A
<1>2. /\ B \in Worlds /\ B.d = W.d /\ B.fw.mode = W.fw.mode /\ B.fw.modeDef = W.fw.modeDef
      /\ B.fw.store = A.fw.store
      /\ ~ W.d.persistent /\ ~ save => B = A
  <2>1. CASE A.d.persistent \/ save
    <3>1. /\ Do(A, o["again"], N) \in Worlds /\ Do(A, o["again"], N).d = A.d
          /\ Do(A, o["again"], N).fw.mode = A.fw.mode
          /\ Do(A, o["again"], N).fw.modeDef = A.fw.modeDef
          /\ Do(A, o["again"], N).fw.store = A.fw.store
      BY <1>1, AutoAside
    <3>2. B = Do(A, o["again"], N)
      BY <2>1
    <3> HIDE DEF B, N
    <3> QED BY <1>1, <2>1, <3>1, <3>2 DEF SameFlash
  <2>2. CASE ~ (A.d.persistent \/ save)
    BY <1>1, <2>2 DEF SameFlash
  <2> QED BY <2>1, <2>2
<1> HIDE DEF B
<1>3. /\ C \in Worlds /\ C.d.at2 = W.d.at2
      /\ C.d.wifiMode = W.d.wifiMode /\ C.d.wifiModeDef = W.d.wifiModeDef
      /\ SameFlash(C, B) /\ C.fw.mode = B.fw.mode
      /\ ~ W.d.at2 \/ W.d.persistent = save => C = B
      /\ W.d.at2 /\ W.d.persistent # save /\ Answered(o["restore"]) /\ (B.fw.store => save)
           => Counted(C)
  BY <1>2, TurnBackFrame
<1> HIDE DEF C
<1>4. L \in Worlds /\ L.d = C.d /\ SameFlash(L, C) /\ L.fw.mode = C.fw.mode /\ L.fw.store = C.fw.store
  BY <1>3, JoinedAside DEF SameFlash
<1> HIDE DEF L
<1>5. M \in Worlds /\ M.d = C.d /\ SameFlash(M, C) /\ M.fw.mode = C.fw.mode /\ M.fw.store = C.fw.store
  BY <1>3, <1>4 DEF Do, Worlds, SameFlash
<1> HIDE DEF M
<1>6. Failed(W) \in Worlds /\ Failed(W).d = W.d /\ Failed(W).fw = W.fw
  BY DEF Failed, Worlds
<1>7. \/ R = Failed(W)
      \/ R = A /\ ~ A.ok
      \/ R = M /\ A.ok
  BY DEF QuitAP, A, B, C, L, M, N
<1> HIDE DEF R
<1>8. Sound(R, W)
  BY <1>1, <1>2, <1>3, <1>5, <1>6, <1>7 DEF Sound, Starts, SameFlash
<1>9. Known(W) => Known(R)
  BY <1>1, <1>2, <1>3, <1>5, <1>6, <1>7 DEF Known
<1>10. ASSUME SwitchAnswered(W, save, o), Counted(W)
       PROVE  Counted(R)
  <2>1. ASSUME R = A, ~ A.ok PROVE Counted(R)
    BY <1>1, <1>10, <2>1 DEF Counted, SwitchAnswered
  <2>2. ASSUME R = M, A.ok PROVE Counted(R)
    <3>1. Counted(C)
      BY <1>1, <1>2, <1>3, <1>10, <2>2 DEF Counted, SwitchAnswered
    <3> QED BY <1>5, <2>2, <3>1 DEF Counted
  <2> QED BY <1>6, <1>7, <1>10, <2>1, <2>2 DEF Counted
<1>11. ~ W.d.persistent /\ ~ save => SameFlash(R, W)
  BY <1>1, <1>2, <1>3, <1>5, <1>6, <1>7 DEF SameFlash
<1> QED
  BY <1>8, <1>9, <1>10, <1>11 DEF R

\* reset() keeps what is in flash; when it succeeds the driver knows the mode the module
\* started with, and counts on the saving that was not turned off.
LEMMA DriverResetSafe ==
  ASSUME NEW W \in Worlds, NEW o, W.fw.modeDef # {}
  PROVE  LET R == DriverReset(W, o) IN
         /\ Sound(R, W)
         /\ SameFlash(R, W)
         /\ R.ok /\ (W.d.at2 => Answered(o["store"])) => Known(R) /\ Counted(R)
<1> DEFINE A == FwRestart(W)
           B == IF W.d.at2 THEN FwStore(A, FALSE, o["store"]) ELSE A
           C == IF B.ok \/ ~ W.d.at2 THEN B ELSE [B EXCEPT !.d.persistent = TRUE]
           D == IF o["mode"] = "refused" THEN C ELSE [C EXCEPT !.d.wifiMode = C.fw.mode]
           E == [D EXCEPT !.ok = TRUE, !.d.wifiModeDef = D.fw.mode]
           R == DriverReset(W, o)
<1>1. A \in Worlds /\ A.d = W.d /\ A.fw.mode = W.fw.modeDef /\ A.fw.store /\ SameFlash(A, W)
  BY FwRestartFrame
<1> HIDE DEF A
<1>2. /\ B \in Worlds /\ B.d = W.d /\ B.fw.mode = W.fw.modeDef /\ SameFlash(B, W)
      /\ W.d.at2 /\ B.ok => ~ B.fw.store
  BY <1>1 DEF FwStore, Do, Worlds, Firmware, SameFlash
<1> HIDE DEF B
<1>3. /\ C \in Worlds /\ C.d.at2 = W.d.at2 /\ C.d.wifiModeDef = W.d.wifiModeDef
      /\ C.fw = B.fw /\ Counted(C)
  BY <1>2 DEF Worlds, Driver, Counted
<1> HIDE DEF C
<1>4. C.fw.mode \in Modes /\ W.d.at2 \in BOOLEAN
  BY <1>3, WifiModesAssumption DEF Worlds, Firmware, Driver
<1>5. /\ D \in Worlds /\ D.d.at2 = W.d.at2 /\ D.d.wifiModeDef = W.d.wifiModeDef
      /\ D.fw = B.fw /\ Counted(D)
      /\ o["mode"] # "refused" => D.d.wifiMode = D.fw.mode
  BY <1>3, <1>4 DEF Worlds, Driver, Counted
<1> HIDE DEF D
<1>6. /\ E \in Worlds /\ E.d.at2 = W.d.at2 /\ E.d.wifiModeDef = D.fw.mode
      /\ E.fw = B.fw /\ Counted(E) /\ E.ok
      /\ E.d.wifiMode = D.d.wifiMode
  <2>1. D.fw.mode \in Modes
    BY <1>5 DEF Worlds, Firmware
  <2> QED BY <1>5, <2>1 DEF Worlds, Driver, Counted
<1> HIDE DEF E
<1>7. /\ Failed(A) \in Worlds /\ Failed(A).d = A.d /\ Failed(A).fw = A.fw /\ ~ Failed(A).ok
      /\ Failed(D) \in Worlds /\ Failed(D).d = D.d /\ Failed(D).fw = D.fw /\ ~ Failed(D).ok
  BY <1>1, <1>5 DEF Failed, Worlds
<1>8. R = IF o["main"] # "done" THEN Failed(A) ELSE IF o["mode"] # "done" THEN Failed(D) ELSE E
  BY DEF DriverReset, A, B, C, D, E
<1> HIDE DEF R
<1>9. SameFlash(R, W)
  BY <1>1, <1>2, <1>5, <1>6, <1>7, <1>8 DEF SameFlash
<1>10. Sound(R, W)
  BY <1>1, <1>2, <1>5, <1>6, <1>7, <1>8, <1>9 DEF Sound, Starts, SameFlash
<1>11. R.ok => Known(R) /\ Counted(R)
  <2>1. ASSUME R.ok PROVE R = E /\ o["mode"] = "done"
    BY <1>7, <1>8, <2>1
  <2>2. B.fw.mode # {}
    BY <1>2
  <2> QED BY <1>2, <1>5, <1>6, <2>1, <2>2 DEF Known, Effect, SameFlash
<1> QED
  BY <1>9, <1>10, <1>11 DEF R

-----------------------------------------------------------------------------
(* The steps.                                                              *)

AllAnswered == "unanswered" \notin Outcomes

\* A step that makes V of the world.
Makes(V) == Sound(V, World) /\ d' = V.d /\ fw' = V.fw

LEMMA WorldTyped ==
  ASSUME TypeOK
  PROVE  World \in Worlds /\ World.d = d /\ World.fw = fw /\ World.ok
BY DEF TypeOK, World, Worlds

\* A call that is given an outcome for each of its commands has the answers it waits for.
LEMMA AnswersAnswered ==
  ASSUME AllAnswered, NEW save, NEW commands, NEW o \in AnswersSaving(save, commands)
  PROVE  /\ "mode" \in commands => Answered(o["mode"])
         /\ d.at2 /\ d.persistent # save => Answered(o["store"]) /\ Answered(o["restore"])
<1>1. \A out \in Outcomes : Answered(out)
  BY WifiModesAssumption DEF Answered, AllAnswered
<1>2. PICK all : o \in [all -> Outcomes] /\ commands \subseteq all
                 /\ (d.at2 /\ d.persistent # save => {"store", "restore"} \subseteq all)
  <2>1. CASE d.persistent = save
    BY <2>1 DEF AnswersSaving
  <2>2. CASE d.persistent # save /\ d.at2
    BY <2>2 DEF AnswersSaving, Answers
  <2>3. CASE d.persistent # save /\ ~ d.at2
    BY <2>3 DEF AnswersSaving, Answers
  <2> QED BY <2>1, <2>2, <2>3
<1>3. \A c \in all : o[c] \in Outcomes
  BY <1>2
<1> QED
  BY <1>1, <1>2, <1>3

LEMMA UnsavedAnswered ==
  ASSUME TypeOK, NEW commands, "mode" \in commands, NEW o \in AnswersSaving(FALSE, commands)
  PROVE  AllAnswered => ModeAnswered(World, FALSE, o)
BY AnswersAnswered DEF ModeAnswered, SwitchAnswered, World

LEMMA ConfigStep ==
  ASSUME TypeOK, NEW o \in AnswersSaving(FALSE, {"main", "mode", "again"}), Config(o)
  PROVE  \E V : Makes(V) /\ (AllAnswered => Quiet(V, World)) /\ UNCHANGED <<state, fine>>
<1> DEFINE A == Set(World, "STA", "ip", o)
           B == FwSet(A, "ip", o["again"])
<1>1. World \in Worlds /\ World.d = d
  BY WorldTyped
<1>2. AllAnswered => ModeAnswered(World, FALSE, o)
  BY UnsavedAnswered
<1>3. Sound(A, World) /\ (AllAnswered => Quiet(A, World)) /\ A \in Worlds
  BY <1>1, <1>2, SetSafe DEF Settings, Sound
<1> HIDE DEF A
<1>4. Sound(B, World) /\ (AllAnswered => Quiet(B, World))
  BY <1>3, FwSetSafe, Composed DEF Settings
<1>5. Call(IF A.ok THEN B ELSE A)
  BY DEF Config, A
<1> HIDE DEF B
<1> QED
  BY <1>3, <1>4, <1>5 DEF Call, Become, Makes

LEMMA EnableDHCPStep ==
  ASSUME TypeOK, NEW o \in AnswersSaving(FALSE, {"main", "mode", "again"}), EnableDHCP(o)
  PROVE  \E V : Makes(V) /\ (AllAnswered => Quiet(V, World)) /\ UNCHANGED <<state, fine>>
<1> DEFINE A == SetWifiMode(World, d.wifiMode \cup {"STA"}, FALSE, o)
           B == FwSet(A, "ip", o["again"])
           C == FwSet(B, "ip", o["main"])
<1>1. World \in Worlds /\ World.d = d /\ d.wifiMode \cup {"STA"} \in Modes
  BY WorldTyped, ModeWith
<1>2. AllAnswered => ModeAnswered(World, FALSE, o)
  BY UnsavedAnswered
<1>3. Sound(A, World) /\ (AllAnswered => Quiet(A, World)) /\ A \in Worlds
  <2>1. Sound(A, World)
    BY <1>1, SetWifiModeSafe
  <2>2. AllAnswered => Quiet(A, World)
    BY <1>1, <1>2, SetWifiModeSafe
  <2> QED BY <2>1, <2>2 DEF Sound
<1> HIDE DEF A
<1>4. Sound(B, World) /\ (AllAnswered => Quiet(B, World)) /\ B \in Worlds
  BY <1>3, FwSetSafe, Composed DEF Settings, Sound
<1>5. Call(IF A.ok THEN C ELSE A)
  BY DEF EnableDHCP, A
<1> HIDE DEF B
<1>6. Sound(C, World) /\ (AllAnswered => Quiet(C, World))
  BY <1>4, FwSetSafe, Composed DEF Settings
<1> HIDE DEF C
<1> QED
  BY <1>3, <1>5, <1>6 DEF Call, Become, Makes

LEMMA SetHostnameStep ==
  ASSUME TypeOK, NEW o \in AnswersSaving(FALSE, {"main", "mode"}), SetHostname(o)
  PROVE  \E V : Makes(V) /\ (AllAnswered => Quiet(V, World)) /\ UNCHANGED <<state, fine>>
<1> DEFINE A == SetWifiMode(World, d.wifiMode \cup {"STA"}, FALSE, o)
           B == Do(A, o["main"], A)
<1>1. World \in Worlds /\ World.d = d /\ d.wifiMode \cup {"STA"} \in Modes
  BY WorldTyped, ModeWith
<1>2. AllAnswered => ModeAnswered(World, FALSE, o)
  BY UnsavedAnswered
<1>3. Sound(A, World) /\ (AllAnswered => Quiet(A, World)) /\ A \in Worlds
  <2>1. Sound(A, World)
    BY <1>1, SetWifiModeSafe
  <2>2. AllAnswered => Quiet(A, World)
    BY <1>1, <1>2, SetWifiModeSafe
  <2> QED BY <2>1, <2>2 DEF Sound
<1>4. Call(IF A.ok THEN B ELSE A)
  BY DEF SetHostname
<1> HIDE DEF A
<1>5. B.d = A.d /\ B.fw = A.fw
  BY <1>3 DEF Do, Worlds
<1> HIDE DEF B
<1> QED
  BY <1>3, <1>4, <1>5 DEF Call, Become, Makes

LEMMA BeginAPStep ==
  ASSUME TypeOK, NEW commands, "mode" \in commands,
         NEW o \in AnswersSaving(FALSE, commands),
         NEW ssid \in BOOLEAN, BeginAP(ssid, o)
  PROVE  \E V : Makes(V) /\ (AllAnswered => Quiet(V, World)) /\ UNCHANGED <<state, fine>>
<1> DEFINE A == SetWifiMode(World, d.wifiMode \cup {"SAP"}, FALSE, o)
           B == FwSet(A, "ap", o["main"])
<1>1. World \in Worlds /\ World.d = d /\ d.wifiMode \cup {"SAP"} \in Modes
  BY WorldTyped, ModeWith
<1>2. AllAnswered => ModeAnswered(World, FALSE, o)
  BY UnsavedAnswered
<1>3. Sound(A, World) /\ (AllAnswered => Quiet(A, World)) /\ A \in Worlds
  <2>1. Sound(A, World)
    BY <1>1, SetWifiModeSafe
  <2>2. AllAnswered => Quiet(A, World)
    BY <1>1, <1>2, SetWifiModeSafe
  <2> QED BY <2>1, <2>2 DEF Sound
<1>4. Call(IF A.ok /\ ssid THEN B ELSE A)
  BY DEF BeginAP
<1> HIDE DEF A
<1>5. Sound(B, World) /\ (AllAnswered => Quiet(B, World))
  BY <1>3, FwSetSafe, Composed DEF Settings
<1> HIDE DEF B
<1> QED
  BY <1>3, <1>4, <1>5 DEF Call, Become, Makes

LEMMA ConfigureAPStep ==
  ASSUME TypeOK, NEW o \in AnswersSaving(FALSE, {"main", "mode"}),
         NEW p \in AnswersSaving(FALSE, {"mode"}), ConfigureAP(o, p)
  PROVE  \E V : Makes(V) /\ (AllAnswered => Quiet(V, World)) /\ UNCHANGED <<state, fine>>
<1> DEFINE A == SetWifiMode(World, d.wifiMode \cup {"SAP"}, FALSE, o)
           B == FwSet(A, "ip", o["main"])
           O == [B EXCEPT !.ok = TRUE]
           C == SetWifiMode(O, d.wifiMode, FALSE, p)
           E == [C EXCEPT !.ok = B.ok]
<1>1. /\ World \in Worlds /\ World.d = d /\ d.wifiMode \cup {"SAP"} \in Modes
      /\ d.wifiMode \in Modes /\ d.persistent \in BOOLEAN
  BY WorldTyped, ModeWith DEF Worlds, Driver
<1>2. AllAnswered => ModeAnswered(World, FALSE, o)
  BY UnsavedAnswered
<1>3. Sound(A, World) /\ (AllAnswered => Quiet(A, World)) /\ A \in Worlds
  <2>1. Sound(A, World)
    BY <1>1, SetWifiModeSafe
  <2>2. AllAnswered => Quiet(A, World)
    BY <1>1, <1>2, SetWifiModeSafe
  <2> QED BY <2>1, <2>2 DEF Sound
<1>4. Call(IF A.ok THEN E ELSE A)
  BY DEF ConfigureAP, Ok
<1> HIDE DEF A
<1>5. Sound(B, World) /\ (AllAnswered => Quiet(B, World)) /\ B \in Worlds
  BY <1>3, FwSetSafe, Composed DEF Settings, Sound
<1> HIDE DEF B
<1>6. Sound(O, World) /\ (AllAnswered => Quiet(O, World)) /\ O \in Worlds
  BY <1>5, OkAside
<1> HIDE DEF O
<1>7. AllAnswered => ModeAnswered(O, FALSE, p)
  <2>1. ASSUME AllAnswered
        PROVE  /\ Answered(p["mode"])
               /\ d.at2 /\ d.persistent # FALSE => Answered(p["store"]) /\ Answered(p["restore"])
    BY <2>1, AnswersAnswered
  <2>2. ASSUME AllAnswered PROVE O.d.at2 = d.at2 /\ (~ d.persistent => ~ O.d.persistent)
    BY <1>1, <1>6, <2>2 DEF Sound, Quiet
  <2>3. O.d.persistent \in BOOLEAN
    BY <1>6 DEF Worlds, Driver
  <2> QED BY <1>1, <2>1, <2>2, <2>3 DEF ModeAnswered, SwitchAnswered
<1>8. Sound(C, O) /\ (AllAnswered => Quiet(C, O)) /\ C \in Worlds
  <2>1. Sound(C, O)
    BY <1>1, <1>6, SetWifiModeSafe
  <2>2. AllAnswered => Quiet(C, O)
    BY <1>1, <1>6, <1>7, SetWifiModeSafe
  <2> QED BY <2>1, <2>2 DEF Sound
<1> HIDE DEF C
<1>9. Sound(C, World) /\ (AllAnswered => Quiet(C, World)) /\ B.ok \in BOOLEAN
  BY <1>5, <1>6, <1>8, Composed DEF Worlds
<1>10. Sound(E, World) /\ (AllAnswered => Quiet(E, World))
  BY <1>8, <1>9, OkAside
<1> HIDE DEF E
<1> QED
  BY <1>3, <1>4, <1>10 DEF Call, Become, Makes

LEMMA SetPersistentStep ==
  ASSUME TypeOK, NEW o \in Answers({}), NEW b \in BOOLEAN, SetPersistent(b, o)
  PROVE  \E V : /\ Makes(V) /\ SameFlash(V, World)
                /\ (Known(World) => Known(V))
                /\ (AllAnswered => (Counted(World) => Counted(V)))
                /\ UNCHANGED <<state, fine>>
<1> DEFINE S == FwStore(World, b, o["store"])
           P == IF d.at2 THEN S ELSE World
           V == [P EXCEPT !.d.persistent = IF P.ok THEN b ELSE @]
<1>1. World \in Worlds /\ World.d = d /\ World.ok
  BY WorldTyped
<1>2. /\ S \in Worlds /\ S.d = d /\ SameFlash(S, World) /\ S.fw.mode = World.fw.mode
      /\ S.ok => S.fw.store = b
      /\ Answered(o["store"]) /\ ~ S.ok => S.fw = World.fw
  BY <1>1 DEF FwStore, Do, Worlds, Firmware, SameFlash, Answered
<1>3. AllAnswered /\ d.at2 => Answered(o["store"])
  BY WifiModesAssumption DEF Answers, AllAnswered, Answered
<1>4. Call(V)
  BY DEF SetPersistent
<1> HIDE DEF S
<1>5. /\ P \in Worlds /\ P.d = d /\ SameFlash(P, World) /\ P.fw.mode = World.fw.mode
      /\ d.at2 /\ P.ok => P.fw.store = b
      /\ AllAnswered /\ ~ P.ok => P.fw = World.fw
  BY <1>1, <1>2, <1>3 DEF SameFlash
<1> HIDE DEF P
<1>6. /\ V \in Worlds /\ V.fw = P.fw /\ V.d.at2 = d.at2
      /\ V.d.persistent = (IF P.ok THEN b ELSE d.persistent)
      /\ V.d.wifiMode = d.wifiMode /\ V.d.wifiModeDef = d.wifiModeDef
  BY <1>5 DEF Worlds, Driver
<1> HIDE DEF V
<1>7. Sound(V, World) /\ SameFlash(V, World) /\ (Known(World) => Known(V))
  BY <1>1, <1>5, <1>6 DEF Sound, SameFlash, Starts, Known
<1>8. AllAnswered => (Counted(World) => Counted(V))
  BY <1>1, <1>5, <1>6 DEF Counted
<1> QED
  BY <1>4, <1>7, <1>8 DEF Call, Become, Makes

\* The calls that send nothing but settings.
LEMMA SettingStep ==
  ASSUME TypeOK, SettingCall
  PROVE  \E V : /\ Makes(V)
                /\ AllAnswered /\ Known(World) => Known(V)
                /\ AllAnswered /\ Counted(World) => Counted(V)
                /\ AllAnswered /\ Counted(World) /\ ~ d.persistent => SameFlash(V, World)
                /\ UNCHANGED <<state, fine>>
<1>0. World.d = d
  BY WorldTyped
<1> DEFINE P == \E V : Makes(V) /\ (AllAnswered => Quiet(V, World)) /\ UNCHANGED <<state, fine>>
<1>1. ASSUME NEW o \in AnswersSaving(FALSE, {"main", "mode", "again"}), Config(o) \/ EnableDHCP(o)
      PROVE  P
  BY <1>1, ConfigStep, EnableDHCPStep
<1>2. ASSUME NEW o \in AnswersSaving(FALSE, {"main", "mode"}), SetHostname(o) PROVE P
  BY <1>2, SetHostnameStep
<1>3. ASSUME NEW o \in AnswersSaving(FALSE, {"main", "mode"}),
             NEW ssid \in BOOLEAN, BeginAP(ssid, o)
      PROVE  P
  BY <1>3, BeginAPStep
<1>4. ASSUME NEW o \in AnswersSaving(FALSE, {"main", "mode"}),
             NEW p \in AnswersSaving(FALSE, {"mode"}), ConfigureAP(o, p)
      PROVE  P
  BY <1>4, ConfigureAPStep
<1>5. CASE P
  BY <1>0, <1>5 DEF Quiet
<1>6. CASE \E o \in Answers({}), b \in BOOLEAN : SetPersistent(b, o)
  BY <1>6, SetPersistentStep
<1> QED
  BY <1>1, <1>2, <1>3, <1>4, <1>5, <1>6 DEF SettingCall

LEMMA BeginStep ==
  ASSUME TypeOK, BeginCall
  PROVE  \E V : /\ Makes(V)
                /\ AllAnswered /\ Known(World) => Known(V)
                /\ AllAnswered /\ Counted(World) => Counted(V)
                /\ AllAnswered /\ Counted(World) /\ ~ d.persistent => SameFlash(V, World)
                /\ Starts(World) /\ ~ d.at2 /\ d.persistent /\ V.ok =>
                     "net" \in V.fw.saved /\ "STA" \in V.fw.modeDef
                /\ state' = (IF V.ok THEN "CONNECTED" ELSE "CONNECT_FAILED") /\ UNCHANGED fine
<1>1. World \in Worlds /\ World.d = d /\ World.ok /\ d.persistent \in BOOLEAN
  BY WorldTyped DEF Worlds, Driver
<1>2. PICK o \in Answers({"main", "mode", "again"}) : Begin(o)
  BY DEF BeginCall
<1> DEFINE V == JoinAP(World, o)
<1>3. AllAnswered => ModeAnswered(World, d.persistent, o)
  <2>1. ASSUME AllAnswered PROVE ModeAnswered(World, d.persistent, o)
    <3>1. \A out \in Outcomes : Answered(out)
      BY <2>1, WifiModesAssumption DEF Answered, AllAnswered
    <3>2. o["mode"] \in Outcomes /\ (d.at2 => o["store"] \in Outcomes /\ o["restore"] \in Outcomes)
      BY DEF Answers
    <3> QED BY <1>1, <3>1, <3>2 DEF ModeAnswered, SwitchAnswered
  <2> QED BY <2>1
<1>4. /\ Sound(V, World)
      /\ ModeAnswered(World, World.d.persistent, o) =>
           /\ Known(World) => Known(V)
           /\ Counted(World) => Counted(V)
           /\ Counted(World) /\ ~ World.d.persistent => SameFlash(V, World)
      /\ ~ World.d.at2 /\ World.d.persistent /\ Starts(World) /\ V.ok =>
           "net" \in V.fw.saved /\ "STA" \in V.fw.modeDef
  BY <1>1, JoinAPSafe
<1>5. d' = V.d /\ fw' = V.fw /\ state' = (IF V.ok THEN "CONNECTED" ELSE "CONNECT_FAILED")
      /\ UNCHANGED fine
  BY <1>2 DEF Begin, Become
<1> HIDE DEF V
<1> QED
  BY <1>1, <1>3, <1>4, <1>5 DEF Makes

LEMMA DisconnectStep ==
  ASSUME TypeOK, NEW save \in BOOLEAN, DisconnectCall(save)
  PROVE  \E V : /\ Makes(V)
                /\ Known(World) => Known(V)
                /\ AllAnswered /\ Counted(World) => Counted(V)
                /\ ~ d.persistent /\ ~ save => SameFlash(V, World)
                /\ state' \in {"DISCONNECTED", state} /\ UNCHANGED fine
<1>1. World \in Worlds /\ World.d = d
  BY WorldTyped
<1>2. PICK o \in AnswersSaving(save, {"main", "again"}) : Disconnect(save, o)
  BY DEF DisconnectCall
<1> DEFINE V == QuitAP(World, save, o)
<1>3. AllAnswered => SwitchAnswered(World, save, o)
  BY AnswersAnswered DEF SwitchAnswered, World
<1>4. /\ Sound(V, World)
      /\ Known(World) => Known(V)
      /\ SwitchAnswered(World, save, o) => (Counted(World) => Counted(V))
      /\ ~ World.d.persistent /\ ~ save => SameFlash(V, World)
  BY <1>1, QuitAPSafe
<1>5. d' = V.d /\ fw' = V.fw /\ state' \in {"DISCONNECTED", state} /\ UNCHANGED fine
  BY <1>2 DEF Disconnect, Become
<1> HIDE DEF V
<1>6. AllAnswered => (Counted(World) => Counted(V))
  BY <1>1, <1>3, <1>4
<1>7. ~ d.persistent /\ ~ save => SameFlash(V, World)
  BY <1>1, <1>4
<1> QED
  BY <1>4, <1>5, <1>6, <1>7 DEF Makes

LEMMA AutoConnectStep ==
  ASSUME TypeOK, AutoConnectCall
  PROVE  \E V : Makes(V) /\ (Known(World) => Known(V)) /\ (Counted(World) => Counted(V))
                /\ UNCHANGED <<state, fine>>
<1>1. World \in Worlds
  BY WorldTyped
<1>2. PICK out \in Outcomes, b \in BOOLEAN : Call(Do(World, out, [World EXCEPT !.fw.auto = b]))
  BY DEF AutoConnectCall, SetAutoConnect
<1> QED
  BY <1>1, <1>2, AutoAside DEF Call, Become, Makes

LEMMA EndAPStep ==
  ASSUME TypeOK, NEW save \in BOOLEAN, EndAPCall(save)
  PROVE  \E V : /\ Makes(V)
                /\ AllAnswered /\ Known(World) => Known(V)
                /\ AllAnswered /\ Counted(World) => Counted(V)
                /\ AllAnswered /\ Counted(World) /\ ~ d.persistent /\ ~ save => SameFlash(V, World)
                /\ UNCHANGED <<state, fine>>
<1>1. World \in Worlds /\ World.d = d /\ d.persistent \in BOOLEAN /\ {} \in Modes
  BY WorldTyped DEF Worlds, Driver, Modes
<1> DEFINE s == d.persistent \/ save
<1>2. PICK o \in AnswersSaving(s, {"mode"}) : EndAP(save, o)
  BY DEF EndAPCall
<1>3. s \in BOOLEAN /\ (~ d.persistent /\ ~ save => ~ s)
  BY <1>1
<1> DEFINE V == SetWifiMode(World, {}, s, o)
<1>4. d' = V.d /\ fw' = V.fw /\ UNCHANGED <<state, fine>>
  BY <1>2 DEF EndAP, Call, Become
<1> HIDE DEF s
<1>5. AllAnswered => /\ Answered(o["mode"])
                     /\ d.at2 /\ d.persistent # s => Answered(o["store"]) /\ Answered(o["restore"])
  BY AnswersAnswered
<1>6. Sound(V, World)
  BY <1>1, <1>3, SetWifiModeSafe DEF Effect
<1>7. AllAnswered => /\ Known(World) => Known(V)
                     /\ Counted(World) => Counted(V)
                     /\ Counted(World) /\ ~ d.persistent /\ ~ s => V.fw.modeDef = World.fw.modeDef
  BY <1>1, <1>3, <1>5, SetWifiModeKeeps
<1>8. V.fw.saved = World.fw.saved /\ V.fw.auto = World.fw.auto
  BY <1>1, <1>3, SetWifiModeFrame
<1> HIDE DEF V
<1> QED
  BY <1>3, <1>4, <1>6, <1>7, <1>8 DEF Makes, SameFlash

\* reset() and init()
LEMMA ResetStep ==
  ASSUME TypeOK, fw.modeDef # {},
         InitCall \/ \E o \in Answers({"main", "mode"}) : Reset(o)
  PROVE  \E V : /\ Makes(V) /\ SameFlash(V, World)
                /\ AllAnswered /\ fine' => Known(V) /\ Counted(V)
                /\ fine' \in BOOLEAN /\ state' \in {"IDLE", "NO_MODULE", state}
<1>1. World \in Worlds /\ World.d = d /\ World.fw = fw
  BY WorldTyped
<1>2. PICK o \in Answers({"main", "mode"}) : WiFiInit(o) \/ Reset(o)
  BY DEF InitCall
<1> DEFINE V == DriverReset(World, o)
<1>3. d' = V.d /\ fw' = V.fw /\ fine' = V.ok /\ state' \in {"IDLE", "NO_MODULE", state}
  BY <1>2 DEF WiFiInit, Reset, Become
<1>4. AllAnswered => (d.at2 => Answered(o["store"]))
  BY WifiModesAssumption DEF Answers, AllAnswered, Answered
<1>5. /\ Sound(V, World) /\ SameFlash(V, World)
      /\ V.ok /\ (World.d.at2 => Answered(o["store"])) => Known(V) /\ Counted(V)
  BY <1>1, DriverResetSafe
<1>6. V.ok \in BOOLEAN
  BY <1>5 DEF Sound, Worlds
<1> HIDE DEF V
<1> QED
  BY <1>1, <1>3, <1>4, <1>5, <1>6 DEF Makes

\* status() and the firmware on its own
LEMMA OtherStep ==
  ASSUME TypeOK, StatusCall \/ FwJoins \/ FwLeaves
  PROVE  \E V : /\ Makes(V) /\ SameFlash(V, World)
                /\ Known(World) => Known(V)
                /\ Counted(World) => Counted(V)
                /\ state' \in States /\ UNCHANGED fine
<1>1. World \in Worlds /\ World.d = d /\ World.fw = fw
  BY WorldTyped
<1>2. CASE StatusCall
  <2>1. UNCHANGED <<d, fw, fine>> /\ state' \in States
    BY <1>2 DEF StatusCall, Status, NextState, TypeOK, States
  <2> QED
    BY <1>1, <2>1 DEF Makes, Sound, SameFlash
<1>3. CASE FwJoins \/ FwLeaves
  <2>1. PICK b \in BOOLEAN : fw' = [fw EXCEPT !.joined = b] /\ UNCHANGED <<d, state, fine>>
    BY <1>3 DEF FwJoins, FwLeaves
  <2> DEFINE V == [World EXCEPT !.fw.joined = b]
  <2>2. V.d = d /\ V.fw = [fw EXCEPT !.joined = b]
    BY DEF World
  <2>3. /\ Sound(V, World) /\ Quiet(V, World)
        /\ V.fw.modeDef = World.fw.modeDef /\ V.fw.saved = World.fw.saved
        /\ V.fw.auto = World.fw.auto
    BY <1>1, JoinedAside
  <2> HIDE DEF V
  <2> QED
    BY <2>1, <2>2, <2>3 DEF Makes, Quiet, SameFlash, TypeOK
<1> QED
  BY <1>2, <1>3

-----------------------------------------------------------------------------
(* The inductive invariants.                                               *)

\* Whatever becomes of the commands.
StartInv == TypeOK /\ fw.modeDef # {} /\ Starts(World)

\* When every command is answered: since the last reset() that succeeded the driver
\* knows the mode of the firmware, and counts on the saving that is on.
KeptInv == fine => Known(World) /\ Counted(World)

\* What a step makes of the world is the next world.
LEMMA MadeWorld ==
  ASSUME StartInv, NEW V, Makes(V), state' \in States, fine' \in BOOLEAN
  PROVE  /\ StartInv'
         /\ Known(V) => Known(World)'
         /\ Counted(V) => Counted(World)'
         /\ SameFlash(V, World) => Flash' = Flash
<1>1. World \in Worlds /\ World.d = d /\ World.fw = fw
  BY WorldTyped DEF StartInv
<1>2. World'.d = V.d /\ World'.fw = V.fw
  BY DEF Makes, World
<1>3. V.d \in Driver /\ V.fw \in Firmware /\ V.fw.modeDef # {} /\ Starts(V)
  BY <1>1 DEF StartInv, Makes, Sound, Worlds
<1>4. StartInv'
  BY <1>2, <1>3 DEF StartInv, TypeOK, Makes, Starts
<1>5. /\ Known(V) => Known(World)'
      /\ Counted(V) => Counted(World)'
  BY <1>2 DEF Known, Counted
<1>6. SameFlash(V, World) => Flash' = Flash
  BY <1>1 DEF SameFlash, Flash, Makes
<1> QED
  BY <1>4, <1>5, <1>6

LEMMA InitInv == Init => StartInv /\ KeptInv
<1> SUFFICES ASSUME Init PROVE StartInv /\ KeptInv
  OBVIOUS
<1>1. PICK v \in Versions :
        d = [at2 |-> v, persistent |-> FALSE, wifiMode |-> {}, wifiModeDef |-> Unknown]
  BY DEF Init
<1>2. PICK m \in Modes \ {{}}, s \in SUBSET {"net"}, a \in BOOLEAN :
        fw = [mode |-> m, modeDef |-> m, store |-> TRUE, saved |-> s, auto |-> a, joined |-> FALSE]
  BY DEF Init
<1>3. d \in Driver
  BY <1>1 DEF Driver, Modes
<1>4. fw \in Firmware /\ fw.modeDef # {}
  <2>1. m \in Modes /\ s \in SUBSET Settings
    BY DEF Settings
  <2> QED BY <1>2, <2>1 DEF Firmware
<1>5. d.wifiModeDef = Unknown
  BY <1>1
<1>6. Starts(World)
  BY <1>5 DEF Starts, World
<1> QED
  BY <1>3, <1>4, <1>6 DEF Init, StartInv, KeptInv, TypeOK, States

\* One step for each kind of call; only reset() and init() change `fine'.
LEMMA NextKeeps ==
  ASSUME StartInv, [Next]_vars
  PROVE  /\ StartInv'
         /\ AllAnswered /\ KeptInv => KeptInv'
         /\ AllAnswered /\ KeptInv /\ fine /\ Flash' # Flash => Asked
<1>0. TypeOK /\ fw.modeDef # {} /\ state \in States /\ fine \in BOOLEAN /\ d.persistent \in BOOLEAN
  BY DEF StartInv, TypeOK, Driver
<1> DEFINE Goal == /\ StartInv'
                   /\ AllAnswered /\ KeptInv => KeptInv'
                   /\ AllAnswered /\ KeptInv /\ fine /\ Flash' # Flash => Asked
<1>1. ASSUME NEW V, Makes(V), state' \in States, UNCHANGED fine,
             AllAnswered /\ Known(World) => Known(V),
             AllAnswered /\ Counted(World) => Counted(V),
             AllAnswered /\ Counted(World) /\ ~ Asked => SameFlash(V, World)
      PROVE  Goal
  <2>1. /\ StartInv'
        /\ Known(V) => Known(World)'
        /\ Counted(V) => Counted(World)'
        /\ SameFlash(V, World) => Flash' = Flash
    BY <1>0, <1>1, MadeWorld
  <2> QED
    BY <1>1, <2>1 DEF KeptInv
<1>2. ASSUME SettingCall PROVE Goal
  <2>1. PICK V : /\ Makes(V)
                 /\ AllAnswered /\ Known(World) => Known(V)
                 /\ AllAnswered /\ Counted(World) => Counted(V)
                 /\ AllAnswered /\ Counted(World) /\ ~ d.persistent => SameFlash(V, World)
                 /\ UNCHANGED <<state, fine>>
    BY <1>0, <1>2, SettingStep
  <2> QED BY <1>0, <1>1, <2>1 DEF Asked
<1>3. ASSUME BeginCall PROVE Goal
  <2>1. PICK V : /\ Makes(V)
                 /\ AllAnswered /\ Known(World) => Known(V)
                 /\ AllAnswered /\ Counted(World) => Counted(V)
                 /\ AllAnswered /\ Counted(World) /\ ~ d.persistent => SameFlash(V, World)
                 /\ state' = (IF V.ok THEN "CONNECTED" ELSE "CONNECT_FAILED") /\ UNCHANGED fine
    BY <1>0, <1>3, BeginStep
  <2>2. state' \in States
    BY <2>1 DEF States
  <2> QED BY <1>1, <2>1, <2>2 DEF Asked
<1>4. ASSUME NEW save \in BOOLEAN, DisconnectCall(save) PROVE Goal
  <2>1. PICK V : /\ Makes(V)
                 /\ Known(World) => Known(V)
                 /\ AllAnswered /\ Counted(World) => Counted(V)
                 /\ ~ d.persistent /\ ~ save => SameFlash(V, World)
                 /\ state' \in {"DISCONNECTED", state} /\ UNCHANGED fine
    BY <1>0, <1>4, DisconnectStep
  <2>2. ~ Asked => ~ d.persistent /\ ~ save
    BY <1>4 DEF Asked
  <2>3. state' \in States
    BY <1>0, <2>1 DEF States
  <2> QED BY <1>1, <2>1, <2>2, <2>3
<1>5. ASSUME NEW save \in BOOLEAN, EndAPCall(save) PROVE Goal
  <2>1. PICK V : /\ Makes(V)
                 /\ AllAnswered /\ Known(World) => Known(V)
                 /\ AllAnswered /\ Counted(World) => Counted(V)
                 /\ AllAnswered /\ Counted(World) /\ ~ d.persistent /\ ~ save => SameFlash(V, World)
                 /\ UNCHANGED <<state, fine>>
    BY <1>0, <1>5, EndAPStep
  <2>2. ~ Asked => ~ d.persistent /\ ~ save
    BY <1>5 DEF Asked
  <2> QED BY <1>0, <1>1, <2>1, <2>2
<1>6. ASSUME AutoConnectCall PROVE Goal
  <2>1. PICK V : Makes(V) /\ (Known(World) => Known(V)) /\ (Counted(World) => Counted(V))
                 /\ UNCHANGED <<state, fine>>
    BY <1>0, <1>6, AutoConnectStep
  <2>2. Asked
    BY <1>6 DEF Asked
  <2> QED BY <1>0, <1>1, <2>1, <2>2
<1>7. ASSUME StatusCall \/ FwJoins \/ FwLeaves PROVE Goal
  <2>1. PICK V : /\ Makes(V) /\ SameFlash(V, World)
                 /\ Known(World) => Known(V)
                 /\ Counted(World) => Counted(V)
                 /\ state' \in States /\ UNCHANGED fine
    BY <1>0, <1>7, OtherStep
  <2> QED BY <1>1, <2>1
<1>8. ASSUME InitCall \/ \E o \in Answers({"main", "mode"}) : Reset(o) PROVE Goal
  <2>1. PICK V : /\ Makes(V) /\ SameFlash(V, World)
                 /\ AllAnswered /\ fine' => Known(V) /\ Counted(V)
                 /\ fine' \in BOOLEAN /\ state' \in {"IDLE", "NO_MODULE", state}
    BY <1>0, <1>8, ResetStep
  <2>2. state' \in States
    BY <1>0, <2>1 DEF States
  <2>3. /\ StartInv'
        /\ Known(V) => Known(World)'
        /\ Counted(V) => Counted(World)'
        /\ SameFlash(V, World) => Flash' = Flash
    BY <2>1, <2>2, MadeWorld
  <2> QED BY <2>1, <2>3 DEF KeptInv
<1>9. ASSUME UNCHANGED vars PROVE Goal
  <2>1. UNCHANGED <<d, fw, state, fine>>
    BY <1>9 DEF vars
  <2>2. World' = World /\ Flash' = Flash
    BY <2>1 DEF World, Flash
  <2>3. StartInv'
    BY <2>1, <2>2 DEF StartInv, TypeOK, Starts
  <2> QED BY <2>1, <2>2, <2>3 DEF KeptInv, Known, Counted
<1> HIDE DEF Goal
<1>10. ASSUME Next PROVE Goal
  <2>1. CASE \E save \in BOOLEAN : DisconnectCall(save) \/ EndAPCall(save)
    BY <1>4, <1>5, <2>1
  <2> QED
    BY <1>2, <1>3, <1>6, <1>7, <1>8, <1>10, <2>1 DEF Next
<1>11. Goal
  BY <1>9, <1>10 DEF Goal
<1> QED
  BY <1>11 DEF Goal

-----------------------------------------------------------------------------
(* The theorems.                                                           *)

\* The records hold what their types allow.
THEOREM TypesCorrect == Spec => []TypeOK
<1>1. StartInv /\ [Next]_vars => StartInv'
  BY NextKeeps
<1>2. StartInv => TypeOK
  BY DEF StartInv
<1> QED
  BY InitInv, <1>1, <1>2, PTL DEF Spec

\* Whatever becomes of the commands on the way, refused or carried out without an
\* answer: joinAP() saves the network and the station for a persistent sketch (AT 1).
THEOREM PersistentRemembered == Spec => RememberedAT1
<1>1. StartInv /\ [Next]_vars => StartInv'
  BY NextKeeps
<1>2. ASSUME StartInv, [Next]_vars
      PROVE  [~ d.at2 /\ d.persistent /\ Forgotten => ~ BeginCall]_vars
  <2> SUFFICES ASSUME ~ d.at2, d.persistent, BeginCall PROVE ~ Forgotten
    OBVIOUS
  <2>1. TypeOK /\ Starts(World)
    BY <1>2 DEF StartInv
  <2>2. PICK V : /\ Makes(V)
                 /\ Starts(World) /\ ~ d.at2 /\ d.persistent /\ V.ok =>
                      "net" \in V.fw.saved /\ "STA" \in V.fw.modeDef
                 /\ state' = (IF V.ok THEN "CONNECTED" ELSE "CONNECT_FAILED")
    BY <2>1, BeginStep
  <2> QED
    BY <2>1, <2>2 DEF Forgotten, Makes
<1>3. Spec => [][~ d.at2 /\ d.persistent /\ Forgotten => ~ BeginCall]_vars
  BY InitInv, <1>1, <1>2, PTL DEF Spec
<1> QED
  BY <1>3 DEF RememberedAT1

\* The mode the driver compares with is the mode of the firmware, whatever was refused.
THEOREM ModeIsKnown ==
  ASSUME AllAnswered
  PROVE  Spec => []ModeKnown
<1>1. StartInv /\ KeptInv /\ [Next]_vars => StartInv' /\ KeptInv'
  BY NextKeeps
<1>2. KeptInv => ModeKnown
  BY DEF KeptInv, ModeKnown, Known, World
<1> QED
  BY InitInv, <1>1, <1>2, PTL DEF Spec

\* The firmware saves only while the driver counts on it, whatever was refused.
THEOREM SavesAreKnown ==
  ASSUME AllAnswered
  PROVE  Spec => []SavesKnown
<1>1. StartInv /\ KeptInv /\ [Next]_vars => StartInv' /\ KeptInv'
  BY NextKeeps
<1>2. KeptInv => SavesKnown
  BY DEF KeptInv, SavesKnown, Counted, World
<1> QED
  BY InitInv, <1>1, <1>2, PTL DEF Spec

\* Nothing is written to flash for a sketch that did not ask for it.
THEOREM FlashIsSpared ==
  ASSUME AllAnswered
  PROVE  Spec => FlashOnlyWhenAsked
<1>1. StartInv /\ KeptInv /\ [Next]_vars => StartInv' /\ KeptInv'
  BY NextKeeps
<1>2. StartInv /\ KeptInv /\ [Next]_vars => [fine /\ Flash' # Flash => Asked]_vars
  BY NextKeeps
<1>3. Spec => [][fine /\ Flash' # Flash => Asked]_vars
  BY InitInv, <1>1, <1>2, PTL DEF Spec
<1> QED
  BY <1>3 DEF FlashOnlyWhenAsked
=============================================================================
