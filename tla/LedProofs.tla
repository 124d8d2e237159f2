------------------------------- MODULE LedProofs -------------------------------
(***************************************************************************)
(* Any number of LEDs of either kind: one that does not flash shows the    *)
(* level it was last turned to.                                            *)
(*                                                                         *)
(* An LED thread that wrote back a level it had read before somebody       *)
(* turned the LED would break that.  It is two facts that save it: nobody  *)
(* turns the LEDs that flash; and those that are turned do not flash, for  *)
(* the one post they ever get, by main's flash_all_leds_once, comes before *)
(* their threads run, which forget it when they begin to wait.             *)
(***************************************************************************)
EXTENDS Led, TLAPS

SteadyIdle ==
  \A l \in Steady :
    /\ pc[l] \in {"start", "wait"}
    /\ event[l] => pc[l] = "start"

NotStarted == main = "flash" => \A l \in Leds : pc[l] = "start"

RestoresLevel == \A l \in Leds : pc[l] = "restore" => level[l] = gpio_state[l]

LedInv == LevelShown /\ SteadyIdle /\ NotStarted /\ RestoresLevel

LEMMA LedInit == Init => LedInv
BY LedAssumption DEF Init, LedInv, LevelShown, TypeOK, SteadyIdle, NotStarted, RestoresLevel

(* Between 0 and 1, inversion is what led_runloop computes.                *)
LEMMA Inverted == \A i \in {0, 1} : (i + 1) % 2 \in {0, 1}
OBVIOUS

LEMMA FlashAll == ASSUME LedInv, flash_all_leds_once PROVE LedInv'
BY LedAssumption
   DEF LedInv, LevelShown, TypeOK, SteadyIdle, NotStarted, RestoresLevel,
       flash_all_leds_once

LEMMA FlashOne ==
  ASSUME LedInv, NEW l \in Leds \ Steady, flash_led_once(l) PROVE LedInv'
<1>1. LevelShown'
  BY DEF LedInv, LevelShown, TypeOK, flash_led_once
<1>2. SteadyIdle'
  BY LedAssumption DEF LedInv, LevelShown, TypeOK, SteadyIdle, flash_led_once
<1>3. NotStarted' /\ RestoresLevel'
  BY DEF LedInv, NotStarted, RestoresLevel, flash_led_once
<1> QED  BY <1>1, <1>2, <1>3 DEF LedInv

(* Whoever turns an LED comes upon its thread waiting, or about to.        *)
LEMMA Turn ==
  ASSUME LedInv, NEW l \in Steady, NEW to \in {0, 1}, turn_led(l, to) PROVE LedInv'
<1>1. /\ l \in Leds /\ pc[l] \in {"start", "wait"}
      /\ \A k \in Leds : /\ gpio_state'[k] = IF k = l THEN to ELSE gpio_state[k]
                         /\ pin'[k] = IF k = l THEN to ELSE pin[k]
      /\ UNCHANGED <<main, event, pc, level>>
  BY LedAssumption DEF LedInv, LevelShown, TypeOK, SteadyIdle, turn_led
<1>2. TypeOK'
  BY <1>1 DEF LedInv, LevelShown, TypeOK, turn_led
<1>3. LevelShown'
  BY <1>1, <1>2 DEF LedInv, LevelShown
<1>4. RestoresLevel'
  BY <1>1 DEF LedInv, RestoresLevel
<1>5. SteadyIdle' /\ NotStarted'
  BY <1>1 DEF LedInv, SteadyIdle, NotStarted
<1> QED  BY <1>3, <1>4, <1>5 DEF LedInv

(* A step of an LED thread moves that thread.                              *)
LEMMA StepFacts ==
  ASSUME LedInv, NEW l \in Leds, NEW from, NEW to, Step(l, from, to)
  PROVE  /\ main = "done" /\ pc[l] = from
         /\ \A k \in Leds : pc'[k] = IF k = l THEN to ELSE pc[k]
BY DEF LedInv, LevelShown, TypeOK, Step

LEMMA WaitBeginLed == ASSUME LedInv, NEW l \in Leds, WaitBegin(l) PROVE LedInv'
<1>1. /\ main = "done" /\ pc[l] = "start"
      /\ \A k \in Leds : /\ pc'[k] = IF k = l THEN "wait" ELSE pc[k]
                         /\ event'[k] = IF k = l THEN FALSE ELSE event[k]
      /\ UNCHANGED <<main, gpio_state, pin, level>>
  BY StepFacts DEF LedInv, LevelShown, TypeOK, WaitBegin
<1>2. TypeOK'
  BY DEF LedInv, LevelShown, TypeOK, WaitBegin, Step
<1>3. LevelShown'
  BY <1>1, <1>2 DEF LedInv, LevelShown
<1>4. SteadyIdle'
  BY <1>1, LedAssumption DEF LedInv, SteadyIdle
<1>5. NotStarted' /\ RestoresLevel'
  BY <1>1 DEF LedInv, NotStarted, RestoresLevel
<1> QED  BY <1>3, <1>4, <1>5 DEF LedInv

LEMMA WaitEndLed == ASSUME LedInv, NEW l \in Leds, WaitEnd(l) PROVE LedInv'
<1>1. /\ main = "done" /\ pc[l] = "wait" /\ event[l]
      /\ \A k \in Leds : pc'[k] = IF k = l THEN "invert" ELSE pc[k]
      /\ UNCHANGED <<main, event, gpio_state, pin>>
      /\ level' = [level EXCEPT ![l] = (gpio_state[l] + 1) % 2]
  BY StepFacts DEF WaitEnd
<1>2. l \notin Steady
  BY <1>1 DEF LedInv, SteadyIdle
<1>3. (gpio_state[l] + 1) % 2 \in {0, 1}
  BY Inverted DEF LedInv, LevelShown, TypeOK
<1>4. \A k \in Leds : k # l => level'[k] = level[k]
  BY <1>1 DEF LedInv, LevelShown, TypeOK
<1>5. TypeOK'
  BY <1>1, <1>3 DEF LedInv, LevelShown, TypeOK, WaitEnd, Step
<1>6. LevelShown'
  BY <1>1, <1>5 DEF LedInv, LevelShown
<1>7. SteadyIdle'
  BY <1>1, <1>2, LedAssumption DEF LedInv, SteadyIdle
<1>8. NotStarted' /\ RestoresLevel'
  BY <1>1, <1>4 DEF LedInv, NotStarted, RestoresLevel
<1> QED  BY <1>6, <1>7, <1>8 DEF LedInv

LEMMA InvertLed == ASSUME LedInv, NEW l \in Leds, Invert(l) PROVE LedInv'
<1>1. /\ main = "done" /\ pc[l] = "invert"
      /\ \A k \in Leds : /\ pc'[k] = IF k = l THEN "sleep" ELSE pc[k]
                         /\ pin'[k] = IF k = l THEN level[l] ELSE pin[k]
      /\ UNCHANGED <<main, event, gpio_state, level>>
  BY StepFacts DEF LedInv, LevelShown, TypeOK, Invert
<1>2. l \notin Steady
  BY <1>1 DEF LedInv, SteadyIdle
<1>3. TypeOK'
  BY DEF LedInv, LevelShown, TypeOK, Invert, Step
<1>4. LevelShown'
  BY <1>1, <1>3 DEF LedInv, LevelShown
<1>5. SteadyIdle' /\ NotStarted' /\ RestoresLevel'
  BY <1>1, <1>2, LedAssumption DEF LedInv, SteadyIdle, NotStarted, RestoresLevel
<1> QED  BY <1>4, <1>5 DEF LedInv

LEMMA WakeLed == ASSUME LedInv, NEW l \in Leds, Wake(l) PROVE LedInv'
<1>1. /\ main = "done" /\ pc[l] = "sleep"
      /\ \A k \in Leds : /\ pc'[k] = IF k = l THEN "restore" ELSE pc[k]
                         /\ level'[k] = IF k = l THEN gpio_state[l] ELSE level[k]
      /\ UNCHANGED <<main, event, gpio_state, pin>>
  BY StepFacts DEF LedInv, LevelShown, TypeOK, Wake
<1>2. l \notin Steady
  BY <1>1 DEF LedInv, SteadyIdle
<1>3. TypeOK'
  BY DEF LedInv, LevelShown, TypeOK, Wake, Step
<1>4. LevelShown'
  BY <1>1, <1>3 DEF LedInv, LevelShown
<1>5. SteadyIdle' /\ NotStarted' /\ RestoresLevel'
  BY <1>1, <1>2, LedAssumption DEF LedInv, SteadyIdle, NotStarted, RestoresLevel
<1> QED  BY <1>4, <1>5 DEF LedInv

LEMMA RestoreLed == ASSUME LedInv, NEW l \in Leds, Restore(l) PROVE LedInv'
<1>1. /\ main = "done" /\ pc[l] = "restore" /\ level[l] = gpio_state[l]
      /\ \A k \in Leds : /\ pc'[k] = IF k = l THEN "start" ELSE pc[k]
                         /\ pin'[k] = IF k = l THEN level[l] ELSE pin[k]
      /\ UNCHANGED <<main, event, gpio_state, level>>
  BY StepFacts DEF LedInv, LevelShown, TypeOK, RestoresLevel, Restore
<1>2. TypeOK'
  BY DEF LedInv, LevelShown, TypeOK, Restore, Step
<1>3. LevelShown'
  BY <1>1, <1>2 DEF LedInv, LevelShown
<1>4. SteadyIdle' /\ NotStarted' /\ RestoresLevel'
  BY <1>1, LedAssumption DEF LedInv, SteadyIdle, NotStarted, RestoresLevel
<1> QED  BY <1>3, <1>4 DEF LedInv

LEMMA LedNext == LedInv /\ [Next]_vars => LedInv'
<1> SUFFICES ASSUME LedInv, [Next]_vars PROVE LedInv'
  OBVIOUS
<1>1. CASE UNCHANGED vars
  BY <1>1 DEF vars, LedInv, LevelShown, TypeOK, SteadyIdle, NotStarted, RestoresLevel
<1>2. ASSUME NEW l \in Leds, led_runloop(l) PROVE LedInv'
  BY <1>2, WaitBeginLed, WaitEndLed, InvertLed, WakeLed, RestoreLed DEF led_runloop
<1> QED  BY <1>1, <1>2, FlashAll, FlashOne, Turn DEF Next

(* Whoever turns LEDs on and off, and whenever that comes between two      *)
(* steps of the threads that flash them, an LED at rest shows what it was  *)
(* turned to last.                                                         *)
THEOREM RestShowsLevel == Spec => []LevelShown
<1>1. LedInv => LevelShown
  BY DEF LedInv
<1> QED  BY <1>1, LedInit, LedNext, PTL DEF Spec
===============================================================================
