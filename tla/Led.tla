---------------------------------- MODULE Led ----------------------------------
(***************************************************************************)
(* The status LEDs of led.c.  Each has a thread that flashes it when its   *)
(* event is posted; other threads turn LEDs on and off directly.  The LED  *)
(* threads have the lowest priority: whoever calls turn_led_on or          *)
(* flash_led_once is done with it before a LED thread goes on, but may     *)
(* come between any two steps of one.                                      *)
(***************************************************************************)
EXTENDS Integers

CONSTANTS
  Leds,
  Steady  \* LEDs that are turned on and off: OH_NO_LED and the Wi-Fi LEDs;
          \* the others are flashed (apart from flash_all_leds_once)

ASSUME LedAssumption == Steady \subseteq Leds

VARIABLES
  main,        \* where main is: "flash" before flash_all_leds_once, or "done"
  event,       \* per LED: its event is posted
  gpio_state,  \* per LED: the level it has when it does not flash
  pin,         \* per LED: the level it has
  pc, level    \* per LED: where its thread is, the level it is about to set

vars == <<main, event, gpio_state, pin, pc, level>>

(* led_init: all LEDs are on for 250 ms, then off, and have their threads.  *)
Init ==
  /\ main = "flash"
  /\ event = [l \in Leds |-> FALSE]
  /\ gpio_state = [l \in Leds |-> 0]
  /\ pin = [l \in Leds |-> 0]
  /\ pc = [l \in Leds |-> "start"]
  /\ level = [l \in Leds |-> 0]

(* main's flash_all_leds_once, right after led_init.                        *)
flash_all_leds_once ==
  /\ main = "flash"
  /\ main' = "done"
  /\ event' = [l \in Leds |-> TRUE]
  /\ UNCHANGED <<gpio_state, pin, pc, level>>

flash_led_once(l) ==
  /\ main = "done"
  /\ event' = [event EXCEPT ![l] = TRUE]
  /\ UNCHANGED <<main, gpio_state, pin, pc, level>>

(* turn_led_on and turn_led_off.                                            *)
turn_led(l, to) ==
  /\ main = "done"
  /\ gpio_state' = [gpio_state EXCEPT ![l] = to]
  /\ pin' = [pin EXCEPT ![l] = to]
  /\ UNCHANGED <<main, event, pc, level>>

-------------------------------------------------------------------------------
(* led_runloop of LED l.                                                    *)
Step(l, from, to) ==
  /\ main = "done"
  /\ pc[l] = from
  /\ pc' = [pc EXCEPT ![l] = to]

(* Mutant: k_event_wait with reset = false.                                 *)
WaitBegin_no_reset(l) ==
  /\ Step(l, "start", "wait")
  /\ UNCHANGED <<main, event, gpio_state, pin, level>>

(* k_event_wait with reset = true forgets what was posted before it waits.  *)
WaitBegin(l) ==
  /\ Step(l, "start", "wait")
  /\ event' = [event EXCEPT ![l] = FALSE]
  /\ UNCHANGED <<main, gpio_state, pin, level>>

(* Mutant: takes the level without inverting it.                            *)
WaitEnd_same(l) ==
  /\ event[l]
  /\ Step(l, "wait", "invert")
  /\ level' = [level EXCEPT ![l] = gpio_state[l]]
  /\ UNCHANGED <<main, event, gpio_state, pin>>

WaitEnd(l) ==
  /\ event[l]
  /\ Step(l, "wait", "invert")
  /\ level' = [level EXCEPT ![l] = (gpio_state[l] + 1) % 2]
  /\ UNCHANGED <<main, event, gpio_state, pin>>

Invert(l) ==
  /\ Step(l, "invert", "sleep")
  /\ pin' = [pin EXCEPT ![l] = level[l]]
  /\ UNCHANGED <<main, event, gpio_state, level>>

(* Mutant: leaves the LED as it is.                                         *)
Wake_no_restore(l) ==
  /\ Step(l, "sleep", "start")
  /\ UNCHANGED <<main, event, gpio_state, pin, level>>

(* FLASH_LENGTH has gone by.                                                *)
Wake(l) ==
  /\ Step(l, "sleep", "restore")
  /\ level' = [level EXCEPT ![l] = gpio_state[l]]
  /\ UNCHANGED <<main, event, gpio_state, pin>>

Restore(l) ==
  /\ Step(l, "restore", "start")
  /\ pin' = [pin EXCEPT ![l] = level[l]]
  /\ UNCHANGED <<main, event, gpio_state, level>>

led_runloop(l) == WaitBegin(l) \/ WaitEnd(l) \/ Invert(l) \/ Wake(l) \/ Restore(l)

Next ==
  \/ flash_all_leds_once
  \/ \E l \in Leds : led_runloop(l)
  \/ \E l \in Leds \ Steady : flash_led_once(l)
  \/ \E l \in Steady, to \in {0, 1} : turn_led(l, to)

Spec == Init /\ [][Next]_vars

(* The LED threads get on when the processor is idle; main does anyway.     *)
FairSpec ==
  /\ Spec
  /\ WF_vars(flash_all_leds_once)
  /\ \A l \in Leds : WF_vars(led_runloop(l))

-------------------------------------------------------------------------------
TypeOK ==
  /\ main \in {"flash", "done"}
  /\ event \in [Leds -> BOOLEAN]
  /\ gpio_state \in [Leds -> {0, 1}]
  /\ pin \in [Leds -> {0, 1}]
  /\ pc \in [Leds -> {"start", "wait", "invert", "sleep", "restore"}]
  /\ level \in [Leds -> {0, 1}]

(* A LED that is not flashing shows the level it was last turned to: no     *)
(* flash that is just ending puts it back to what it was before, and no     *)
(* inversion makes anything but a level (TypeOK) of one.                    *)
LevelShown ==
  /\ TypeOK
  /\ \A l \in Leds : pc[l] \in {"start", "wait"} => pin[l] = gpio_state[l]

(* No flash leaves a LED inverted, and every post that finds the thread     *)
(* waiting is seen, however many follow it.                                 *)
FlashEnds == \A l \in Leds : pin[l] # gpio_state[l] ~> pin[l] = gpio_state[l]
FlashSeen ==
  \A l \in Leds : event[l] /\ pc[l] = "wait" ~> pin[l] # gpio_state[l]
===============================================================================
