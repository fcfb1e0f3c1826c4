--------------------------- MODULE TimerInterrupt ---------------------------
(***************************************************************************)
(* 003InterruptHandler: timer_init programs timer 2, enable_irq lets its   *)
(* interrupt through, and from then on the handler sets isTick between any *)
(* two steps of main's loop, which prints "Tick" and resets it.            *)
(*                                                                         *)
(* Each PUT32 is a step.  The timer and the interrupt controller are       *)
(* modelled as far as the registers written here govern them.  What the    *)
(* boot loader left in the timer and in the mask of its interrupt is       *)
(* unknown, and so is isTick at first: objcopy does not write .bss into    *)
(* main.bin and root.s does not clear it.  Taken for granted is that it    *)
(* hands over with the processor's interrupts off and with none that the   *)
(* controller still waits to see acknowledged: root.s sees to neither, and *)
(* an interrupt before main has set up the vector table, or a controller   *)
(* that waits for the end of another, is beyond what this code can handle. *)
(***************************************************************************)
EXTENDS Integers

CONSTANT MaxPeriods   \* bound: periods of the timer

ASSUME MaxPeriods \in Nat

VARIABLES
  main,          \* the statement main, timer_init or enable_irq is to execute
  handler,       \* the statement of the interrupt handler; "none": not running
  on, auto,      \* the bits of TCLR
  counter,       \* 1: TCRR started from load_value
  reload,        \* 1: TLDR holds load_value
  ovf,           \* the flag of TISR
  ovfIrq,        \* the bit of TIER
  masked,        \* the bit of IRQ 68 in INTC_MIR2
  inService,     \* the controller waits for INTC_CONTROL
  irqOn,         \* the I-bit of main's CPSR is clear
  isTick,
  firstTick,     \* history: isTick at first
  periods,       \* history: whole periods the timer has run since its start
  handled,       \* history: runs of the handler that have set isTick
  merged,        \* history: those of them that found it set
  shown          \* history: "Tick" printed

control  == <<on, auto>>
timer    == <<control, counter, reload, ovf, ovfIrq>>
intc     == <<masked, inService>>
hardware == <<timer, intc>>
history  == <<firstTick, periods, handled, merged, shown>>
vars     == <<main, handler, hardware, irqOn, isTick, history>>

Setup == {"unmask", "stop", "clear", "reload", "counter", "enable", "start", "irq on"}
Loop  == {"print", "test", "tick", "reset", "delay"}

Bit == {0, 1}

Init ==
  /\ main = "unmask"
  /\ handler = "none"
  /\ on \in Bit /\ auto \in Bit /\ ovf \in Bit /\ ovfIrq \in Bit
  /\ counter = 0 /\ reload = 0
  /\ masked \in Bit
  /\ inService = 0
  /\ irqOn = 0
  /\ isTick \in Bit
  /\ firstTick = isTick
  /\ periods = 0 /\ handled = 0 /\ merged = 0 /\ shown = 0
-----------------------------------------------------------------------------
(* The hardware.                                                           *)

(* The counter overflows, and starts again from TLDR or stops.  A second   *)
(* overflow before the flag is cleared leaves no trace.                    *)
Overflow ==
  /\ on = 1
  /\ IF counter = 1
     THEN periods < MaxPeriods /\ periods' = periods + 1
     ELSE UNCHANGED periods
  /\ ovf' = 1
  /\ on' = auto
  /\ counter' = IF auto = 1 THEN reload ELSE 0
  /\ UNCHANGED <<main, handler, auto, reload, ovfIrq, intc, irqOn, isTick,
                 firstTick, handled, merged, shown>>

(* The processor takes the interrupt: irq_handler of root.s saves the      *)
(* registers and calls timer_irq_handler, with interrupts off.             *)
TakeIrq ==
  /\ irqOn = 1 /\ handler = "none"
  /\ ovf = 1 /\ ovfIrq = 1 /\ masked = 0 /\ inService = 0
  /\ handler' = "clear"
  /\ inService' = 1
  /\ UNCHANGED <<main, timer, masked, irqOn, isTick, history>>
-----------------------------------------------------------------------------
(* timer_irq_handler                                                       *)

HandlerClear ==
  /\ handler = "clear"
  /\ ovf' = 0
  /\ handler' = "control"
  /\ UNCHANGED <<main, control, counter, reload, ovfIrq, intc, irqOn, isTick, history>>

(* Mutant: INTC_CONTROL is not written.                                    *)
HandlerControlMissing ==
  /\ handler = "control"
  /\ handler' = "flag"
  /\ UNCHANGED <<main, timer, inService, masked, irqOn, isTick, history>>

HandlerControl ==
  /\ handler = "control"
  /\ inService' = 0
  /\ handler' = "flag"
  /\ UNCHANGED <<main, timer, masked, irqOn, isTick, history>>

HandlerFlag ==
  /\ handler = "flag"
  /\ isTick' = 1
  /\ handled' = handled + 1
  /\ merged' = merged + isTick
  /\ handler' = "return"
  /\ UNCHANGED <<main, hardware, irqOn, firstTick, periods, shown>>

(* subs pc, lr, #4                                                         *)
Return ==
  /\ handler = "return"
  /\ handler' = "none"
  /\ UNCHANGED <<main, hardware, irqOn, isTick, history>>

Handler == HandlerClear \/ HandlerControl \/ HandlerFlag \/ Return
-----------------------------------------------------------------------------
(* timer_init and enable_irq.  The writes to the clock and to the priority *)
(* change nothing that is modelled.                                        *)

(* main executes a statement only while the handler does not run.          *)
Goto(from, to) == main = from /\ main' = to /\ handler = "none" /\ UNCHANGED handler

Quiet == UNCHANGED <<isTick, history>>

Unmask ==
  /\ Goto("unmask", "stop")
  /\ masked' = 0
  /\ UNCHANGED <<timer, inService, irqOn>> /\ Quiet

(* Mutant: the timer runs on while it is programmed.                       *)
StopTimerNot ==
  /\ Goto("stop", "clear")
  /\ UNCHANGED <<timer, masked, inService, irqOn>> /\ Quiet

StopTimer ==
  /\ Goto("stop", "clear")
  /\ on' = 0 /\ auto' = 0
  /\ UNCHANGED <<counter, reload, ovf, ovfIrq, intc, irqOn>> /\ Quiet

ClearPending ==
  /\ Goto("clear", "reload")
  /\ ovf' = 0
  /\ UNCHANGED <<control, counter, reload, ovfIrq, intc, irqOn>> /\ Quiet

SetReload ==
  /\ Goto("reload", "counter")
  /\ reload' = 1
  /\ UNCHANGED <<control, counter, ovf, ovfIrq, intc, irqOn>> /\ Quiet

SetCounter ==
  /\ Goto("counter", "enable")
  /\ counter' = 1
  /\ UNCHANGED <<control, reload, ovf, ovfIrq, intc, irqOn>> /\ Quiet

EnableOverflow ==
  /\ Goto("enable", "start")
  /\ ovfIrq' = 1
  /\ UNCHANGED <<control, counter, reload, ovf, intc, irqOn>> /\ Quiet

StartTimer ==
  /\ Goto("start", "irq on")
  /\ on' = 1 /\ auto' = 1
  /\ UNCHANGED <<counter, reload, ovf, ovfIrq, intc, irqOn>> /\ Quiet

EnableIrq ==
  /\ Goto("irq on", "print")
  /\ irqOn' = 1
  /\ UNCHANGED hardware /\ Quiet

TimerInit == Unmask \/ StopTimer \/ ClearPending \/ SetReload \/ SetCounter
               \/ EnableOverflow \/ StartTimer
-----------------------------------------------------------------------------
(* The loop of main.                                                       *)

PrintNumber ==
  /\ Goto("print", "test")
  /\ UNCHANGED <<hardware, irqOn>> /\ Quiet

Test ==
  /\ \/ isTick = 1 /\ Goto("test", "tick")
     \/ isTick = 0 /\ Goto("test", "delay")
  /\ UNCHANGED <<hardware, irqOn>> /\ Quiet

PrintTick ==
  /\ Goto("tick", "reset")
  /\ shown' = shown + 1
  /\ UNCHANGED <<hardware, irqOn, isTick, firstTick, periods, handled, merged>>

(* Mutant: isTick keeps its value.                                         *)
ResetTickMissing ==
  /\ Goto("reset", "delay")
  /\ UNCHANGED <<hardware, irqOn, isTick, history>>

ResetTick ==
  /\ Goto("reset", "delay")
  /\ isTick' = 0
  /\ UNCHANGED <<hardware, irqOn, history>>

(* Mutant: isTick is reset at the end of every round.                      *)
DelayThenReset ==
  /\ Goto("delay", "print")
  /\ isTick' = 0
  /\ UNCHANGED <<hardware, irqOn, history>>

Delay ==
  /\ Goto("delay", "print")
  /\ UNCHANGED <<hardware, irqOn>> /\ Quiet

Main == TimerInit \/ EnableIrq \/ PrintNumber \/ Test \/ PrintTick \/ ResetTick \/ Delay

Next == Overflow \/ TakeIrq \/ Handler \/ Main

(* The processor executes one instruction after the other, and takes an    *)
(* interrupt that stays pending.                                           *)
Spec == Init /\ [][Next]_vars /\ WF_vars(Main) /\ WF_vars(Handler) /\ WF_vars(TakeIrq)
-----------------------------------------------------------------------------
(* Properties                                                              *)

(* TYPE.                                                                   *)
TypeOK ==
  /\ main \in Setup \cup Loop
  /\ handler \in {"none", "clear", "control", "flag", "return"}
  /\ on \in Bit /\ auto \in Bit /\ ovf \in Bit /\ ovfIrq \in Bit
  /\ counter \in Bit /\ reload \in Bit
  /\ masked \in Bit /\ inService \in Bit /\ irqOn \in Bit
  /\ isTick \in Bit /\ firstTick \in Bit
  /\ periods \in Nat /\ handled \in Nat /\ merged \in Nat /\ shown \in Nat

(* SAFETY.  The handler never counts a tick for which no whole period has  *)
(* run since the timer was started: nothing the boot loader left in the    *)
(* timer gets through (the order of timer.c:11-27).                        *)
NoStaleTick == handled <= periods

(* SAFETY.  Each run of the handler is printed, still to be printed, or    *)
(* came while isTick was set: none is printed twice.  What comes while     *)
(* main is at "reset" (main.c:22-23) is among the latter and is lost.      *)
TicksAccounted ==
  firstTick + handled = shown + merged + (IF main = "reset" THEN 0 ELSE isTick)

(* LIVENESS.  Every overflow reaches the handler, also one that comes      *)
(* while the handler runs.                                                 *)
OverflowHandled == main \in Loop /\ ovf = 1 ~> handler = "flag"

(* LIVENESS.  A tick is printed unless it came just before the reset.      *)
TickShown == isTick = 1 /\ main # "reset" ~> main = "tick"
=============================================================================
