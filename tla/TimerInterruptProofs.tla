------------------------ MODULE TimerInterruptProofs ------------------------
(* Proofs about TimerInterrupt, for any number of periods.                 *)
EXTENDS TimerInterrupt, TLAPS

LEMMA TypeInit == Init => TypeOK
BY DEF Init, TypeOK, Bit, Setup

LEMMA TypeStep == TypeOK /\ [Next]_vars => TypeOK'
<1> SUFFICES ASSUME TypeOK, [Next]_vars PROVE TypeOK'
  OBVIOUS
<1> USE DEF TypeOK, Bit, control, timer, intc, hardware, history
<1>1. CASE Overflow
  BY <1>1 DEF Overflow
<1>2. CASE TakeIrq
  BY <1>2 DEF TakeIrq
<1>3. CASE HandlerClear
  BY <1>3 DEF HandlerClear
<1>4. CASE HandlerControl
  BY <1>4 DEF HandlerControl
<1>5. CASE HandlerFlag
  BY <1>5 DEF HandlerFlag
<1>6. CASE Return
  BY <1>6 DEF Return
<1>7. CASE TimerInit
  <2>1. main' \in Setup \cup Loop
    BY <1>7 DEF TimerInit, Unmask, StopTimer, ClearPending, SetReload, SetCounter,
                EnableOverflow, StartTimer, Goto, Setup
  <2>2. UNCHANGED <<handler, inService, irqOn, isTick, firstTick, periods, handled, merged, shown>>
    BY <1>7 DEF TimerInit, Unmask, StopTimer, ClearPending, SetReload, SetCounter,
                EnableOverflow, StartTimer, Goto, Quiet
  <2>3. on' \in Bit /\ auto' \in Bit /\ ovf' \in Bit /\ ovfIrq' \in Bit
    BY <1>7 DEF TimerInit, Unmask, StopTimer, ClearPending, SetReload, SetCounter,
                EnableOverflow, StartTimer
  <2>4. counter' \in Bit /\ reload' \in Bit /\ masked' \in Bit
    BY <1>7 DEF TimerInit, Unmask, StopTimer, ClearPending, SetReload, SetCounter,
                EnableOverflow, StartTimer
  <2> QED
    BY <2>1, <2>2, <2>3, <2>4
<1>8. CASE EnableIrq
  BY <1>8 DEF EnableIrq, Goto, Quiet, Loop
<1>9. CASE PrintNumber \/ Test \/ PrintTick \/ ResetTick \/ Delay
  <2>1. main' \in Setup \cup Loop
    BY <1>9 DEF PrintNumber, Test, PrintTick, ResetTick, Delay, Goto, Loop
  <2> QED
    BY <1>9, <2>1 DEF PrintNumber, Test, PrintTick, ResetTick, Delay, Goto, Quiet
<1>10. CASE UNCHANGED vars
  BY <1>10 DEF vars
<1> QED
  BY <1>1, <1>2, <1>3, <1>4, <1>5, <1>6, <1>7, <1>8, <1>9, <1>10 DEF Next, Handler, Main

(* Every variable keeps its type.                                          *)
THEOREM Typing == Spec => []TypeOK
BY TypeInit, TypeStep, PTL DEF Spec

-----------------------------------------------------------------------------
(* No stale tick.  Until main turns interrupts on no handler runs; from    *)
(* the stop of the timer to its start it cannot overflow, and a flag left  *)
(* by an overflow before is cleared in between.                            *)

Stopped == main \in {"clear", "reload", "counter", "enable", "start"} => on = 0

Cleared == main \in {"reload", "counter", "enable", "start"} => ovf = 0

Unstarted ==
  main \in Setup \ {"irq on"} =>
    /\ periods = 0
    /\ main \in {"unmask", "stop"} => counter = 0 /\ reload = 0

NoHandler == main \in Setup => handler = "none" /\ handled = 0 /\ irqOn = 0

(* From the start on every flag stands for a period, and so does every run *)
(* of the handler that has not yet set isTick.                             *)
Running == IF handler \in {"control", "flag"} THEN 1 ELSE 0

Pending ==
  main \in Loop \cup {"irq on"} =>
    /\ on = 1 /\ auto = 1 /\ counter = 1 /\ reload = 1
    /\ handled + ovf + Running <= periods
    /\ handler = "clear" => ovf = 1

Programmed ==
  /\ main \in {"counter", "enable", "start"} => reload = 1
  /\ main \in {"enable", "start"} => counter = 1

StaleInv == Stopped /\ Cleared /\ Unstarted /\ NoHandler /\ Pending /\ Programmed

LEMMA StaleInit == Init => StaleInv
BY DEF Init, StaleInv, Stopped, Cleared, Unstarted, NoHandler, Pending, Programmed, Setup, Loop

(* The statements at which each part of the invariant applies.             *)
LEMMA Places ==
  /\ {"clear", "reload", "counter", "enable", "start"} \subseteq Setup \ {"irq on"}
  /\ Setup \cap Loop = {}
  /\ "irq on" \in Setup
BY DEF Setup, Loop

LEMMA AnotherPeriod ==
  ASSUME NEW h \in Nat, NEW o \in {0, 1}, NEW r \in {0, 1}, NEW p \in Nat, h + o + r <= p
  PROVE  h + 1 + r <= p + 1
OBVIOUS

LEMMA StaleStep == TypeOK /\ StaleInv /\ [Next]_vars => StaleInv'
<1>0. SUFFICES ASSUME TypeOK, StaleInv, [Next]_vars PROVE StaleInv'
  OBVIOUS
<1>p. Pending
  BY <1>0 DEF StaleInv
<1>s. Stopped /\ Cleared
  BY <1>0 DEF StaleInv
<1>r. Programmed
  BY <1>0 DEF StaleInv
<1>u. Unstarted
  BY <1>0 DEF StaleInv
<1>h. NoHandler
  BY <1>0 DEF StaleInv
<1>n. ovf \in {0, 1} /\ periods \in Nat /\ handled \in Nat
  BY <1>0 DEF TypeOK, Bit
<1>m. main \in Setup \cup Loop
  BY <1>0 DEF TypeOK
<1>1. CASE Overflow
  <2>1. on = 1 /\ ovf' = 1 /\ on' = auto /\ UNCHANGED <<main, handler, auto, reload>>
    BY <1>1 DEF Overflow
  <2>2. UNCHANGED <<irqOn, handled>>
    BY <1>1 DEF Overflow
  <2>3. main \notin {"clear", "reload", "counter", "enable", "start"}
    BY <1>s, <2>1 DEF Stopped
  <2>4. counter' = IF auto = 1 THEN reload ELSE 0
    BY <1>1 DEF Overflow
  <2>5. periods' = IF counter = 1 THEN periods + 1 ELSE periods
    BY <1>1 DEF Overflow
  <2>6. Stopped' /\ Cleared' /\ Programmed'
    BY <2>1, <2>3 DEF Stopped, Cleared, Programmed
  <2>7. Unstarted'
    <3>1. CASE main \in Setup \ {"irq on"}
      <4>1. main \in {"unmask", "stop"}
        BY <2>3, <3>1 DEF Setup
      <4>2. periods = 0 /\ counter = 0 /\ reload = 0
        BY <1>u, <3>1, <4>1 DEF Unstarted
      <4>3. periods' = 0 /\ counter' = 0 /\ reload' = 0
        BY <2>1, <2>4, <2>5, <4>2
      <4> QED
        BY <4>3 DEF Unstarted
    <3> QED
      BY <2>1, <3>1 DEF Unstarted
  <2>8. NoHandler'
    BY <1>h, <2>1, <2>2 DEF NoHandler
  <2>9. Pending'
    <3> SUFFICES ASSUME main \in Loop \cup {"irq on"} PROVE Pending'
      BY <2>1 DEF Pending
    <3>1. /\ on = 1 /\ auto = 1 /\ counter = 1 /\ reload = 1
          /\ handled + ovf + Running <= periods
      BY <1>p DEF Pending
    <3>2. on' = 1 /\ auto' = 1 /\ counter' = 1 /\ reload' = 1 /\ periods' = periods + 1
      BY <2>1, <2>4, <2>5, <3>1
    <3>3. Running' = Running /\ Running \in {0, 1}
      BY <2>1 DEF Running
    <3>4. handled + 1 + Running <= periods + 1
      BY <1>n, <3>1, <3>3, AnotherPeriod
    <3>5. handled' = handled /\ ovf' = 1
      BY <2>1, <2>2
    <3>6. handled' + ovf' + Running' <= periods'
      BY <3>2, <3>3, <3>4, <3>5
    <3> QED
      BY <1>p, <2>1, <3>2, <3>6 DEF Pending
  <2> QED
    BY <2>6, <2>7, <2>8, <2>9 DEF StaleInv
<1>2. CASE TakeIrq
  <2>1. UNCHANGED <<main, on, auto, counter, reload, ovf>>
    BY <1>2 DEF TakeIrq, timer, control
  <2>2. UNCHANGED <<handled, periods, irqOn>>
    BY <1>2 DEF TakeIrq, history
  <2>3. irqOn = 1 /\ handler = "none" /\ ovf = 1 /\ handler' = "clear"
    BY <1>2 DEF TakeIrq
  <2>4. Stopped' /\ Cleared' /\ Programmed'
    BY <1>s, <1>r, <2>1 DEF Stopped, Cleared, Programmed
  <2>5. Unstarted'
    BY <1>u, <2>1, <2>2 DEF Unstarted
  <2>6. NoHandler'
    BY <1>h, <2>1, <2>3 DEF NoHandler
  <2>7. Pending'
    BY <1>n, <1>p, <2>1, <2>2, <2>3 DEF Pending, Running
  <2> QED
    BY <2>4, <2>5, <2>6, <2>7 DEF StaleInv
<1>3. CASE Handler
  <2>1. UNCHANGED <<main, on, auto, counter, reload>>
    BY <1>3 DEF Handler, HandlerClear, HandlerControl, HandlerFlag, Return,
                hardware, timer, control
  <2>2. UNCHANGED <<periods, irqOn>>
    BY <1>3 DEF Handler, HandlerClear, HandlerControl, HandlerFlag, Return, history
  <2>3. handler # "none"
    BY <1>3 DEF Handler, HandlerClear, HandlerControl, HandlerFlag, Return
  <2>4. main \in Loop /\ main \notin Setup
    BY <1>m, <1>h, <2>3 DEF NoHandler
  <2>5. Stopped' /\ Cleared' /\ Programmed' /\ Unstarted' /\ NoHandler'
    BY <2>1, <2>4, Places DEF Stopped, Cleared, Programmed, Unstarted, NoHandler
  <2>p. /\ on = 1 /\ auto = 1 /\ counter = 1 /\ reload = 1
        /\ handled + ovf + Running <= periods
        /\ handler = "clear" => ovf = 1
    BY <1>p, <2>4 DEF Pending
  <2>q. ASSUME handled' + ovf' + Running' <= periods,
               handler' # "clear"
        PROVE  StaleInv'
    BY <2>1, <2>2, <2>5, <2>p, <2>q DEF Pending, StaleInv
  <2>6. CASE HandlerClear
    <3>1. handler' = "control" /\ ovf' = 0 /\ handled' = handled
      BY <2>6 DEF HandlerClear, history
    <3>2. handler = "clear"
      BY <2>6 DEF HandlerClear
    <3> QED
      BY <1>n, <2>p, <2>q, <3>1, <3>2 DEF Running
  <2>7. CASE HandlerControl
    <3>1. handler = "control" /\ handler' = "flag" /\ ovf' = ovf /\ handled' = handled
      BY <2>7 DEF HandlerControl, timer, history
    <3> QED
      BY <1>n, <2>p, <2>q, <3>1 DEF Running
  <2>8. CASE HandlerFlag
    <3>1. handler = "flag" /\ handler' = "return" /\ ovf' = ovf /\ handled' = handled + 1
      BY <2>8 DEF HandlerFlag, hardware, timer
    <3> QED
      BY <1>n, <2>p, <2>q, <3>1 DEF Running
  <2>9. CASE Return
    <3>1. handler = "return" /\ handler' = "none" /\ ovf' = ovf /\ handled' = handled
      BY <2>9 DEF Return, hardware, timer, history
    <3> QED
      BY <1>n, <2>p, <2>q, <3>1 DEF Running
  <2> QED
    BY <1>3, <2>6, <2>7, <2>8, <2>9 DEF Handler
<1>4. CASE TimerInit
  <2>1. UNCHANGED <<handler, irqOn, handled, periods>>
    BY <1>4 DEF TimerInit, Unmask, StopTimer, ClearPending, SetReload, SetCounter,
                EnableOverflow, StartTimer, Goto, Quiet, history
  <2>2. main \in Setup \ {"irq on"} /\ main' \in Setup
    BY <1>4 DEF TimerInit, Unmask, StopTimer, ClearPending, SetReload, SetCounter,
                EnableOverflow, StartTimer, Goto, Setup
  <2>3. NoHandler'
    BY <1>h, <2>1, <2>2 DEF NoHandler
  <2>q. ASSUME main' # "irq on", Stopped', Cleared', Programmed', Unstarted'
        PROVE  StaleInv'
    BY <2>2, <2>3, <2>q, Places DEF StaleInv, Pending
  <2>u. periods' = 0
    BY <1>u, <2>1, <2>2 DEF Unstarted
  <2>4. CASE Unmask
    <3>1. main' = "stop" /\ UNCHANGED <<on, auto, counter, reload, ovf>>
      BY <2>4 DEF Unmask, Goto, timer, control
    <3>2. main = "unmask"
      BY <2>4 DEF Unmask, Goto
    <3> QED
      BY <1>u, <2>2, <2>q, <2>u, <3>1, <3>2 DEF Stopped, Cleared, Programmed, Unstarted
  <2>5. CASE StopTimer
    <3>1. main' = "clear" /\ on' = 0
      BY <2>5 DEF StopTimer, Goto
    <3> QED
      BY <1>s, <1>r, <2>q, <2>u, <3>1 DEF Stopped, Cleared, Programmed, Unstarted
  <2>6. CASE ClearPending
    <3>1. main = "clear" /\ main' = "reload" /\ ovf' = 0 /\ on' = on
      BY <2>6 DEF ClearPending, Goto, control
    <3> QED
      BY <1>s, <1>r, <2>q, <2>u, <3>1 DEF Stopped, Cleared, Programmed, Unstarted
  <2>7. CASE SetReload
    <3>1. /\ main = "reload" /\ main' = "counter"
          /\ ovf' = ovf /\ on' = on /\ reload' = 1
      BY <2>7 DEF SetReload, Goto, control
    <3> QED
      BY <1>s, <1>r, <2>q, <2>u, <3>1 DEF Stopped, Cleared, Programmed, Unstarted
  <2>8. CASE SetCounter
    <3>1. /\ main = "counter" /\ main' = "enable"
          /\ ovf' = ovf /\ on' = on /\ reload' = reload /\ counter' = 1
      BY <2>8 DEF SetCounter, Goto, control
    <3> QED
      BY <1>s, <1>r, <2>q, <2>u, <3>1 DEF Stopped, Cleared, Programmed, Unstarted
  <2>9. CASE EnableOverflow
    <3>1. /\ main = "enable" /\ main' = "start"
          /\ ovf' = ovf /\ on' = on /\ reload' = reload /\ counter' = counter
      BY <2>9 DEF EnableOverflow, Goto, control
    <3> QED
      BY <1>s, <1>r, <2>q, <2>u, <3>1 DEF Stopped, Cleared, Programmed, Unstarted
  <2>10. CASE StartTimer
    <3>1. main = "start" /\ main' = "irq on" /\ on' = 1 /\ auto' = 1
      BY <2>10 DEF StartTimer, Goto
    <3>2. ovf' = ovf /\ reload' = reload /\ counter' = counter
      BY <2>10 DEF StartTimer
    <3>3. handler = "none" /\ handled = 0 /\ periods = 0 /\ ovf = 0 /\ reload = 1 /\ counter = 1
      BY <1>s, <1>r, <1>h, <1>u, <2>2, <3>1 DEF Cleared, Programmed, NoHandler, Unstarted
    <3>4. Pending'
      <4>1. on' = 1 /\ auto' = 1 /\ counter' = 1 /\ reload' = 1
        BY <3>1, <3>2, <3>3
      <4>2. handler' = "none" /\ handled' = 0 /\ ovf' = 0 /\ periods' = 0
        BY <2>1, <3>2, <3>3
      <4>3. handled' + ovf' + Running' <= periods'
        BY <4>2 DEF Running
      <4> QED
        BY <4>1, <4>2, <4>3 DEF Pending
    <3>5. Stopped' /\ Cleared' /\ Programmed' /\ Unstarted'
      BY <3>1 DEF Stopped, Cleared, Programmed, Unstarted
    <3> QED
      BY <2>3, <3>4, <3>5 DEF StaleInv
  <2> QED
    BY <1>4, <2>4, <2>5, <2>6, <2>7, <2>8, <2>9, <2>10 DEF TimerInit
<1>5. CASE EnableIrq
  <2>1. main = "irq on" /\ main' = "print" /\ UNCHANGED <<handler, on, auto, counter, reload, ovf>>
    BY <1>5 DEF EnableIrq, Goto, hardware, timer, control
  <2>2. UNCHANGED <<handled, periods>>
    BY <1>5 DEF EnableIrq, Quiet, history
  <2>3. main' \notin Setup
    BY <2>1 DEF Setup
  <2>4. Pending'
    BY <1>p, <2>1, <2>2 DEF Pending, Running, Loop
  <2> QED
    BY <2>1, <2>3, <2>4 DEF StaleInv, Stopped, Cleared, Programmed, Unstarted, NoHandler
<1>6. CASE PrintNumber \/ Test \/ PrintTick \/ ResetTick \/ Delay
  <2>1. main \in Loop /\ main' \in Loop /\ handler' = handler
    BY <1>6 DEF PrintNumber, Test, PrintTick, ResetTick, Delay, Goto, Loop
  <2>2. UNCHANGED <<on, auto, counter, reload, ovf>>
    BY <1>6 DEF PrintNumber, Test, PrintTick, ResetTick, Delay, hardware, timer, control
  <2>3. UNCHANGED <<handled, periods>>
    BY <1>6 DEF PrintNumber, Test, PrintTick, ResetTick, Delay, Quiet, history
  <2>4. main' \notin Setup
    BY <2>1, Places
  <2>5. Pending'
    BY <1>p, <2>1, <2>2, <2>3 DEF Pending, Running
  <2> QED
    BY <2>4, <2>5, Places DEF StaleInv, Stopped, Cleared, Programmed, Unstarted, NoHandler
<1>7. CASE UNCHANGED vars
  <2>1. UNCHANGED <<main, handler, on, auto, counter, reload, ovf, irqOn>>
    BY <1>7 DEF vars, hardware, timer, control
  <2>2. UNCHANGED <<handled, periods>>
    BY <1>7 DEF vars, history
  <2>3. Stopped' /\ Cleared' /\ Programmed' /\ Unstarted' /\ NoHandler'
    BY <1>s, <1>r, <1>u, <1>h, <2>1, <2>2 DEF Stopped, Cleared, Programmed, Unstarted, NoHandler
  <2>4. Pending'
    BY <1>p, <2>1, <2>2 DEF Pending, Running
  <2> QED
    BY <2>3, <2>4 DEF StaleInv
<1> QED
  BY <1>0, <1>1, <1>2, <1>3, <1>4, <1>5, <1>6, <1>7 DEF Next, Main

(* Whatever the boot loader left in the timer, no tick is handled for      *)
(* which no whole period has run.                                          *)
THEOREM Fresh == Spec => []NoStaleTick
<1>1. TypeOK /\ StaleInv => NoStaleTick
  <2> SUFFICES ASSUME TypeOK, StaleInv PROVE NoStaleTick
    OBVIOUS
  <2>1. CASE main \in Setup
    BY <2>1 DEF TypeOK, StaleInv, NoHandler, NoStaleTick
  <2>2. CASE main \in Loop
    <3>1. handled + ovf + Running <= periods
      BY <2>2 DEF StaleInv, Pending
    <3>2. ovf \in {0, 1} /\ handled \in Nat /\ periods \in Nat
      BY DEF TypeOK, Bit
    <3> QED
      BY <3>1, <3>2 DEF NoStaleTick, Running
  <2> QED
    BY <2>1, <2>2 DEF TypeOK
<1> QED
  BY <1>1, TypeInit, TypeStep, StaleInit, StaleStep, PTL DEF Spec

-----------------------------------------------------------------------------
(* Ticks are accounted for: at "tick" and "reset" isTick is still set,     *)
(* whatever the handler does meanwhile.                                    *)

StillSet == main \in {"tick", "reset"} => isTick = 1

AccountInv == TicksAccounted /\ StillSet

LEMMA AccountInit == Init => AccountInv
BY DEF Init, AccountInv, TicksAccounted, StillSet, Bit

LEMMA AccountStep == TypeOK /\ AccountInv /\ [Next]_vars => AccountInv'
<1> SUFFICES ASSUME TypeOK, AccountInv, [Next]_vars PROVE AccountInv'
  OBVIOUS
<1> USE DEF AccountInv, TicksAccounted, StillSet, TypeOK, Bit, control, timer, intc, hardware, history
<1>1. CASE Overflow \/ TakeIrq \/ HandlerClear \/ HandlerControl \/ Return
  BY <1>1 DEF Overflow, TakeIrq, HandlerClear, HandlerControl, Return
<1>2. CASE HandlerFlag
  BY <1>2 DEF HandlerFlag
<1>3. CASE TimerInit \/ EnableIrq
  BY <1>3 DEF TimerInit, Unmask, StopTimer, ClearPending, SetReload, SetCounter,
              EnableOverflow, StartTimer, EnableIrq, Goto, Quiet
<1>4. CASE PrintNumber \/ Test \/ PrintTick \/ ResetTick \/ Delay
  BY <1>4 DEF PrintNumber, Test, PrintTick, ResetTick, Delay, Goto, Quiet
<1>5. CASE UNCHANGED vars
  BY <1>5 DEF vars
<1> QED
  BY <1>1, <1>2, <1>3, <1>4, <1>5 DEF Next, Handler, Main

(* No tick is printed twice, and none is missed but while isTick is set.   *)
THEOREM Accounted == Spec => []TicksAccounted
<1>1. AccountInv => TicksAccounted
  BY DEF AccountInv
<1> QED
  BY <1>1, TypeInit, TypeStep, AccountInit, AccountStep, PTL DEF Spec
=============================================================================
