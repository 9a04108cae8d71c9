-------------------------------- MODULE Clock --------------------------------
(***************************************************************************)
(* The wall clock kept by timer_handler (sys/timer/timer.c).  Every        *)
(* QUANTUM ticks the handler yields in its middle, with the rest of it     *)
(* still to be done; that rest runs when the task is resumed, with the     *)
(* timer_ticks of that moment and with interrupts on (switchTo ends with   *)
(* sti), so that further ticks and switches come between any two of its    *)
(* steps.  A task that gave up the processor by sys_sleep or sys_yield has *)
(* no such rest.  Which task is resumed is Scheduler's matter: here it is  *)
(* any.  The sleep timers that a tick counts down are in Scheduler too.    *)
(*                                                                         *)
(* timer_ticks is kept modulo PIT_CLOCK_HZ: only its remainders by QUANTUM *)
(* and by PIT_CLOCK_HZ are read.                                           *)
(*                                                                         *)
(* An operator directly above another and named after it is that operator  *)
(* with a mistake in it.                                                   *)
(***************************************************************************)
EXTENDS Integers, Sequences

CONSTANTS
  Task,
  QUANTUM,       \* ticks between two switches (100)
  PIT_CLOCK_HZ,  \* ticks in a second (1000)
  SIXTY,         \* seconds in a minute and minutes in an hour
  WORD,          \* time_hour is kept modulo WORD (2^32)
  MaxFrames      \* bound: handlers one task has left unfinished

ASSUME ClockAssumption ==
  /\ QUANTUM \in Nat \ {0}
  /\ PIT_CLOCK_HZ \in Nat \ {0} /\ PIT_CLOCK_HZ % QUANTUM = 0
  /\ SIXTY \in Nat \ {0} /\ WORD \in Nat \ {0}
  /\ MaxFrames \in Nat \ {0}

VARIABLES
  current,       \* the running task
  frames,        \* unfinished calls of timer_handler of each task, the last
                 \* one innermost, each by what it has done since the switch
  timer_ticks, time_sec, time_min, time_hour,
  video,         \* what the screen shows of the hour, minute and second
  slice,         \* ghost: ticks since the timer has switched tasks; more than
                 \* QUANTUM are counted as QUANTUM
  torn,          \* ghost: in this slice a handler has reset timer_ticks
                 \* although a tick had come since its test
  overlapped     \* ghost: a handler was preempted behind its test

time == <<time_sec, time_min, time_hour>>
ghosts == <<slice, torn, overlapped>>
vars == <<current, frames, timer_ticks, time, video, ghosts>>

(* What is left to be done: the test; the reset, without or with a tick    *)
(* since the test; the count; the digits, those of the minute and of the   *)
(* hour included or not.                                                   *)
State == {"switched", "tested", "ticked", "reset", "sec", "min", "hour"}

(* Two characters: '0' + n/10 and '0' + n%10, or spaces.                   *)
Digits(n) == <<(48 + (n \div 10)) % 256, 48 + (n % 10)>>
BLANK == <<32, 32>>

Init ==
  /\ current \in Task
  /\ frames = [t \in Task |-> <<>>]
  /\ timer_ticks = 0
  /\ time_sec = 0 /\ time_min = 0 /\ time_hour = 0
  /\ video = [hour |-> Digits(0), min |-> Digits(0), sec |-> Digits(0)]
  /\ slice = 0 /\ torn = FALSE /\ overlapped = FALSE
-----------------------------------------------------------------------------
SwitchDue(ticks) == ticks % QUANTUM = 0

(***************************************************************************)
(* The test behind the switch.                                             *)
(***************************************************************************)
SecondOverEarly(ticks) == (ticks + 1) % PIT_CLOCK_HZ = 0
SecondOver(ticks) == ticks % PIT_CLOCK_HZ = 0

Ticked(stack) ==
  [i \in DOMAIN stack |-> IF stack[i] = "tested" THEN "ticked" ELSE stack[i]]

(***************************************************************************)
(* timer_handler for a tick that ends no quantum, done to the end with     *)
(* interrupts off.  As a second is whole quanta, none is over here.        *)
(***************************************************************************)
TickWithin ==
  LET ticks == (timer_ticks + 1) % PIT_CLOCK_HZ
  IN /\ ~SwitchDue(ticks)
     /\ timer_ticks' = IF SecondOver(ticks) THEN 0 ELSE ticks
     /\ frames' = [frames EXCEPT ![current] = Ticked(@)]
     /\ slice' = IF slice < QUANTUM THEN slice + 1 ELSE slice
     /\ UNCHANGED <<current, time, video, torn, overlapped>>

(***************************************************************************)
(* timer_handler for one that does, up to the switch.                      *)
(***************************************************************************)
TickSwitch ==
  LET ticks == (timer_ticks + 1) % PIT_CLOCK_HZ
      stack == frames[current]
  IN /\ SwitchDue(ticks)
     /\ Len(stack) < MaxFrames
     /\ timer_ticks' = ticks
     /\ frames' = [frames EXCEPT ![current] = Append(Ticked(@), "switched")]
     /\ current' \in Task
     /\ slice' = 0 /\ torn' = FALSE
     /\ overlapped' = (overlapped \/ (stack # <<>> /\ stack[Len(stack)] # "switched"))
     /\ UNCHANGED <<time, video>>

Tick == TickWithin \/ TickSwitch
-----------------------------------------------------------------------------
(***************************************************************************)
(* The rest of a handler, in the task that was preempted in it.            *)
(***************************************************************************)
In(state) == frames[current] # <<>> /\ frames[current][Len(frames[current])] = state

Goto(state) == frames' = [frames EXCEPT ![current][Len(frames[current])] = state]

Return == frames' = [frames EXCEPT ![current] = SubSeq(@, 1, Len(@) - 1)]

Test ==
  /\ In("switched")
  /\ IF SecondOver(timer_ticks) THEN Goto("tested") ELSE Return
  /\ UNCHANGED <<current, timer_ticks, time, video, ghosts>>

Reset ==
  /\ In("tested") \/ In("ticked")
  /\ timer_ticks' = 0
  /\ torn' = (torn \/ In("ticked"))
  /\ Goto("reset")
  /\ UNCHANGED <<current, time, video, slice, overlapped>>

(***************************************************************************)
(* The clock moves on.                                                     *)
(***************************************************************************)
Count ==
  LET minute == time_sec + 1 = SIXTY
      hour   == minute /\ time_min + 1 = SIXTY
  IN /\ In("reset")
     /\ time_sec' = IF minute THEN 0 ELSE time_sec + 1
     /\ time_min' = IF hour THEN 0 ELSE IF minute THEN time_min + 1 ELSE time_min
     /\ time_hour' = IF hour THEN (time_hour + 1) % WORD ELSE time_hour
     /\ Goto(IF hour THEN "hour" ELSE IF minute THEN "min" ELSE "sec")
     /\ UNCHANGED <<current, timer_ticks, video, ghosts>>

(***************************************************************************)
(* The minute and the hour are drawn only when they have changed.          *)
(***************************************************************************)
DrawMinuteWithHour ==
  /\ In("sec") \/ In("min") \/ In("hour")
  /\ video' = [hour |-> IF In("hour") THEN Digits(time_hour) ELSE video.hour,
               min  |-> IF In("hour") THEN Digits(time_min) ELSE video.min,
               sec  |-> Digits(time_sec)]
  /\ Return
  /\ UNCHANGED <<current, timer_ticks, time, ghosts>>
DrawAgain ==
  /\ In("sec") \/ In("min") \/ In("hour")
  /\ video' = [hour |-> IF In("hour") THEN Digits(time_hour) ELSE video.hour,
               min  |-> IF In("sec") THEN video.min ELSE Digits(time_min),
               sec  |-> Digits(time_sec)]
  /\ Goto("switched")
  /\ UNCHANGED <<current, timer_ticks, time, ghosts>>
Draw ==
  /\ In("sec") \/ In("min") \/ In("hour")
  /\ video' = [hour |-> IF In("hour") THEN Digits(time_hour) ELSE video.hour,
               min  |-> IF In("sec") THEN video.min ELSE Digits(time_min),
               sec  |-> Digits(time_sec)]
  /\ Return
  /\ UNCHANGED <<current, timer_ticks, time, ghosts>>

Late == Test \/ Reset \/ Count \/ Draw
-----------------------------------------------------------------------------
(***************************************************************************)
(* The running task sleeps, exits or yields from a system call.            *)
(***************************************************************************)
GiveUp ==
  /\ frames[current] = <<>>
  /\ current' \in Task \ {current}
  /\ UNCHANGED <<frames, timer_ticks, time, video, ghosts>>

(***************************************************************************)
(* The system call CLRSCR blanks the whole screen, the clock with it.      *)
(***************************************************************************)
clear_screen ==
  /\ frames[current] = <<>>
  /\ video' = [hour |-> BLANK, min |-> BLANK, sec |-> BLANK]
  /\ UNCHANGED <<current, frames, timer_ticks, time, ghosts>>

Next == Tick \/ Late \/ GiveUp \/ clear_screen

Spec == Init /\ [][Next]_vars

(***************************************************************************)
(* The timer chip goes on ticking and the processor goes on executing.     *)
(***************************************************************************)
FairSpec == Spec /\ WF_vars(Tick) /\ WF_vars(Late)
-----------------------------------------------------------------------------
(***************************************************************************)
(* SliceExact: although the handlers that reset timer_ticks finish late    *)
(* and out of order, "timer_ticks % 100" asks for a switch exactly QUANTUM *)
(* ticks after the last one, unless in between a tick has fallen between   *)
(* a handler's test of timer_ticks and its reset.                          *)
(***************************************************************************)
SliceExact == ~torn => slice = timer_ticks % QUANTUM

(***************************************************************************)
(* DisplayAgrees: of the digits timer_handler draws only those it believes *)
(* to have changed.  Still, as long as no handler was preempted between    *)
(* its test and its end, the screen shows of the time kept, an hour, a     *)
(* minute and a second in their proper ranges, every part that has not     *)
(* been cleared since it last changed and is not about to be drawn.        *)
(***************************************************************************)
DisplayAgrees ==
  ~overlapped =>
    /\ time_sec < SIXTY /\ time_min < SIXTY
    /\ video.hour \in {BLANK, Digits(time_hour)} \/ In("hour")
    /\ video.min \in {BLANK, Digits(time_min)} \/ In("min") \/ In("hour")
    /\ video.sec \in {BLANK, Digits(time_sec)} \/ In("sec") \/ In("min") \/ In("hour")

(***************************************************************************)
(* Preempts: however often late handlers set timer_ticks back, the timer   *)
(* goes on switching tasks: no task keeps the processor for ever.          *)
(***************************************************************************)
Preempts == []<><<TickSwitch>>_vars
=============================================================================
