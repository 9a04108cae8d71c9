----------------------------- MODULE ClockProofs -----------------------------
(***************************************************************************)
(* The clock of timer_handler, for every number of tasks, ticks, seconds   *)
(* and unfinished handlers.                                                *)
(***************************************************************************)
EXTENDS Clock, TLAPS

LEMMA Products ==
  ASSUME NEW x \in Nat, NEW y \in Nat, NEW q \in Nat, x < y
  PROVE  q * x + q <= q * y
<1>1. q * (x + 1) = q * x + q /\ x + 1 <= y
  OBVIOUS
<1>2. \A d \in Nat : q * (x + 1) <= q * (x + 1) + q * d
  OBVIOUS
<1>3. PICK d \in Nat : y = x + 1 + d
  <2>1. y - (x + 1) \in Nat /\ y = x + 1 + (y - (x + 1))
    OBVIOUS
  <2>. QED
    BY <2>1
<1>4. q * y = q * (x + 1) + q * d
  BY <1>3
<1>. QED
  BY <1>1, <1>2, <1>4

(***************************************************************************)
(* r is what is left of n after whole q's.                                 *)
(***************************************************************************)
Left(n, q, r) == r \in 0..q - 1 /\ \E y \in Nat : n = q * y + r

LEMMA Division ==
  ASSUME NEW q \in Nat \ {0}, NEW n \in Nat
  PROVE  Left(n, q, n % q)
<1>1. n % q \in 0..q - 1 /\ n \div q \in Nat
  OBVIOUS
<1>2. n % q = n - q * (n \div q)
  OBVIOUS
<1>3. ASSUME NEW y \in Nat, NEW s \in 0..q - 1, s = n - q * y
      PROVE  Left(n, q, s)
  <2>1. q * y \in Nat
    OBVIOUS
  <2>2. n = q * y + s
    BY <1>3, <2>1
  <2>. QED
    BY <2>2 DEF Left
<1>. QED
  BY <1>1, <1>2, <1>3

LEMMA LeftIsOne ==
  ASSUME NEW q \in Nat \ {0}, NEW n \in Nat, NEW r, NEW s, Left(n, q, r), Left(n, q, s)
  PROVE  r = s
<1>1. PICK x \in Nat : r \in 0..q - 1 /\ n = q * x + r
  BY DEF Left
<1>2. PICK y \in Nat : s \in 0..q - 1 /\ n = q * y + s
  BY DEF Left
<1>3. q * x \in Nat /\ q * y \in Nat
  OBVIOUS
<1>4. CASE x < y
  BY <1>1, <1>2, <1>3, <1>4, Products
<1>5. CASE y < x
  BY <1>1, <1>2, <1>3, <1>5, Products
<1>6. CASE x = y
  BY <1>1, <1>2, <1>3, <1>6
<1>. QED
  BY <1>4, <1>5, <1>6

LEMMA Remainder ==
  ASSUME NEW q \in Nat \ {0}, NEW n \in Nat, NEW r
  PROVE  Left(n, q, r) <=> n % q = r
<1>1. PICK s : s = n % q /\ Left(n, q, s)
  BY Division
<1>2. Left(n, q, r) => r = s
  BY <1>1, LeftIsOne
<1>. QED
  BY <1>1, <1>2

(***************************************************************************)
(* Counts of the same phase stay so, and a whole second is whole quanta.   *)
(***************************************************************************)
LEMMA LeftNext ==
  ASSUME NEW q \in Nat \ {0}, NEW n \in Nat, NEW r, Left(n, q, r)
  PROVE  Left(n + 1, q, IF r + 1 = q THEN 0 ELSE r + 1)
<1>1. PICK y \in Nat : r \in 0..q - 1 /\ n = q * y + r
  BY DEF Left
<1>2. q * y \in Nat /\ q * (y + 1) = q * y + q /\ y + 1 \in Nat
  OBVIOUS
<1>3. CASE r + 1 = q
  <2>1. n + 1 = q * (y + 1) + 0 /\ 0 \in 0..q - 1
    BY <1>1, <1>2, <1>3
  <2>. QED
    BY <1>2, <1>3, <2>1 DEF Left
<1>4. CASE r + 1 # q
  <2>1. n + 1 = q * y + (r + 1) /\ r + 1 \in 0..q - 1
    BY <1>1, <1>2, <1>4
  <2>. QED
    BY <1>4, <2>1 DEF Left
<1>. QED
  BY <1>3, <1>4

LEMMA PhaseNext ==
  ASSUME NEW q \in Nat \ {0}, NEW n \in Nat
  PROVE  /\ n % q \in 0..q - 1
         /\ (n + 1) % q = IF (n % q) + 1 = q THEN 0 ELSE (n % q) + 1
<1>1. PICK r : r = n % q /\ Left(n, q, r)
  BY Remainder
<1>. DEFINE s == IF r + 1 = q THEN 0 ELSE r + 1
<1>2. Left(n + 1, q, s)
  BY <1>1, LeftNext
<1>3. (n + 1) % q = s
  <2>. HIDE DEF s
  <2>. QED
    BY <1>2, Remainder
<1>. QED
  BY <1>1, <1>3 DEF Left

LEMMA Zero ==
  ASSUME NEW q \in Nat \ {0}
  PROVE  0 % q = 0
<1>1. 0 \in 0..q - 1 /\ 0 = q * 0 + 0
  OBVIOUS
<1>2. Left(0, q, 0)
  BY <1>1 DEF Left
<1>. QED
  BY <1>2, Remainder

LEMMA Small ==
  ASSUME NEW q \in Nat \ {0}, NEW n \in 0..q - 1
  PROVE  n % q = n
<1>1. n = q * 0 + n
  OBVIOUS
<1>2. Left(n, q, n)
  BY <1>1 DEF Left
<1>. QED
  BY <1>2, Remainder

LEMMA LeftOfMultiple ==
  ASSUME NEW q \in Nat \ {0}, NEW h \in Nat \ {0}, NEW n \in Nat,
         Left(h, q, 0), Left(n, h, 0)
  PROVE  Left(n, q, 0)
<1>1. PICK y \in Nat : n = h * y + 0
  BY DEF Left
<1>2. PICK z \in Nat : h = q * z + 0
  BY DEF Left
<1>3. h = q * z /\ n = h * y
  <2>1. q * z \in Nat /\ h * y \in Nat
    OBVIOUS
  <2>. QED
    BY <1>1, <1>2, <2>1
<1>4. (q * z) * y = q * (z * y) /\ z * y \in Nat /\ q * (z * y) \in Nat
  OBVIOUS
<1>5. n = q * (z * y) + 0 /\ 0 \in 0..q - 1
  BY <1>3, <1>4
<1>. QED
  BY <1>4, <1>5 DEF Left

LEMMA SecondIsQuanta ==
  ASSUME NEW n \in Nat, n % PIT_CLOCK_HZ = 0
  PROVE  n % QUANTUM = 0
<1>1. QUANTUM \in Nat \ {0} /\ PIT_CLOCK_HZ \in Nat \ {0} /\ PIT_CLOCK_HZ % QUANTUM = 0
  BY ClockAssumption
<1>2. Left(n, PIT_CLOCK_HZ, 0) /\ Left(PIT_CLOCK_HZ, QUANTUM, 0)
  BY <1>1, Remainder
<1>. QED
  BY <1>1, <1>2, LeftOfMultiple, Remainder
(***************************************************************************)
(* One tick more, and what it makes of the phase.                          *)
(***************************************************************************)
LEMMA TickPhase ==
  ASSUME NEW n \in 0..PIT_CLOCK_HZ - 1
  PROVE  LET ticks == (n + 1) % PIT_CLOCK_HZ
         IN /\ ticks \in 0..PIT_CLOCK_HZ - 1
            /\ n % QUANTUM \in 0..QUANTUM - 1
            /\ ticks % QUANTUM = IF (n % QUANTUM) + 1 = QUANTUM THEN 0 ELSE (n % QUANTUM) + 1
<1>. DEFINE ticks == (n + 1) % PIT_CLOCK_HZ
<1>1. QUANTUM \in Nat \ {0} /\ PIT_CLOCK_HZ \in Nat \ {0} /\ n \in Nat
  BY ClockAssumption
<1>2. ticks = IF n + 1 = PIT_CLOCK_HZ THEN 0 ELSE n + 1
  BY <1>1, PhaseNext, Small
<1>3. (n + 1) % QUANTUM = IF (n % QUANTUM) + 1 = QUANTUM THEN 0 ELSE (n % QUANTUM) + 1
  BY <1>1, PhaseNext
<1>4. ticks % QUANTUM = (n + 1) % QUANTUM
  <2>1. CASE n + 1 = PIT_CLOCK_HZ
    BY <1>1, <1>2, <2>1, Zero, ClockAssumption
  <2>2. CASE n + 1 # PIT_CLOCK_HZ
    BY <1>2, <2>2
  <2>. QED
    BY <2>1, <2>2
<1>5. ticks \in 0..PIT_CLOCK_HZ - 1
  BY <1>1, <1>2
<1>6. n % QUANTUM \in 0..QUANTUM - 1
  BY <1>1, PhaseNext
<1>. QED
  BY <1>3, <1>4, <1>5, <1>6
-----------------------------------------------------------------------------
TypeOK ==
  /\ current \in Task
  /\ frames \in [Task -> Seq(State)]
  /\ timer_ticks \in 0..PIT_CLOCK_HZ - 1
  /\ time_sec \in Nat /\ time_min \in Nat /\ time_hour \in Nat
  /\ slice \in 0..QUANTUM
  /\ torn \in BOOLEAN /\ overlapped \in BOOLEAN

Innermost(t, i) == t = current /\ i = Len(frames[t])

(* A handler between its test and the next tick is the running one, and    *)
(* nothing has counted since.                                              *)
TestedNow ==
  \A t \in Task : \A i \in 1..Len(frames[t]) :
    frames[t][i] = "tested" => Innermost(t, i) /\ timer_ticks = 0

(* Without preemption behind the test only the running handler is there.   *)
Alone ==
  ~overlapped => \A t \in Task : \A i \in 1..Len(frames[t]) :
                   frames[t][i] # "switched" => Innermost(t, i)

Inv == TypeOK /\ TestedNow /\ Alone /\ SliceExact /\ DisplayAgrees

(***************************************************************************)
(* What the steps of a late handler do to the frames.                      *)
(***************************************************************************)
LEMMA GotoDoes ==
  ASSUME TypeOK, NEW s \in State, frames[current] # <<>>, Goto(s)
  PROVE  /\ frames' \in [Task -> Seq(State)]
         /\ \A t \in Task : Len(frames'[t]) = Len(frames[t])
         /\ \A t \in Task : \A i \in 1..Len(frames[t]) :
              frames'[t][i] = IF Innermost(t, i) THEN s ELSE frames[t][i]
<1>. DEFINE stack == frames[current]
            new == [stack EXCEPT ![Len(stack)] = s]
<1>1. stack \in Seq(State) /\ Len(stack) \in 1..Len(stack)
  BY DEF TypeOK
<1>2. frames' = [frames EXCEPT ![current] = new]
  BY DEF Goto
<1>3. /\ new \in Seq(State) /\ Len(new) = Len(stack)
      /\ \A i \in 1..Len(stack) : new[i] = IF i = Len(stack) THEN s ELSE stack[i]
  BY <1>1
<1>. HIDE DEF new
<1>. QED
  BY <1>2, <1>3 DEF TypeOK, Innermost

LEMMA ReturnDoes ==
  ASSUME TypeOK, frames[current] # <<>>, Return
  PROVE  /\ frames' \in [Task -> Seq(State)]
         /\ \A t \in Task : /\ t # current => frames'[t] = frames[t]
                            /\ t = current => Len(frames'[t]) = Len(frames[t]) - 1
         /\ \A t \in Task : \A i \in 1..Len(frames'[t]) :
              i \in 1..Len(frames[t]) /\ ~Innermost(t, i) /\ frames'[t][i] = frames[t][i]
<1>. DEFINE stack == frames[current]
            new == SubSeq(stack, 1, Len(stack) - 1)
<1>1. stack \in Seq(State) /\ Len(stack) \in 1..Len(stack)
  BY DEF TypeOK
<1>2. frames' = [frames EXCEPT ![current] = new]
  BY DEF Return
<1>3. /\ new \in Seq(State) /\ Len(new) = Len(stack) - 1
      /\ \A i \in 1..Len(new) : new[i] = stack[i]
  BY <1>1
<1>. HIDE DEF new
<1>4. /\ frames' \in [Task -> Seq(State)] /\ frames'[current] = new
      /\ \A t \in Task \ {current} : frames'[t] = frames[t]
  BY <1>2, <1>3 DEF TypeOK
<1>5. \A i \in 1..Len(new) : i \in 1..Len(stack) /\ i # Len(stack) /\ new[i] = stack[i]
  BY <1>1, <1>3
<1>. QED
  BY <1>3, <1>4, <1>5 DEF Innermost

LEMMA TickedIs ==
  ASSUME NEW stack \in Seq(State)
  PROVE  /\ Ticked(stack) \in Seq(State) /\ Len(Ticked(stack)) = Len(stack)
         /\ \A i \in 1..Len(stack) :
              Ticked(stack)[i] = IF stack[i] = "tested" THEN "ticked" ELSE stack[i]
<1>1. "ticked" \in State
  BY DEF State
<1>. QED
  BY <1>1 DEF Ticked
-----------------------------------------------------------------------------
LEMMA InitInv == Init => Inv
<1>. SUFFICES ASSUME Init PROVE Inv
  OBVIOUS
<1>1. QUANTUM \in Nat \ {0} /\ PIT_CLOCK_HZ \in Nat \ {0} /\ SIXTY \in Nat \ {0}
  BY ClockAssumption
<1>2. TypeOK
  <2>1. <<>> \in Seq(State)
    OBVIOUS
  <2>2. frames \in [Task -> Seq(State)] /\ current \in Task
    BY <2>1 DEF Init
  <2>3. torn \in BOOLEAN /\ overlapped \in BOOLEAN
    BY DEF Init
  <2>. QED
    BY <1>1, <2>2, <2>3 DEF Init, TypeOK
<1>3. \A t \in Task : Len(frames[t]) = 0
  BY DEF Init
<1>4. TestedNow /\ Alone
  BY <1>3 DEF TestedNow, Alone
<1>5. SliceExact
  BY <1>1, Zero DEF Init, SliceExact
<1>6. DisplayAgrees
  BY <1>1 DEF Init, DisplayAgrees
<1>. QED
  BY <1>2, <1>4, <1>5, <1>6 DEF Inv

(***************************************************************************)
(* The ticks.                                                              *)
(***************************************************************************)
LEMMA WithinKeeps ==
  ASSUME Inv, TickWithin
  PROVE  Inv'
<1>. DEFINE ticks == (timer_ticks + 1) % PIT_CLOCK_HZ
<1>0. TypeOK /\ TestedNow /\ Alone /\ SliceExact /\ DisplayAgrees
  BY DEF Inv
<1>1. /\ ticks \in 0..PIT_CLOCK_HZ - 1
      /\ timer_ticks % QUANTUM \in 0..QUANTUM - 1
      /\ ticks % QUANTUM = IF (timer_ticks % QUANTUM) + 1 = QUANTUM THEN 0
                           ELSE (timer_ticks % QUANTUM) + 1
  BY <1>0, TickPhase DEF TypeOK
<1>2. ticks % QUANTUM # 0
  BY DEF TickWithin, SwitchDue
<1>3. timer_ticks' = ticks
  BY <1>1, <1>2, SecondIsQuanta DEF TickWithin, SecondOver
<1>. HIDE DEF ticks
<1>. DEFINE stack == frames[current]
<1>4. stack \in Seq(State) /\ frames' = [frames EXCEPT ![current] = Ticked(stack)]
  BY <1>0 DEF TypeOK, TickWithin
<1>5. /\ Ticked(stack) \in Seq(State) /\ Len(Ticked(stack)) = Len(stack)
      /\ \A i \in 1..Len(stack) :
           Ticked(stack)[i] = IF stack[i] = "tested" THEN "ticked" ELSE stack[i]
  BY <1>4, TickedIs
<1>6. /\ frames' \in [Task -> Seq(State)]
      /\ \A t \in Task : Len(frames'[t]) = Len(frames[t])
      /\ \A t \in Task : \A i \in 1..Len(frames[t]) :
           /\ t # current => frames'[t][i] = frames[t][i]
           /\ t = current => frames'[t][i] = IF frames[t][i] = "tested" THEN "ticked"
                                             ELSE frames[t][i]
  BY <1>0, <1>4, <1>5 DEF TypeOK
<1>7. UNCHANGED <<current, time_sec, time_min, time_hour, video, torn, overlapped>>
  BY DEF TickWithin, time
<1>8. slice' \in 0..QUANTUM
  BY <1>0, ClockAssumption DEF TypeOK, TickWithin
<1>9. TypeOK'
  BY <1>0, <1>1, <1>3, <1>6, <1>7, <1>8 DEF TypeOK
<1>10. TestedNow'
  BY <1>0, <1>6, <1>7 DEF TestedNow, Innermost
<1>11. Alone'
  BY <1>0, <1>6, <1>7 DEF Alone, Innermost
<1>12. SliceExact'
  <2>1. SUFFICES ASSUME ~torn PROVE slice' = ticks % QUANTUM
    BY <1>3, <1>7 DEF SliceExact
  <2>2. slice = timer_ticks % QUANTUM
    BY <1>0, <2>1 DEF SliceExact
  <2>. QED
    BY <1>1, <1>2, <2>2, ClockAssumption DEF TickWithin
<1>13. DisplayAgrees'
  <2>1. \A s \in {"sec", "min", "hour"} : In(s)' = In(s)
    <3>1. current \in Task /\ frames'[current] \in Seq(State)
      BY <1>0, <1>6 DEF TypeOK
    <3>2. frames[current] = <<>> <=> frames'[current] = <<>>
      BY <1>4, <1>6, <3>1
    <3>3. frames[current] # <<>> => Len(frames[current]) \in 1..Len(frames[current])
      BY <1>4
    <3>. QED
      BY <1>6, <1>7, <3>1, <3>2, <3>3 DEF In
  <2>. QED
    BY <1>0, <1>7, <2>1 DEF DisplayAgrees
<1>. QED
  BY <1>9, <1>10, <1>11, <1>12, <1>13 DEF Inv

LEMMA SwitchKeeps ==
  ASSUME Inv, TickSwitch
  PROVE  Inv'
<1>. DEFINE ticks == (timer_ticks + 1) % PIT_CLOCK_HZ
            stack == frames[current]
            new == Append(Ticked(stack), "switched")
<1>0. TypeOK /\ TestedNow /\ Alone /\ SliceExact /\ DisplayAgrees
  BY DEF Inv
<1>1. ticks \in 0..PIT_CLOCK_HZ - 1
  BY <1>0, TickPhase DEF TypeOK
<1>2. ticks % QUANTUM = 0 /\ timer_ticks' = ticks
  BY DEF TickSwitch, SwitchDue
<1>. HIDE DEF ticks
<1>3. stack \in Seq(State) /\ frames' = [frames EXCEPT ![current] = new]
  BY <1>0 DEF TypeOK, TickSwitch
<1>4. /\ Ticked(stack) \in Seq(State) /\ Len(Ticked(stack)) = Len(stack)
      /\ \A i \in 1..Len(stack) :
           Ticked(stack)[i] = IF stack[i] = "tested" THEN "ticked" ELSE stack[i]
  BY <1>3, TickedIs
<1>5. /\ new \in Seq(State) /\ Len(new) = Len(stack) + 1 /\ new[Len(new)] = "switched"
      /\ \A i \in 1..Len(new) :
           \/ i \in 1..Len(stack) /\ new[i] = IF stack[i] = "tested" THEN "ticked" ELSE stack[i]
           \/ new[i] = "switched"
  BY <1>3, <1>4 DEF State
<1>. HIDE DEF new
<1>6. /\ frames' \in [Task -> Seq(State)] /\ frames'[current] = new
      /\ \A t \in Task \ {current} : frames'[t] = frames[t]
  BY <1>0, <1>3, <1>5 DEF TypeOK
<1>7. UNCHANGED <<time_sec, time_min, time_hour, video>>
  BY DEF TickSwitch, time
<1>8. /\ current' \in Task /\ slice' = 0 /\ torn' = FALSE
      /\ overlapped' = (overlapped \/ (stack # <<>> /\ stack[Len(stack)] # "switched"))
  BY DEF TickSwitch
<1>9. TypeOK'
  <2>1. torn' \in BOOLEAN /\ overlapped' \in BOOLEAN
    BY <1>8
  <2>2. slice' \in 0..QUANTUM
    BY <1>8, ClockAssumption
  <2>. QED
    BY <1>0, <1>1, <1>2, <1>6, <1>7, <1>8, <2>1, <2>2 DEF TypeOK
<1>10. TestedNow'
  <2>1. \A t \in Task : \A i \in 1..Len(frames'[t]) : frames'[t][i] # "tested"
    BY <1>0, <1>5, <1>6 DEF TestedNow, Innermost
  <2>. QED
    BY <2>1 DEF TestedNow
<1>11. Alone'
  <2>1. SUFFICES ASSUME ~overlapped'
                 PROVE  \A t \in Task : \A i \in 1..Len(frames'[t]) : frames'[t][i] = "switched"
    BY DEF Alone
  <2>2. ~overlapped /\ (stack = <<>> \/ stack[Len(stack)] = "switched")
    BY <1>0, <1>8, <2>1 DEF TypeOK
  <2>3. \A i \in 1..Len(stack) : stack[i] = "switched"
    <3>1. \A i \in 1..Len(stack) : stack # <<>>
      BY <1>3
    <3>. QED
      BY <1>0, <2>2, <3>1 DEF Alone, Innermost, TypeOK
  <2>4. \A t \in Task \ {current} : \A i \in 1..Len(frames[t]) : frames[t][i] = "switched"
    BY <1>0, <2>2 DEF Alone, Innermost
  <2>. QED
    BY <1>5, <1>6, <2>3, <2>4
<1>12. SliceExact'
  BY <1>2, <1>8 DEF SliceExact
<1>13. DisplayAgrees'
  <2>1. SUFFICES ASSUME ~overlapped' PROVE ~In("sec") /\ ~In("min") /\ ~In("hour") /\ ~overlapped
    BY <1>0, <1>7 DEF DisplayAgrees
  <2>. QED
    BY <1>0, <1>8, <2>1 DEF In, TypeOK
<1>. QED
  BY <1>9, <1>10, <1>11, <1>12, <1>13 DEF Inv

(***************************************************************************)
(* The steps of a late handler.                                            *)
(***************************************************************************)
LEMMA GotoKeeps ==
  ASSUME Inv, NEW s \in State \ {"switched"}, frames[current] # <<>>, Goto(s),
         frames[current][Len(frames[current])] # "switched" \/ s = "tested",
         s = "tested" => timer_ticks = 0,
         timer_ticks' \in {0, timer_ticks}, UNCHANGED <<current, overlapped>>
  PROVE  TestedNow' /\ Alone'
<1>1. TypeOK /\ TestedNow /\ Alone
  BY DEF Inv
<1>2. /\ frames' \in [Task -> Seq(State)]
      /\ \A t \in Task : Len(frames'[t]) = Len(frames[t])
      /\ \A t \in Task : \A i \in 1..Len(frames[t]) :
           frames'[t][i] = IF Innermost(t, i) THEN s ELSE frames[t][i]
  BY <1>1, GotoDoes
<1>3. \A t \in Task : \A i \in 1..Len(frames[t]) : Innermost(t, i)' <=> Innermost(t, i)
  BY <1>2 DEF Innermost
<1>4. TestedNow'
  BY <1>1, <1>2, <1>3 DEF TestedNow
<1>5. Alone'
  BY <1>1, <1>2, <1>3 DEF Alone
<1>. QED
  BY <1>4, <1>5

LEMMA ReturnKeeps ==
  ASSUME Inv, frames[current] # <<>>, Return, UNCHANGED <<current, overlapped, timer_ticks>>
  PROVE  TestedNow' /\ Alone' /\ (~overlapped => \A s \in State \ {"switched"} : ~In(s)')
<1>1. TypeOK /\ TestedNow /\ Alone
  BY DEF Inv
<1>2. \A t \in Task : \A i \in 1..Len(frames'[t]) :
         i \in 1..Len(frames[t]) /\ ~Innermost(t, i) /\ frames'[t][i] = frames[t][i]
  BY <1>1, ReturnDoes
<1>3. \A t \in Task : \A i \in 1..Len(frames'[t]) : frames'[t][i] # "tested"
  BY <1>1, <1>2 DEF TestedNow
<1>4. ~overlapped => \A t \in Task : \A i \in 1..Len(frames'[t]) : frames'[t][i] = "switched"
  BY <1>1, <1>2 DEF Alone
<1>5. frames'[current] # <<>> => Len(frames'[current]) \in 1..Len(frames'[current])
  <2>1. frames'[current] \in Seq(State)
    BY <1>1, ReturnDoes DEF TypeOK
  <2>. QED
    BY <2>1
<1>6. ~overlapped => \A s \in State \ {"switched"} : ~In(s)'
  BY <1>1, <1>4, <1>5 DEF In, TypeOK
<1>. QED
  BY <1>3, <1>4, <1>6 DEF TestedNow, Alone

LEMMA TestKeeps ==
  ASSUME Inv, Test
  PROVE  Inv'
<1>1. TypeOK /\ SliceExact /\ DisplayAgrees
  BY DEF Inv
<1>2. frames[current] # <<>> /\ frames[current][Len(frames[current])] = "switched"
  BY DEF Test, In
<1>3. UNCHANGED <<current, timer_ticks, time_sec, time_min, time_hour, video, slice, torn, overlapped>>
  BY DEF Test, time, ghosts
<1>4. SliceExact'
  BY <1>1, <1>3 DEF SliceExact
<1>5. ~In("sec") /\ ~In("min") /\ ~In("hour")
  BY <1>2 DEF In
<1>6. DisplayAgrees'
  BY <1>1, <1>3, <1>5 DEF DisplayAgrees
<1>7. CASE SecondOver(timer_ticks) /\ Goto("tested")
  <2>1. timer_ticks = 0
    BY <1>1, <1>7, Small, ClockAssumption DEF TypeOK, SecondOver
  <2>2. "tested" \in State \ {"switched"}
    BY DEF State
  <2>3. TestedNow' /\ Alone'
    BY <1>2, <1>3, <1>7, <2>1, <2>2, GotoKeeps
  <2>4. TypeOK'
    BY <1>1, <1>2, <1>3, <1>7, <2>2, GotoDoes DEF TypeOK
  <2>. QED
    BY <1>4, <1>6, <2>3, <2>4 DEF Inv
<1>8. CASE Return
  <2>1. TestedNow' /\ Alone'
    BY <1>2, <1>3, <1>8, ReturnKeeps
  <2>2. TypeOK'
    BY <1>1, <1>2, <1>3, <1>8, ReturnDoes DEF TypeOK
  <2>. QED
    BY <1>4, <1>6, <2>1, <2>2 DEF Inv
<1>. QED
  BY <1>7, <1>8 DEF Test

LEMMA ResetKeeps ==
  ASSUME Inv, Reset
  PROVE  Inv'
<1>1. TypeOK /\ TestedNow /\ SliceExact /\ DisplayAgrees
  BY DEF Inv
<1>2. /\ frames[current] # <<>>
      /\ frames[current][Len(frames[current])] \in {"tested", "ticked"}
      /\ Goto("reset") /\ timer_ticks' = 0 /\ torn' = (torn \/ In("ticked"))
  BY DEF Reset, In
<1>3. UNCHANGED <<current, time_sec, time_min, time_hour, video, slice, overlapped>>
  BY DEF Reset, time
<1>4. "reset" \in State \ {"switched"}
  BY DEF State
<1>5. TestedNow' /\ Alone'
  BY <1>2, <1>3, <1>4, GotoKeeps
<1>6. TypeOK'
  <2>1. torn' \in BOOLEAN
    BY <1>2
  <2>. QED
    BY <1>1, <1>2, <1>3, <1>4, <2>1, GotoDoes, ClockAssumption DEF TypeOK
<1>7. SliceExact'
  <2>1. SUFFICES ASSUME ~torn' PROVE slice = 0 % QUANTUM
    BY <1>2, <1>3 DEF SliceExact
  <2>2. ~torn /\ frames[current][Len(frames[current])] = "tested"
    BY <1>1, <1>2, <2>1 DEF TypeOK, In
  <2>3. Len(frames[current]) \in 1..Len(frames[current])
    BY <1>1, <1>2 DEF TypeOK
  <2>4. timer_ticks = 0
    BY <1>1, <2>2, <2>3 DEF TestedNow, TypeOK
  <2>. QED
    BY <1>1, <2>2, <2>4 DEF SliceExact
<1>8. ~In("sec") /\ ~In("min") /\ ~In("hour")
  BY <1>2 DEF In
<1>9. DisplayAgrees'
  BY <1>1, <1>3, <1>8 DEF DisplayAgrees
<1>. QED
  BY <1>5, <1>6, <1>7, <1>9 DEF Inv

LEMMA CountKeeps ==
  ASSUME Inv, Count
  PROVE  Inv'
<1>. DEFINE minute == time_sec + 1 = SIXTY
            hour   == minute /\ time_min + 1 = SIXTY
<1>0. PICK s \in {"sec", "min", "hour"} :
         s = IF hour THEN "hour" ELSE IF minute THEN "min" ELSE "sec"
  OBVIOUS
<1>1. TypeOK /\ SliceExact /\ DisplayAgrees
  BY DEF Inv
<1>2. frames[current] # <<>> /\ frames[current][Len(frames[current])] = "reset"
  BY DEF Count, In
<1>3. Goto(s) /\ UNCHANGED <<current, timer_ticks, video, slice, torn, overlapped>>
  BY <1>0 DEF Count, ghosts
<1>4. /\ time_sec' = IF minute THEN 0 ELSE time_sec + 1
      /\ time_min' = IF hour THEN 0 ELSE IF minute THEN time_min + 1 ELSE time_min
      /\ time_hour' = IF hour THEN (time_hour + 1) % WORD ELSE time_hour
  BY DEF Count
<1>5. s \in State \ {"switched", "tested"}
  BY DEF State
<1>6. TestedNow' /\ Alone'
  BY <1>2, <1>3, <1>5, GotoKeeps
<1>7. TypeOK'
  <2>1. time_sec' \in Nat /\ time_min' \in Nat
    BY <1>1, <1>4 DEF TypeOK
  <2>2. time_hour' \in Nat
    BY <1>1, <1>4, ClockAssumption DEF TypeOK
  <2>. QED
    BY <1>1, <1>2, <1>3, <1>5, <2>1, <2>2, GotoDoes DEF TypeOK
<1>8. SliceExact'
  BY <1>1, <1>3 DEF SliceExact
<1>9. DisplayAgrees'
  <2>1. SUFFICES ASSUME ~overlapped PROVE DisplayAgrees'
    BY <1>1, <1>3 DEF DisplayAgrees
  <2>2. ~In("sec") /\ ~In("min") /\ ~In("hour")
    BY <1>2 DEF In
  <2>3. /\ time_sec < SIXTY /\ time_min < SIXTY
        /\ video.hour \in {BLANK, Digits(time_hour)}
        /\ video.min \in {BLANK, Digits(time_min)}
    BY <1>1, <2>1, <2>2 DEF DisplayAgrees
  <2>4. time_sec' < SIXTY /\ time_min' < SIXTY
    BY <1>1, <1>4, <2>3, ClockAssumption DEF TypeOK
  <2>5. In(s)'
    <3>1. Len(frames[current]) \in 1..Len(frames[current]) /\ current \in Task
      BY <1>1, <1>2 DEF TypeOK
    <3>2. frames'[current][Len(frames[current])] = s /\ Len(frames'[current]) = Len(frames[current])
      BY <1>1, <1>2, <1>3, <1>5, <3>1, GotoDoes DEF Innermost
    <3>3. frames'[current] # <<>>
      BY <3>1, <3>2
    <3>. QED
      BY <1>3, <3>2, <3>3 DEF In
  <2>6. s \in {"sec", "min"} => time_hour' = time_hour
    BY <1>0, <1>4
  <2>7. s = "sec" => time_min' = time_min
    BY <1>0, <1>4
  <2>. QED
    BY <1>0, <1>3, <2>3, <2>4, <2>5, <2>6, <2>7 DEF DisplayAgrees
<1>. QED
  BY <1>6, <1>7, <1>8, <1>9 DEF Inv

LEMMA DrawKeeps ==
  ASSUME Inv, Draw
  PROVE  Inv'
<1>1. TypeOK /\ SliceExact /\ DisplayAgrees
  BY DEF Inv
<1>2. frames[current] # <<>> /\ Return
  BY DEF Draw, In
<1>3. UNCHANGED <<current, timer_ticks, time_sec, time_min, time_hour, slice, torn, overlapped>>
  BY DEF Draw, time, ghosts
<1>4. TestedNow' /\ Alone'
  BY <1>2, <1>3, ReturnKeeps
<1>5. TypeOK'
  BY <1>1, <1>2, <1>3, ReturnDoes DEF TypeOK
<1>6. SliceExact'
  BY <1>1, <1>3 DEF SliceExact
<1>7. DisplayAgrees'
  <2>1. \A s \in State : In(s) => \A r \in State \ {s} : ~In(r)
    BY DEF In
  <2>2. /\ video'.hour = IF In("hour") THEN Digits(time_hour) ELSE video.hour
        /\ video'.min = IF In("sec") THEN video.min ELSE Digits(time_min)
        /\ video'.sec = Digits(time_sec)
    BY DEF Draw
  <2>3. In("sec") \/ In("min") \/ In("hour")
    BY DEF Draw
  <2>4. ~overlapped => /\ video'.hour \in {BLANK, Digits(time_hour)}
                       /\ video'.min \in {BLANK, Digits(time_min)}
                       /\ time_sec < SIXTY /\ time_min < SIXTY
    BY <1>1, <2>1, <2>2, <2>3 DEF DisplayAgrees, State
  <2>. QED
    BY <1>3, <2>2, <2>4 DEF DisplayAgrees
<1>. QED
  BY <1>4, <1>5, <1>6, <1>7 DEF Inv

LEMMA ScreenKeeps ==
  ASSUME Inv, GiveUp \/ clear_screen
  PROVE  Inv'
<1>1. TypeOK /\ TestedNow /\ Alone /\ SliceExact /\ DisplayAgrees
  BY DEF Inv
<1>2. /\ frames[current] = <<>> /\ current' \in Task
      /\ UNCHANGED <<frames, timer_ticks, time_sec, time_min, time_hour, slice, torn, overlapped>>
      /\ video' \in {video, [hour |-> BLANK, min |-> BLANK, sec |-> BLANK]}
  BY <1>1 DEF TypeOK, GiveUp, clear_screen, time, ghosts
<1>3. TypeOK'
  BY <1>1, <1>2 DEF TypeOK
<1>4. \A t \in Task : \A i \in 1..Len(frames[t]) : ~Innermost(t, i)
  BY <1>2 DEF Innermost
<1>5. TestedNow' /\ Alone'
  BY <1>1, <1>2, <1>4 DEF TestedNow, Alone
<1>6. SliceExact'
  BY <1>1, <1>2 DEF SliceExact
<1>7. ~In("sec") /\ ~In("min") /\ ~In("hour")
  BY <1>2 DEF In
<1>8. DisplayAgrees'
  BY <1>1, <1>2, <1>7 DEF DisplayAgrees
<1>. QED
  BY <1>3, <1>5, <1>6, <1>8 DEF Inv

LEMMA StepInv == Inv /\ [Next]_vars => Inv'
<1>1. Inv /\ UNCHANGED vars => Inv'
  BY DEF vars, time, ghosts, Inv, TypeOK, TestedNow, Alone, Innermost, SliceExact,
         DisplayAgrees, In
<1>. QED
  BY <1>1, WithinKeeps, SwitchKeeps, TestKeeps, ResetKeeps, CountKeeps, DrawKeeps,
     ScreenKeeps DEF Next, Tick, Late

LEMMA InvKept == Spec => []Inv
  BY InitInv, StepInv, PTL DEF Spec

(***************************************************************************)
(* SwitchesOnTime: however many handlers are unfinished, in whatever order *)
(* they are resumed and wherever in them the next ticks fall, the phase of *)
(* "timer_ticks % 100" moves only through a tick between the test and the  *)
(* reset of one handler, and only until the next switch.                   *)
(***************************************************************************)
THEOREM SwitchesOnTime == Spec => []SliceExact
<1>1. Inv => SliceExact
  BY DEF Inv
<1>. QED
  BY <1>1, InvKept, PTL

(***************************************************************************)
(* ScreenShowsTime: as long as no handler is preempted behind its test,    *)
(* every part of the clock on the screen is the time kept, blank since a   *)
(* clear_screen, or about to be drawn by the running handler.              *)
(***************************************************************************)
THEOREM ScreenShowsTime == Spec => []DisplayAgrees
<1>1. Inv => DisplayAgrees
  BY DEF Inv
<1>. QED
  BY <1>1, InvKept, PTL
=============================================================================
