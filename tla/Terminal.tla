------------------------------ MODULE Terminal ------------------------------
(***************************************************************************)
(* The keyboard interrupt (sys/input/keyboard.c) and the terminal it feeds *)
(* (sys/terminal/terminal_driver.c).  keyboard_handler runs with           *)
(* interrupts off and is one action, the wake-up of the readers included.  *)
(* terminal_read sleeps first; switchTo turns interrupts on again before   *)
(* it returns there, so each statement after the sleep is a step, and keys *)
(* and other readers come in between.                                      *)
(*                                                                         *)
(* As in Scheduler, an operator directly above another and named after it  *)
(* is that operator with a mistake in it.                                  *)
(***************************************************************************)
EXTENDS Integers, Sequences, FiniteSets

CONSTANTS
  Reader,        \* the tasks that read the terminal
  Key,           \* bound: the scan codes of the keys that are used
  BUFFER_SIZE,   \* size of terminal_buffer
  WORD           \* number of values of a uint64_t

LSHIFT == 42
RSHIFT == 54
CTRL == 29
NUL == 0
BACKSPACE == 14
FLUSH_CHAR == 28
SPACE == 57
UP_ARROW == 72

NoChar == {LSHIFT, RSHIFT, CTRL, UP_ARROW}

ASSUME TerminalAssumption ==
  /\ Key \subseteq (16..25) \cup (30..38) \cup (44..50) \cup
       {LSHIFT, RSHIFT, CTRL, BACKSPACE, FLUSH_CHAR, SPACE, UP_ARROW}
  /\ BUFFER_SIZE \in Nat /\ BUFFER_SIZE >= 2
  /\ WORD \in Nat /\ WORD > BUFFER_SIZE

VARIABLES
  keys,             \* gKbKeyState: the keys the handler takes to be held
  down,             \* the keys that are held
  terminal_buffer, buffer_len,
  line,             \* what the typist sees on the line being typed
  reading,          \* where each task is in terminal_read
  buf, count,       \* each read's copy of the line, and its length
  disturbed         \* ghost: the reads whose line has changed since they copied it

vars == <<keys, down, terminal_buffer, buffer_len, line, reading, buf, count, disturbed>>

Init ==
  /\ keys = {} /\ down = {}
  /\ terminal_buffer = [i \in 0..(BUFFER_SIZE - 1) |-> NUL]
  /\ buffer_len = 0
  /\ line = <<>>
  /\ reading = [r \in Reader |-> "idle"]
  /\ buf = [r \in Reader |-> <<>>]
  /\ count = [r \in Reader |-> 0]
  /\ disturbed = {}
-----------------------------------------------------------------------------
(***************************************************************************)
(* The tables: a letter is its scan code, in upper case 128 more; the      *)
(* other keys used here give the same character in both.  A key without a  *)
(* character gives NUL, which terminal_enqueue stores like a letter.       *)
(***************************************************************************)
kbdus(k) == IF k \in NoChar THEN NUL ELSE k
shift_kbdus(k) ==
  IF k \in NoChar \cup {BACKSPACE, FLUSH_CHAR, SPACE}
  THEN kbdus(k) ELSE k + 128

SameWord(j, k) == j \div 64 = k \div 64

(***************************************************************************)
(* The character of a key that is pressed while "held" is marked.  Of two  *)
(* keys down without shift or control the second one gives a space.        *)
(***************************************************************************)
CharOf(k, held) ==
  LET marked(m) == m \in held /\ SameWord(m, k)
  IN  IF held = {k} THEN kbdus(k)
      ELSE IF marked(LSHIFT) \/ marked(CTRL) THEN shift_kbdus(k)
      ELSE SPACE

(***************************************************************************)
(* The release mask 0xff..fe << k keeps the bits above k only.             *)
(***************************************************************************)
MarkedAfterReleaseOffByOne(k) == {j \in keys : ~SameWord(j, k) \/ j >= k}
MarkedAfterRelease(k) == {j \in keys : ~SameWord(j, k) \/ j > k}

(***************************************************************************)
(* A write beyond terminal_buffer changes memory that is not represented.  *)
(***************************************************************************)
Store(b, i, c) == IF i \in DOMAIN b THEN [b EXCEPT ![i] = c] ELSE b

(***************************************************************************)
(* terminal_enqueue: the buffer, its length and who is woken.              *)
(***************************************************************************)
EraseKeepsLength ==
  /\ buffer_len' = buffer_len
  /\ terminal_buffer' = Store(terminal_buffer, buffer_len, NUL)
  /\ UNCHANGED reading
Erase ==
  /\ buffer_len' = (buffer_len - 1) % WORD
  /\ terminal_buffer' = Store(Store(terminal_buffer, buffer_len, NUL),
                              buffer_len', NUL)
  /\ UNCHANGED reading

terminal_flush ==
  reading' = [r \in Reader |->
                IF reading[r] = "asleep" THEN "copy" ELSE reading[r]]

terminal_enqueue(c) ==
  \/ c = BACKSPACE /\ Erase
  \/ /\ c = FLUSH_CHAR
     /\ terminal_buffer' = Store(terminal_buffer, buffer_len, NUL)
     /\ terminal_flush
     /\ UNCHANGED buffer_len
  \/ /\ c = SPACE /\ buffer_len = 0
     /\ UNCHANGED <<terminal_buffer, buffer_len, reading>>
  \/ /\ c \notin {BACKSPACE, FLUSH_CHAR}
     /\ ~(c = SPACE /\ buffer_len = 0)
     /\ terminal_buffer' = Store(terminal_buffer, buffer_len, c)
     /\ buffer_len' = (buffer_len + 1) % WORD
     /\ UNCHANGED reading

(***************************************************************************)
(* The line as it should be after character c: the reference for           *)
(* terminal_enqueue.                                                       *)
(***************************************************************************)
Edited(l, c) ==
  CASE c = BACKSPACE  -> IF l = <<>> THEN l ELSE SubSeq(l, 1, Len(l) - 1)
    [] c = FLUSH_CHAR -> l
    [] c = SPACE      -> IF l = <<>> THEN l ELSE Append(l, c)
    [] OTHER          -> Append(l, c)

(***************************************************************************)
(* The typist erases only what is there and does not fill the buffer; the  *)
(* code tests neither, and writes outside terminal_buffer otherwise.       *)
(***************************************************************************)
TypistWould(c) ==
  /\ c = BACKSPACE => line # <<>>
  /\ Len(Edited(line, c)) < BUFFER_SIZE

Copied == {r \in Reader : reading[r] \in {"count", "reset"}}
-----------------------------------------------------------------------------
(***************************************************************************)
(* keyboard_handler for the press of a key (again and again while it is    *)
(* held) and for its release.                                              *)
(***************************************************************************)
KeyPress(k) ==
  LET c == CharOf(k, keys \cup {k})
  IN  /\ keys' = keys \cup {k}
      /\ down' = down \cup {k}
      /\ \/ /\ k \in {LSHIFT, RSHIFT}
            /\ UNCHANGED <<terminal_buffer, buffer_len, line, reading, disturbed>>
         \/ /\ k \notin {LSHIFT, RSHIFT}
            /\ TypistWould(c)
            /\ terminal_enqueue(c)
            /\ line' = Edited(line, c)
            /\ disturbed' = IF line' = line THEN disturbed ELSE disturbed \cup Copied
      /\ UNCHANGED <<buf, count>>

KeyRelease(k) ==
  /\ k \in down
  /\ keys' = MarkedAfterRelease(k)
  /\ down' = down \ {k}
  /\ UNCHANGED <<terminal_buffer, buffer_len, line, reading, buf, count, disturbed>>

(***************************************************************************)
(* terminal_read: sys_sleep(TERMINAL_TYPE), then memcpy, then "count =     *)
(* buffer_len", then "buffer_len = 0" and the return; the copy is the      *)
(* caller's from there on and no longer represented.                       *)
(***************************************************************************)
Read(r) ==
  /\ reading[r] = "idle"
  /\ reading' = [reading EXCEPT ![r] = "asleep"]
  /\ UNCHANGED <<keys, down, terminal_buffer, buffer_len, line, buf, count, disturbed>>

CopyStep(r) ==
  /\ reading[r] = "copy"
  /\ buffer_len <= BUFFER_SIZE
  /\ buf' = [buf EXCEPT ![r] = [i \in 1..buffer_len |-> terminal_buffer[i - 1]]]
  /\ reading' = [reading EXCEPT ![r] = "count"]
  /\ disturbed' = disturbed \ {r}
  /\ UNCHANGED <<keys, down, terminal_buffer, buffer_len, line, count>>

CountStep(r) ==
  /\ reading[r] = "count"
  /\ count' = [count EXCEPT ![r] = buffer_len]
  /\ reading' = [reading EXCEPT ![r] = "reset"]
  /\ UNCHANGED <<keys, down, terminal_buffer, buffer_len, line, buf, disturbed>>

ResetStepEarly(r) ==
  /\ reading[r] = "count"
  /\ buffer_len' = 0 /\ line' = <<>>
  /\ disturbed' = (disturbed \cup IF line = <<>> THEN {} ELSE Copied) \ {r}
  /\ reading' = [reading EXCEPT ![r] = "idle"]
  /\ buf' = [buf EXCEPT ![r] = <<>>] /\ count' = [count EXCEPT ![r] = 0]
  /\ UNCHANGED <<keys, down, terminal_buffer>>
ResetStep(r) ==
  /\ reading[r] = "reset"
  /\ buffer_len' = 0 /\ line' = <<>>
  /\ disturbed' = (disturbed \cup IF line = <<>> THEN {} ELSE Copied) \ {r}
  /\ reading' = [reading EXCEPT ![r] = "idle"]
  /\ buf' = [buf EXCEPT ![r] = <<>>] /\ count' = [count EXCEPT ![r] = 0]
  /\ UNCHANGED <<keys, down, terminal_buffer>>

Next ==
  \/ \E k \in Key : KeyPress(k) \/ KeyRelease(k)
  \/ \E r \in Reader : Read(r) \/ CopyStep(r) \/ CountStep(r) \/ ResetStep(r)

Spec == Init /\ [][Next]_vars
-----------------------------------------------------------------------------
(***************************************************************************)
(* BufferHoldsLine: with a careful typist the kernel's buffer is, between  *)
(* any two steps and whatever the readers are doing, the line the typist   *)
(* sees: every key edited it in place and every read emptied it.           *)
(***************************************************************************)
BufferHoldsLine ==
  /\ buffer_len = Len(line)
  /\ \A i \in 1..Len(line) : terminal_buffer[i - 1] = line[i]

(***************************************************************************)
(* ReadsWhole: when terminal_read resets the buffer, the line it resets is *)
(* the one it copied, and its return value is that line's length.          *)
(***************************************************************************)
Whole(r) == buf[r] = line /\ count[r] = Len(buf[r])
ReadEnds(r) == reading[r] # "idle" /\ reading'[r] = "idle"

ReadsWhole == [][ \A r \in Reader : ReadEnds(r) => Whole(r) ]_vars

(***************************************************************************)
(* LossNeedsRace: a read of terminal_read that returns something else than *)
(* the line it resets, or loses part of that line, is one during which a   *)
(* key or another reader has changed the line after the memcpy: nothing    *)
(* that happened before the copy (keys typed before and after the flush    *)
(* that woke it, other reads under way, backspaces) makes it do so.        *)
(***************************************************************************)
LossNeedsRace == [][ \A r \in Reader : ReadEnds(r) /\ r \notin disturbed => Whole(r) ]_vars

(***************************************************************************)
(* MarkedKeysHeld: keyboard_handler never takes a key to be held that has  *)
(* been released, so a shift cannot get stuck.                             *)
(***************************************************************************)
MarkedKeysHeld == keys \subseteq down
=============================================================================
