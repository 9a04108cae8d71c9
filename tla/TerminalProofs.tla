---------------------------- MODULE TerminalProofs ----------------------------
(***************************************************************************)
(* Proofs about the keyboard and the terminal, for any keys, any size of   *)
(* the buffer and any number of readers.                                   *)
(***************************************************************************)
EXTENDS Terminal, SequenceTheorems, TLAPS

(***************************************************************************)
(* What is typed are numbers, and the line fits in the buffer with room    *)
(* for the NUL.  This is what makes every store of terminal_enqueue one    *)
(* inside the buffer, so that the buffer can hold the line.                *)
(***************************************************************************)
Types ==
  /\ line \in Seq(Nat) /\ Len(line) < BUFFER_SIZE
  /\ terminal_buffer \in [0..(BUFFER_SIZE - 1) -> Nat]
  /\ reading \in [Reader -> {"idle", "asleep", "copy", "count", "reset"}]
  /\ buf \in [Reader -> Seq(Nat)]
  /\ count \in [Reader -> Nat]

LineInv == Types /\ BufferHoldsLine

(***************************************************************************)
(* Every character is a number.                                            *)
(***************************************************************************)
LEMMA CharsAreNumbers ==
  ASSUME NEW k \in Key, NEW held
  PROVE  CharOf(k, held) \in Nat
<1>1. k \in Nat
  BY TerminalAssumption DEF LSHIFT, RSHIFT, CTRL, BACKSPACE, FLUSH_CHAR, SPACE, UP_ARROW
<1>2. kbdus(k) \in Nat /\ shift_kbdus(k) \in Nat
  BY <1>1 DEF kbdus, shift_kbdus, NUL
<1> QED
  BY <1>2 DEF CharOf, SPACE

(***************************************************************************)
(* A length that fits in the buffer does not wrap.                         *)
(***************************************************************************)
LEMMA NoWrap ==
  ASSUME NEW n \in 0..BUFFER_SIZE
  PROVE  n % WORD = n
<1>1. WORD \in Nat /\ n \in 0..(WORD - 1)
  BY TerminalAssumption
<1> QED
  BY <1>1

(***************************************************************************)
(* terminal_enqueue edits the buffer as the typist edits the line.         *)
(***************************************************************************)
LEMMA EnqueueEdits ==
  ASSUME LineInv, NEW c \in Nat,
         TypistWould(c), terminal_enqueue(c), line' = Edited(line, c),
         UNCHANGED <<buf, count>>
  PROVE  LineInv'
<1>1. /\ line \in Seq(Nat) /\ Len(line) < BUFFER_SIZE /\ Len(line) \in Nat
      /\ terminal_buffer \in [0..(BUFFER_SIZE - 1) -> Nat]
      /\ buffer_len = Len(line)
      /\ \A i \in 1..Len(line) : terminal_buffer[i - 1] = line[i]
  BY DEF LineInv, Types, BufferHoldsLine
<1>2. BUFFER_SIZE \in Nat /\ BUFFER_SIZE >= 2
  BY TerminalAssumption
<1>3. Len(line') < BUFFER_SIZE
  BY DEF TypistWould
<1>4. /\ reading' \in [Reader -> {"idle", "asleep", "copy", "count", "reset"}]
      /\ buf' \in [Reader -> Seq(Nat)] /\ count' \in [Reader -> Nat]
  BY DEF LineInv, Types, terminal_enqueue, terminal_flush, Erase
<1>5. CASE c = BACKSPACE
  <2>1. line # <<>> /\ Len(line) > 0
    BY <1>1, <1>5 DEF TypistWould
  <2>2. line' = SubSeq(line, 1, Len(line) - 1)
    BY <1>5, <2>1 DEF Edited, BACKSPACE, FLUSH_CHAR, SPACE
  <2>3. /\ line' \in Seq(Nat) /\ Len(line') = Len(line) - 1
        /\ \A i \in 1..Len(line') : line'[i] = line[i]
    <3>1. Len(line) - 1 \in Nat /\ Len(line) - 1 \in 1..Len(line) \cup {0}
      BY <1>1, <2>1
    <3>2. /\ line' \in Seq(Nat)
          /\ Len(line') = Len(line) - 1
      BY <1>1, <2>2, <3>1
    <3>3. \A i \in 1..(Len(line) - 1) : line'[i] = line[i]
      BY <1>1, <2>2, <3>1
    <3> QED
      BY <3>2, <3>3
  <2>4. Erase
    BY <1>5 DEF terminal_enqueue, BACKSPACE, FLUSH_CHAR, SPACE
  <2>5. buffer_len' = Len(line) - 1
    <3>1. Len(line) - 1 \in 0..BUFFER_SIZE
      BY <1>1, <1>2, <2>1
    <3>2. (Len(line) - 1) % WORD = Len(line) - 1
      BY <3>1, NoWrap
    <3> QED
      BY <1>1, <2>4, <3>2 DEF Erase
  <2>6. terminal_buffer' =
          [[terminal_buffer EXCEPT ![Len(line)] = NUL] EXCEPT ![Len(line) - 1] = NUL]
    BY <1>1, <1>2, <2>1, <2>4, <2>5 DEF Erase, Store
  <2>7. terminal_buffer' \in [0..(BUFFER_SIZE - 1) -> Nat]
    BY <1>1, <2>6 DEF NUL
  <2>8. \A i \in 1..Len(line') : terminal_buffer'[i - 1] = line'[i]
    <3> SUFFICES ASSUME NEW i \in 1..Len(line')
                 PROVE  terminal_buffer'[i - 1] = line'[i]
      OBVIOUS
    <3>1. i \in 1..(Len(line) - 1)
      BY <2>3
    <3>2. /\ i \in 1..Len(line) /\ i - 1 \in 0..(BUFFER_SIZE - 1)
          /\ i - 1 # Len(line) /\ i - 1 # Len(line) - 1
      <4>1. Len(line) \in Nat /\ BUFFER_SIZE \in Nat /\ Len(line) < BUFFER_SIZE
        BY <1>1, <1>2
      <4>2. \A n, b \in Nat : \A j \in 1..(n - 1) : n < b =>
              j \in 1..n /\ j - 1 \in 0..(b - 1) /\ j - 1 # n /\ j - 1 # n - 1
        OBVIOUS
      <4> QED
        BY <3>1, <4>1, <4>2
    <3> QED
      BY <1>1, <2>3, <2>6, <3>2
  <2> QED
    BY <1>3, <1>4, <2>3, <2>5, <2>7, <2>8 DEF LineInv, Types, BufferHoldsLine
<1>6. CASE c = FLUSH_CHAR
  <2>1. line' = line /\ buffer_len' = buffer_len
    BY <1>6 DEF Edited, terminal_enqueue, BACKSPACE, FLUSH_CHAR, SPACE
  <2>2. terminal_buffer' = [terminal_buffer EXCEPT ![Len(line)] = NUL]
    BY <1>1, <1>2, <1>6 DEF terminal_enqueue, Store, BACKSPACE, FLUSH_CHAR, SPACE
  <2>3. terminal_buffer' \in [0..(BUFFER_SIZE - 1) -> Nat]
    BY <1>1, <2>2 DEF NUL
  <2>4. \A i \in 1..Len(line) : terminal_buffer'[i - 1] = line[i]
    <3>1. \A i \in 1..Len(line) : i - 1 \in 0..(BUFFER_SIZE - 1) /\ i - 1 # Len(line)
      BY <1>1, <1>2
    <3> QED
      BY <1>1, <2>2, <3>1
  <2> QED
    BY <1>1, <1>4, <2>1, <2>3, <2>4 DEF LineInv, Types, BufferHoldsLine
<1>7. CASE c = SPACE /\ buffer_len = 0
  <2>1. line = <<>>
    BY <1>1, <1>7, EmptySeq
  <2>2. UNCHANGED <<line, terminal_buffer, buffer_len>>
    BY <1>7, <2>1 DEF Edited, terminal_enqueue, BACKSPACE, FLUSH_CHAR, SPACE
  <2> QED
    BY <1>1, <1>4, <2>2 DEF LineInv, Types, BufferHoldsLine
<1>8. CASE c \notin {BACKSPACE, FLUSH_CHAR} /\ ~(c = SPACE /\ buffer_len = 0)
  <2>1. line' = Append(line, c)
    BY <1>1, <1>8 DEF Edited
  <2>2. /\ line' \in Seq(Nat) /\ Len(line') = Len(line) + 1
        /\ \A i \in 1..Len(line) : line'[i] = line[i]
        /\ line'[Len(line) + 1] = c
    BY <1>1, <2>1
  <2>3. terminal_buffer' = [terminal_buffer EXCEPT ![Len(line)] = c]
    BY <1>1, <1>2, <1>8 DEF terminal_enqueue, Store, BACKSPACE, FLUSH_CHAR
  <2>4. buffer_len' = Len(line) + 1
    <3>1. Len(line) + 1 \in 0..BUFFER_SIZE
      BY <1>1, <1>2
    <3>2. (Len(line) + 1) % WORD = Len(line) + 1
      BY <3>1, NoWrap
    <3> QED
      BY <1>1, <1>8, <3>2 DEF terminal_enqueue, BACKSPACE, FLUSH_CHAR
  <2>5. terminal_buffer' \in [0..(BUFFER_SIZE - 1) -> Nat]
    BY <1>1, <2>3
  <2>6. \A i \in 1..Len(line') : terminal_buffer'[i - 1] = line'[i]
    <3> SUFFICES ASSUME NEW i \in 1..Len(line')
                 PROVE  terminal_buffer'[i - 1] = line'[i]
      OBVIOUS
    <3>1. i - 1 \in 0..(BUFFER_SIZE - 1)
      BY <1>1, <1>2, <2>2
    <3>2. CASE i = Len(line) + 1
      BY <1>1, <2>2, <2>3, <3>1, <3>2
    <3>3. CASE i # Len(line) + 1
      <4>1. i \in 1..Len(line) /\ i - 1 # Len(line)
        BY <1>1, <2>2, <3>3
      <4> QED
        BY <1>1, <2>2, <2>3, <3>1, <4>1
    <3> QED
      BY <3>2, <3>3
  <2> QED
    BY <1>3, <1>4, <2>2, <2>4, <2>5, <2>6 DEF LineInv, Types, BufferHoldsLine
<1> QED
  BY <1>5, <1>6, <1>7, <1>8

(***************************************************************************)
(* The memcpy of terminal_read copies the line.                            *)
(***************************************************************************)
LEMMA CopiesLine ==
  ASSUME LineInv
  PROVE  [i \in 1..buffer_len |-> terminal_buffer[i - 1]] = line
<1>1. line \in Seq(Nat) /\ buffer_len = Len(line)
  BY DEF LineInv, Types, BufferHoldsLine
<1>2. line = [i \in 1..Len(line) |-> line[i]]
  BY <1>1
<1>3. \A i \in 1..Len(line) : terminal_buffer[i - 1] = line[i]
  BY DEF LineInv, BufferHoldsLine
<1> QED
  BY <1>1, <1>2, <1>3

(***************************************************************************)
(* The other steps: a shift key, a release and the steps of terminal_read. *)
(***************************************************************************)
LEMMA LineStep ==
  ASSUME LineInv, [Next]_vars
  PROVE  LineInv'
<1>1. ASSUME NEW k \in Key, KeyPress(k)
      PROVE  LineInv'
  <2>1. CASE UNCHANGED <<terminal_buffer, buffer_len, line, reading>>
    BY <1>1, <2>1 DEF KeyPress, LineInv, Types, BufferHoldsLine
  <2>2. CASE \E c \in Nat : /\ TypistWould(c) /\ terminal_enqueue(c)
                             /\ line' = Edited(line, c)
    BY <1>1, <2>2, EnqueueEdits DEF KeyPress
  <2> QED
    BY <1>1, <2>1, <2>2, CharsAreNumbers DEF KeyPress
<1>2. ASSUME NEW k \in Key, KeyRelease(k)
      PROVE  LineInv'
  BY <1>2 DEF KeyRelease, LineInv, Types, BufferHoldsLine
<1>3. ASSUME NEW r \in Reader, Read(r)
      PROVE  LineInv'
  BY <1>3 DEF Read, LineInv, Types, BufferHoldsLine
<1>4. ASSUME NEW r \in Reader, CopyStep(r)
      PROVE  LineInv'
  <2>1. buf'[r] = line /\ buf' = [buf EXCEPT ![r] = line]
    BY <1>4, CopiesLine DEF CopyStep, LineInv, Types
  <2> QED
    BY <1>4, <2>1 DEF CopyStep, LineInv, Types, BufferHoldsLine
<1>5. ASSUME NEW r \in Reader, CountStep(r)
      PROVE  LineInv'
  BY <1>5, LenProperties DEF CountStep, LineInv, Types, BufferHoldsLine
<1>6. ASSUME NEW r \in Reader, ResetStep(r)
      PROVE  LineInv'
  <2>1. line' = <<>> /\ Len(line') = 0 /\ line' \in Seq(Nat) /\ buffer_len' = 0
    BY <1>6 DEF ResetStep
  <2>2. 0 < BUFFER_SIZE
    BY TerminalAssumption
  <2> QED
    BY <1>6, <2>1, <2>2 DEF ResetStep, LineInv, Types, BufferHoldsLine
<1>7. CASE UNCHANGED vars
  BY <1>7 DEF vars, LineInv, Types, BufferHoldsLine
<1> QED
  BY <1>1, <1>2, <1>3, <1>4, <1>5, <1>6, <1>7 DEF Next

LEMMA LineInit == Init => LineInv
<1>1. BUFFER_SIZE \in Nat /\ 0 < BUFFER_SIZE
  BY TerminalAssumption
<1> QED
  BY <1>1 DEF Init, LineInv, Types, BufferHoldsLine, NUL

LEMMA LineKept == Spec => []LineInv
  BY LineInit, LineStep, PTL DEF Spec

(***************************************************************************)
(* terminal_buffer is the edited line, however the keys and the steps of   *)
(* the readers interleave: also while a read is under way.                 *)
(***************************************************************************)
THEOREM BufferKeepsLine == Spec => []BufferHoldsLine
<1>1. LineInv => BufferHoldsLine
  BY DEF LineInv
<1> QED
  BY <1>1, LineKept, PTL

(***************************************************************************)
(* The release mask of keyboard_handler never leaves a released key marked.*)
(***************************************************************************)
THEOREM MarkedStayHeld == Spec => []MarkedKeysHeld
<1>1. Init => MarkedKeysHeld
  BY DEF Init, MarkedKeysHeld
<1>2. MarkedKeysHeld /\ [Next]_vars => MarkedKeysHeld'
  <2> SUFFICES ASSUME MarkedKeysHeld, [Next]_vars
               PROVE  MarkedKeysHeld'
    OBVIOUS
  <2>1. ASSUME NEW k \in Key, KeyPress(k)
        PROVE  MarkedKeysHeld'
    BY <2>1 DEF KeyPress, MarkedKeysHeld
  <2>2. ASSUME NEW k \in Key, KeyRelease(k)
        PROVE  MarkedKeysHeld'
    <3>1. k \in Int
      BY TerminalAssumption DEF LSHIFT, RSHIFT, CTRL, BACKSPACE, FLUSH_CHAR, SPACE, UP_ARROW
    <3>2. k \notin MarkedAfterRelease(k)
      BY <3>1 DEF MarkedAfterRelease, SameWord
    <3> QED
      BY <2>2, <3>2 DEF KeyRelease, MarkedKeysHeld, MarkedAfterRelease
  <2>3. CASE UNCHANGED <<keys, down>>
    BY <2>3 DEF MarkedKeysHeld
  <2> QED
    BY <2>1, <2>2, <2>3 DEF Next, Read, CopyStep, CountStep, ResetStep, vars
<1> QED
  BY <1>1, <1>2, PTL DEF Spec
-----------------------------------------------------------------------------
(***************************************************************************)
(* What a reader whose line has not been changed since its copy has done.  *)
(***************************************************************************)
ReadSoFar ==
  \A r \in Reader \ disturbed :
    /\ reading[r] \in {"count", "reset"} => buf[r] = line
    /\ reading[r] = "reset" => count[r] = Len(line)

(***************************************************************************)
(* A key changes the line under no reader that is not disturbed by it, and *)
(* takes no reader to the steps behind the copy.                           *)
(***************************************************************************)
LEMMA KeyDisturbs ==
  ASSUME LineInv, ReadSoFar, NEW k \in Key, KeyPress(k)
  PROVE  ReadSoFar'
<1>1. CASE UNCHANGED <<terminal_buffer, buffer_len, line, reading, disturbed>>
  BY <1>1 DEF KeyPress, ReadSoFar
<1>2. CASE /\ \E c : TypistWould(c) /\ terminal_enqueue(c)
           /\ disturbed' = IF line' = line THEN disturbed ELSE disturbed \cup Copied
  <2>1. reading' = reading \/ terminal_flush
    BY <1>2 DEF terminal_enqueue, Erase
  <2>2. \A r \in Reader : /\ reading'[r] = "count" => reading[r] = "count"
                          /\ reading'[r] = "reset" => reading[r] = "reset"
    BY <2>1 DEF terminal_flush
  <2>3. buf' = buf /\ count' = count
    BY DEF KeyPress
  <2>4. CASE line' = line
    BY <1>2, <2>2, <2>3, <2>4 DEF ReadSoFar
  <2>5. CASE line' # line
    <3>1. \A r \in Reader \ disturbed' : reading'[r] \notin {"count", "reset"}
      BY <1>2, <2>2, <2>5 DEF Copied
    <3> QED
      BY <3>1 DEF ReadSoFar
  <2> QED
    BY <2>4, <2>5
<1> QED
  BY <1>1, <1>2 DEF KeyPress

LEMMA ReadStep ==
  ASSUME LineInv, ReadSoFar, [Next]_vars
  PROVE  ReadSoFar'
<1>0. /\ reading \in [Reader -> {"idle", "asleep", "copy", "count", "reset"}]
      /\ buf \in [Reader -> Seq(Nat)] /\ count \in [Reader -> Nat]
      /\ buffer_len = Len(line)
  BY DEF LineInv, Types, BufferHoldsLine
<1>1. ASSUME NEW k \in Key, KeyRelease(k)
      PROVE  ReadSoFar'
  BY <1>1 DEF KeyRelease, ReadSoFar
<1>2. ASSUME NEW r \in Reader, Read(r)
      PROVE  ReadSoFar'
  BY <1>0, <1>2 DEF Read, ReadSoFar
<1>3. ASSUME NEW r \in Reader, CopyStep(r)
      PROVE  ReadSoFar'
  <2>1. buf' = [buf EXCEPT ![r] = line]
    BY <1>3, CopiesLine DEF CopyStep
  <2> QED
    BY <1>0, <1>3, <2>1 DEF CopyStep, ReadSoFar
<1>4. ASSUME NEW r \in Reader, CountStep(r)
      PROVE  ReadSoFar'
  BY <1>0, <1>4 DEF CountStep, ReadSoFar
<1>5. ASSUME NEW r \in Reader, ResetStep(r)
      PROVE  ReadSoFar'
  <2>1. \A q \in Reader \ {r} : /\ reading'[q] = reading[q]
                                /\ buf'[q] = buf[q] /\ count'[q] = count[q]
    BY <1>0, <1>5 DEF ResetStep
  <2>2. reading'[r] = "idle"
    BY <1>0, <1>5 DEF ResetStep
  <2>3. CASE line = <<>>
    BY <1>5, <2>1, <2>2, <2>3 DEF ResetStep, ReadSoFar
  <2>4. CASE line # <<>>
    <3>1. \A q \in Reader \ disturbed' : reading'[q] \notin {"count", "reset"}
      BY <1>5, <2>1, <2>2, <2>4 DEF ResetStep, Copied
    <3> QED
      BY <3>1 DEF ReadSoFar
  <2> QED
    BY <2>3, <2>4
<1>6. CASE UNCHANGED vars
  BY <1>6 DEF vars, ReadSoFar
<1> QED
  BY <1>1, <1>2, <1>3, <1>4, <1>5, <1>6, KeyDisturbs DEF Next

(***************************************************************************)
(* Only the last step of terminal_read ends a read.                        *)
(***************************************************************************)
LEMMA EndOfRead ==
  ASSUME LineInv, ReadSoFar, [Next]_vars, NEW r \in Reader \ disturbed, ReadEnds(r)
  PROVE  Whole(r)
<1>0. reading \in [Reader -> {"idle", "asleep", "copy", "count", "reset"}]
  BY DEF LineInv, Types
<1>1. ASSUME NEW k \in Key, KeyPress(k)
      PROVE  FALSE
  <2>1. reading' = reading \/ terminal_flush
    BY <1>1 DEF KeyPress, terminal_enqueue, Erase
  <2> QED
    BY <2>1 DEF terminal_flush, ReadEnds
<1>2. ASSUME NEW k \in Key, KeyRelease(k)
      PROVE  FALSE
  BY <1>2 DEF KeyRelease, ReadEnds
<1>3. ASSUME NEW q \in Reader, Read(q) \/ CopyStep(q) \/ CountStep(q)
      PROVE  FALSE
  BY <1>0, <1>3 DEF Read, CopyStep, CountStep, ReadEnds
<1>4. ASSUME NEW q \in Reader, ResetStep(q)
      PROVE  q = r /\ reading[r] = "reset"
  BY <1>0, <1>4 DEF ResetStep, ReadEnds
<1>5. CASE UNCHANGED vars
  BY <1>5 DEF vars, ReadEnds
<1> QED
  BY <1>1, <1>2, <1>3, <1>4, <1>5 DEF Next, ReadSoFar, Whole

(***************************************************************************)
(* For any number of readers and any typing, a terminal_read that does not *)
(* return the line it resets was overtaken, after its memcpy, by a key or  *)
(* by another reader's reset.  That keys and readers do so is what         *)
(* ReadsWhole denies and the code allows.                                  *)
(***************************************************************************)
THEOREM ReadsLoseOnlyInRaces == Spec => LossNeedsRace
<1>1. Init => ReadSoFar
  BY DEF Init, ReadSoFar
<1>2. LineInv /\ ReadSoFar /\ [Next]_vars => ReadSoFar'
  BY ReadStep
<1>3. LineInv /\ ReadSoFar /\ [Next]_vars =>
        [\A r \in Reader : ReadEnds(r) /\ r \notin disturbed => Whole(r)]_vars
  BY EndOfRead
<1> QED
  BY <1>1, <1>2, <1>3, LineKept, PTL DEF Spec, LossNeedsRace
===============================================================================
