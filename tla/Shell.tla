-------------------------------- MODULE Shell --------------------------------
(***************************************************************************)
(* Shell: the command interpreter (bin/adsh/adix_shell.c) with the string  *)
(* and environment functions of libc it stands on.  The shell reads lines  *)
(* from its start file, from a script or from the terminal, cuts them into *)
(* words, keeps the environment and the search path, and starts programs   *)
(* in processes of their own, for which it waits unless the last word is   *)
(* "&".  What it prints is left out.                                       *)
(*                                                                         *)
(* Text is a sequence of letters.  A letter is any string, so that a word  *)
(* the shell compares with (setenv, cd, pwd) is one letter long.           *)
(*                                                                         *)
(* An operator directly above another and named after it is that operator  *)
(* with a mistake in it.                                                   *)
(***************************************************************************)
EXTENDS Integers, FiniteSets, SequencesExt

CONSTANTS
  Modes,         \* how adsh is started: "interactive", "script", "command"
  Scripts,       \* contents of the file .adshrc or of the script; <<>>: no file
  Lines,         \* lines that are typed
  Commands,      \* argument vectors of "adsh command"
  Unwritten,     \* what memory from malloc may hold before it is written
  Directories,   \* names opendir accepts
  Regulars,      \* names of files, for which opendir returns 0
  Programs,      \* names execvpe accepts
  InitialPath,   \* the value path is compiled with
  PathSize,      \* sizeof(path)
  InitialEnv,    \* envp of a shell that is given arguments
  POINTER,       \* sizeof(char*)
  Pids,          \* numbers of the processes the shell may start
  MaxRead,       \* bound on how far beyond the end of a script is read
  MaxLines       \* bound on the lines typed

ASSUME ShellAssumption ==
  /\ Modes \subseteq {"interactive", "script", "command"}
  /\ Len(InitialPath) < PathSize

VARIABLES
  mode,          \* one of Modes
  pc,            \* "start", "script", "prompt", "forked", "waiting" or "ended"
  script,        \* the file as it is in the archive
  file_content,  \* the script as read, lines already taken end in NUL
  chars_read,
  reading,       \* exec_shell_script has not returned
  env, env_names,
  given,         \* the entries of env that are still the strings of envp
  path,
  children,      \* processes the shell has started, by their numbers
  pid,           \* what fork returned to exec_command
  foreground,    \* what is_foreground told it
  typed,         \* number of lines typed
  ran,           \* ghost: the commands taken from the script
  parsed,        \* ghost: the line just cut into words, and the words
  want,          \* ghost: last value given to every name of the environment
  path_set,      \* ghost: the value path was given last, in this shell
  longest        \* ghost: the length of the longest value path has had

script_vars == <<script, file_content, chars_read, reading, ran>>
env_vars == <<env, env_names, given, path, want, path_set, longest>>
job_vars == <<children, pid, foreground>>
vars == <<mode, pc, script_vars, env_vars, job_vars, typed, parsed>>

NUL == "NUL"
NL == "NL"
NULL == <<>>                 \* no word is empty
Nothing == [line |-> <<>>, beyond |-> NUL, words |-> <<>>]
Least(S) == CHOOSE n \in S : \A k \in S : n <= k
-----------------------------------------------------------------------------
(***************************************************************************)
(* Both loops that cut text into words: strtok from the place reached,     *)
(* then on by the length of the word and one.  strtok skips delimiters     *)
(* before the word, and puts a NUL for the one behind it (at z); the loop  *)
(* does not count the skipped ones.  Where only delimiters are left strtok *)
(* returns NULL, whose length is then taken.                               *)
(***************************************************************************)
AdvanceByLength(i, len) == i + len
Advance(i, len) == i + len + 1

Tokens(buffer, delim) ==
  LET at(z, i) == IF i = z \/ i > Len(buffer) THEN NUL ELSE buffer[i]
      skip(z, i) == Least({j \in i..Len(buffer) + 1 : at(z, j) # delim})
      stop(z, i) == Least({j \in i..Len(buffer) + 1 : at(z, j) \in {delim, NUL}})
      walk[i \in 1..Len(buffer) + 2, z \in 0..Len(buffer) + 1] ==
        LET s == skip(z, i)
            e == stop(z, s)
        IN IF at(z, i) = NUL THEN <<>>
           ELSE IF at(z, s) = NUL THEN <<NULL>>
           ELSE <<SubSeq(buffer, s, e - 1)>> \o walk[Advance(i, e - s), e]
  IN walk[1, 0]

(* A line lies in memory from malloc, ended by a NUL; the loop looks at    *)
(* the byte behind that NUL, which nobody has written.                     *)
parse_shell_command_args(line, beyond) == Tokens(line \o <<NUL, beyond>>, " ")

(* The words of a line, without reference to how they are found.           *)
Split(text, delim) ==
  FoldLeft(LAMBDA ws, c : IF c = delim THEN Append(ws, <<>>)
                          ELSE Append(Front(ws), Append(Last(ws), c)), <<<<>>>>, text)
Words(text, delim) == SelectSeq(Split(text, delim), LAMBDA w : w # <<>>)
SingleSpaced(line) ==
  /\ line[1] # " "
  /\ \A i \in 1..Len(line) - 1 : line[i] # " " \/ line[i + 1] # " "
-----------------------------------------------------------------------------
(* The environment: two tables side by side, the names and name=value.     *)
(* The tables of an interactive shell have room.  The table of another one *)
(* is the one dup_argv of exec made: just large enough for what was given, *)
(* and the strings follow it in memory, the first one first.               *)
EnvString(key, value) == key \o <<"=">> \o value

Block == FlattenSeq([i \in 1..Len(InitialEnv) |-> Append(InitialEnv[i], NUL)])
Offset(i) ==
  FoldLeft(LAMBDA n, e : n + Len(e) + 1, 0, SubSeq(InitialEnv, 1, i - 1))

(* The i-th string given, after new names have been put into that table:   *)
(* all but the first entry, and the NULL behind the last one, lie over the *)
(* strings.                                                                *)
StringGiven(i, new) ==
  LET letter(j) == IF j <= (new - 1) * POINTER THEN "pointer"
                   ELSE IF j <= new * POINTER \/ j > Len(Block) THEN NUL ELSE Block[j]
      stop == Least({j \in Offset(i) + 1..(Len(Block) + new * POINTER + 1) : letter(j) = NUL})
  IN [j \in 1..stop - Offset(i) - 1 |-> letter(Offset(i) + j)]

Added == Len(env) - Len(InitialEnv)

get_env_locationEnd(key) == Len(env_names) + 1
get_env_location(key) ==
  Least({i \in 1..Len(env_names) : env_names[i] = key} \cup {Len(env_names) + 1})

Put(s, i, x) == [j \in 1..Len(s) \cup {i} |-> IF j = i THEN x ELSE s[j]]

(* The NULL that get_env_location writes behind the entry for a new name.  *)
NullBehind(i) ==
  IF i <= Len(env) THEN env
  ELSE [j \in 1..Len(env) |-> IF j \in given THEN StringGiven(j, Added + 1) ELSE env[j]]

update_global_env(key, value) ==
  /\ env_names' = Put(env_names, get_env_location(key), key)
  /\ env' = Put(NullBehind(get_env_location(key)), get_env_location(key),
                EnvString(key, value))
  /\ given' = given \ {get_env_location(key)}
  /\ want' = [k \in DOMAIN want \cup {key} |-> IF k = key THEN value ELSE want[k]]

(* Copies the value and its NUL over the beginning of path; the rest of a  *)
(* longer value stays behind them.                                         *)
OverwriteNoNul(old, new) ==
  [i \in 1..PathSize |-> IF i <= Len(new) THEN new[i] ELSE old[i]]
Overwrite(old, new) ==
  [i \in 1..PathSize |-> IF i <= Len(new) THEN new[i]
                         ELSE IF i = Len(new) + 1 THEN NUL ELSE old[i]]

setenv(argv) ==
  /\ Len(argv) = 3
  /\ \/ /\ argv[2] = <<"path">>
        /\ path' = Overwrite(path, argv[3])
        /\ path_set' = argv[3]
        /\ longest' = Max({longest, Len(argv[3])})
     \/ argv[2] # <<"path">> /\ UNCHANGED <<path, path_set, longest>>
  /\ update_global_env(argv[2], argv[3])

(* opendir returns 0 for a file, and closedir of descriptor 0, the         *)
(* terminal, ends in the kernel at a null function pointer.                *)
change_dir(argv) ==
  /\ Len(argv) = 2
  /\ argv[2] \in Directories
  /\ update_global_env(<<"pwd">>, argv[2])
  /\ UNCHANGED <<path, path_set, longest>>

(* What a program finds under a name in the environment it is given        *)
(* (get_env of libc): the value of the first entry that begins name=.      *)
get_env(key, envp) ==
  LET hits == {i \in 1..Len(envp) : IsPrefix(key \o <<"=">>, envp[i])}
  IN IF hits = {} THEN NULL
     ELSE SubSeq(envp[Least(hits)], Len(key) + 2, Len(envp[Least(hits)]))
-----------------------------------------------------------------------------
(***************************************************************************)
(* Init: main has looked at its arguments.  An interactive shell starts    *)
(* with empty tables and runs .adshrc, another one takes the names from    *)
(* the environment it is given.  Its path is the compiled one, whatever    *)
(* path= that environment holds.                                           *)
(***************************************************************************)
Init ==
  /\ mode \in Modes
  /\ pc = "start"
  /\ script \in IF mode = "command" THEN {<<>>} ELSE Scripts
  /\ file_content = <<>> /\ chars_read = 0 /\ reading = FALSE /\ ran = <<>>
  /\ env = IF mode = "interactive" THEN <<>> ELSE InitialEnv
  /\ env_names = [i \in 1..Len(env) |-> Tokens(env[i], "=")[1]]
  /\ given = 1..Len(env)
  /\ path_set = InitialPath /\ longest = Len(InitialPath)
  /\ path = [i \in 1..PathSize |-> IF i <= Len(InitialPath) THEN InitialPath[i] ELSE NUL]
  /\ want = [k \in ToSet(env_names) |-> get_env(k, env)]
  /\ children = <<>>
  /\ pid = 0 /\ foreground = FALSE
  /\ typed = 0
  /\ parsed = Nothing

(* Where the shell goes on after a command: to the next line of the        *)
(* script, to the prompt, or to exit.                                      *)
After(in_script) == IF in_script THEN "script"
                    ELSE IF mode = "interactive" THEN "prompt" ELSE "ended"
-----------------------------------------------------------------------------
(***************************************************************************)
(* Commands.                                                               *)
(***************************************************************************)
is_foreground(argv) == Last(argv) # <<"&">>

(* exec_command up to the return of fork, which may fail.  The child's     *)
(* number is one that none of the others has; which one depends on the     *)
(* processes of other programs too.  The child has a copy of the path; the *)
(* last three fields are ghosts.                                           *)
ForkChild(argv, in_script) ==
  \/ \E n \in Pids \ DOMAIN children :
       /\ pid' = n
       /\ foreground' = is_foreground(argv)
       /\ children' = [c \in DOMAIN children \cup {n} |->
                         IF c = n
                         THEN [argv |-> argv, path |-> path, program |-> NULL,
                               dirs |-> Words(path_set, ":"),
                               cut |-> longest > Len(path_set) + 1,
                               released |-> FALSE]
                         ELSE children[c]]
       /\ pc' = "forked"
  \/ pc' = After(in_script) /\ UNCHANGED job_vars

Jobs == {<<"setenv">>, <<"getenv">>, <<"env">>, <<"cd">>}

(* process_command: what changes the shell itself, or a program.           *)
process_command(argv, in_script) ==
  \/ /\ argv[1] \in Jobs
     /\ \/ argv[1] = <<"setenv">> /\ setenv(argv)
        \/ argv[1] = <<"cd">> /\ change_dir(argv)
        \/ /\ \/ argv[1] \in {<<"getenv">>, <<"env">>}
              \/ argv[1] = <<"setenv">> /\ Len(argv) # 3
              \/ argv[1] = <<"cd">> /\ ~(Len(argv) = 2 /\ argv[2] \in Directories)
           /\ UNCHANGED env_vars
     /\ pc' = IF argv[1] = <<"cd">> /\ Len(argv) = 2 /\ argv[2] \in Regulars
              THEN "ended" ELSE After(in_script)
     /\ UNCHANGED job_vars
  \/ /\ argv[1] \notin Jobs
     /\ ForkChild(argv, in_script)
     /\ UNCHANGED env_vars

(* process_command_str; the length of a word that is NULL is a fault that  *)
(* ends the shell.                                                         *)
process_command_str(line, in_script) ==
  \E beyond \in Unwritten :
    LET argv == parse_shell_command_args(line, beyond)
    IN /\ parsed' = [line |-> line, beyond |-> beyond, words |-> argv]
       /\ \/ /\ NULL \notin ToSet(argv)
             /\ process_command(argv, in_script)
          \/ /\ NULL \in ToSet(argv)
             /\ pc' = "ended"
             /\ UNCHANGED <<env_vars, job_vars>>
-----------------------------------------------------------------------------
(***************************************************************************)
(* Scripts.                                                                *)
(***************************************************************************)
Char(content, i) == IF i < Len(content) THEN content[i + 1] ELSE NUL

LineEnd(content, from) ==
  Least({i \in from..Len(content) + MaxRead : Char(content, i) \in {NL, NUL}})

get_next_line(content, from) == SubSeq(content, from + 1, LineEnd(content, from))

(* The character behind the line, a newline or not, is counted, and        *)
(* becomes a NUL.                                                          *)
NextChar(content, from) == LineEnd(content, from) + 1
Terminated(content, from) ==
  [i \in 1..Len(content) |-> IF i = LineEnd(content, from) + 1 THEN NUL ELSE content[i]]

get_interpreter(line) ==
  LET text == SelectInSeq(line, LAMBDA c : c # " ")
  IN IF text # 0 /\ text + 1 <= Len(line) /\ SubSeq(line, text, text + 1) = <<"#", "!">>
     THEN SubSeq(line, text + 2, Len(line)) ELSE NULL

self == <<"adsh">>

(* Taking back the first line of a script that names no interpreter.       *)
UndoneNoNewline(line, from) == from - Len(line)
Undone(line, from) == from - (Len(line) + 1)
-----------------------------------------------------------------------------
(***************************************************************************)
(* Start: exec_shell_script up to its loop, for .adshrc or for a script; a *)
(* file that is missing or empty is not run.                               *)
(***************************************************************************)
StartScript ==
  LET line == get_next_line(script, 0)
      interpreter == get_interpreter(line)
      next == NextChar(script, 0)
  IN /\ pc = "start" /\ mode # "command"
     /\ parsed' = Nothing
     /\ \/ /\ script = <<>>
           /\ pc' = After(FALSE)
           /\ UNCHANGED <<script_vars, env_vars, job_vars>>
        \/ /\ script # <<>>
           /\ interpreter \notin {NULL, self}
           /\ process_command(<<interpreter, <<"-f">>, <<"file">>>>, FALSE)
           /\ UNCHANGED script_vars
        \/ /\ script # <<>>
           /\ interpreter \in {NULL, self}
           /\ file_content' = Terminated(script, 0)
           /\ chars_read' = IF interpreter = NULL THEN Undone(line, next) ELSE next
           /\ reading' = TRUE
           /\ pc' = "script"
           /\ UNCHANGED <<script, ran, env_vars, job_vars>>
     /\ UNCHANGED <<mode, typed>>

(* adsh with a command: process_exec_jobs.                                 *)
StartCommand ==
  /\ pc = "start" /\ mode = "command"
  /\ \E argv \in Commands : ForkChild(argv, FALSE)
  /\ parsed' = Nothing
  /\ UNCHANGED <<mode, script_vars, env_vars, typed>>

(* One turn of the loop of exec_shell_script.                              *)
ScriptLine ==
  LET line == get_next_line(file_content, chars_read)
  IN /\ pc = "script"
     /\ chars_read < Len(script)
     /\ file_content' = Terminated(file_content, chars_read)
     /\ chars_read' = NextChar(file_content, chars_read)
     /\ \/ /\ line # <<>>
           /\ ran' = Append(ran, line)
           /\ process_command_str(line, TRUE)
        \/ /\ line = <<>>
           /\ parsed' = Nothing
           /\ UNCHANGED <<pc, ran, env_vars, job_vars>>
     /\ UNCHANGED <<mode, script, reading, typed>>

(* The loop ends where chars_read is the size of the file.  A last line    *)
(* without a newline takes it one further, and the loop goes on through    *)
(* the memory behind the file; MaxRead bounds this.                        *)
ScriptBeyond ==
  /\ pc = "script"
  /\ chars_read > Len(script)
  /\ chars_read < Len(script) + MaxRead
  /\ \E c \in Unwritten :
       \/ /\ c = NUL
          /\ chars_read' = chars_read + 1
          /\ parsed' = Nothing
          /\ UNCHANGED <<pc, env_vars, job_vars>>
       \/ /\ c # NUL
          /\ chars_read' = chars_read + 2
          /\ process_command_str(<<c>>, TRUE)
  /\ UNCHANGED <<mode, script, file_content, reading, ran, typed>>

ScriptEnd ==
  /\ pc = "script"
  /\ chars_read = Len(script)
  /\ reading' = FALSE
  /\ pc' = After(FALSE)
  /\ parsed' = Nothing
  /\ UNCHANGED <<mode, script, file_content, chars_read, ran, env_vars, job_vars, typed>>

(* One turn of run_shell with a line that is not empty.                    *)
Prompt ==
  /\ pc = "prompt"
  /\ typed < MaxLines
  /\ typed' = typed + 1
  /\ \E line \in Lines : process_command_str(line, FALSE)
  /\ UNCHANGED <<mode, script_vars>>

(* The end of exec_command in the parent: wait_pid, or on.                 *)
Parent ==
  /\ pc = "forked"
  /\ pc' = IF foreground THEN "waiting" ELSE After(reading)
  /\ parsed' = Nothing
  /\ UNCHANGED <<mode, script_vars, env_vars, job_vars, typed>>
-----------------------------------------------------------------------------
(***************************************************************************)
(* The children.  A child tries the command as it is, then in every        *)
(* directory the path holds, the rest of an older one included, and ends   *)
(* when there is no such program.                                          *)
(***************************************************************************)
resolve_path(command, path_token) == path_token \o command

Candidates(command, dirs) ==
  <<command>> \o [i \in 1..Len(dirs) |-> resolve_path(command, dirs[i])]

Found(candidates) == SelectInSeq(candidates, LAMBDA name : name \in Programs)

(* The kernel wakes the shell when the process it waits for ends.  One     *)
(* that has ended before wait_pid is waited for in vain, unless its number *)
(* is used again.                                                          *)
EndedWakes(c) ==
  /\ children' = [d \in DOMAIN children \ {c} |-> children[d]]
  /\ pc' = IF pc = "waiting" THEN After(reading) ELSE pc
Ended(c) ==
  /\ children' = [d \in DOMAIN children \ {c} |-> children[d]]
  /\ pc' = IF pc = "waiting" /\ pid = c THEN After(reading) ELSE pc

Exec(c) ==
  LET child == children[c]
      dirs == SelectSeq(Tokens(child.path, ":"), LAMBDA d : d # NULL)
      names == Candidates(child.argv[1], dirs)
  IN /\ child.program = NULL
     /\ \/ /\ Found(names) # 0
           /\ children' = [children EXCEPT ![c].program = names[Found(names)]]
           /\ UNCHANGED pc
        \/ /\ Found(names) = 0
           /\ Ended(c)
     /\ parsed' = Nothing
     /\ UNCHANGED <<mode, script_vars, env_vars, pid, foreground, typed>>

Exit(c) ==
  /\ children[c].program # NULL
  /\ Ended(c)
  /\ parsed' = Nothing
  /\ UNCHANGED <<mode, script_vars, env_vars, pid, foreground, typed>>

(* A process that the program c has started ends.  When nobody waits for   *)
(* it the kernel wakes whoever waits for c, in wait or in wait_pid; and    *)
(* its number may be the one that the shell waits for in vain.             *)
ChildOfChildExits(c) ==
  /\ children[c].program # NULL
  /\ pc = "waiting" /\ (pid = c \/ pid \notin DOMAIN children)
  /\ pc' = After(reading)
  /\ children' = IF pid = c THEN [children EXCEPT ![c].released = TRUE] ELSE children
  /\ parsed' = Nothing
  /\ UNCHANGED <<mode, script_vars, env_vars, pid, foreground, typed>>

Next ==
  \/ StartScript \/ StartCommand
  \/ ScriptLine \/ ScriptBeyond \/ ScriptEnd
  \/ Prompt \/ Parent
  \/ \E c \in DOMAIN children : Exec(c) \/ Exit(c) \/ ChildOfChildExits(c)

Spec == Init /\ [][Next]_vars
-----------------------------------------------------------------------------
(***************************************************************************)
(* WordsExact: a line whose words are separated by single spaces is cut    *)
(* into exactly these words, although strtok keeps no place of its own and *)
(* the caller computes it from the length of each word.  When memory       *)
(* behind the line is not zero, further words may follow them, never in    *)
(* between.                                                                *)
(***************************************************************************)
WordsExact ==
  parsed # Nothing /\ SingleSpaced(parsed.line) =>
    /\ IsPrefix(Words(parsed.line, " "), parsed.words)
    /\ parsed.beyond = NUL => parsed.words = Words(parsed.line, " ")

(***************************************************************************)
(* EnvSeen: whatever sequence of setenv and cd came before, from the       *)
(* terminal, the start file or a script, a program that looks a name up    *)
(* finds the value it was given last, and every name has one entry, in the *)
(* same place of both tables.  The exception are values that a script has  *)
(* from its caller, has not set itself, and has put new names over: those  *)
(* at the beginning of the strings, a pointer's width for each new name.   *)
(***************************************************************************)
Overlaid(i) == i \in given /\ Offset(i) < Added * POINTER

EnvSeen ==
  /\ Len(env) = Cardinality(DOMAIN want)
  /\ ToSet(env_names) = DOMAIN want
  /\ \A i \in 1..Len(env) : Overlaid(i) \/
       /\ env[i] = EnvString(env_names[i], want[env_names[i]])
       /\ get_env(env_names[i], env) = want[env_names[i]]

(* The lines of a script that are commands.                                *)
ScriptCommands ==
  LET lines == Split(script, NL)
      self_named == get_interpreter(lines[1]) = self
  IN SelectSeq(IF self_named THEN Tail(lines) ELSE lines, LAMBDA l : l # <<>>)

(***************************************************************************)
(* ScriptInOrder: a script's lines are executed each once and in order,    *)
(* empty lines and the line that names the interpreter left out, also when *)
(* the first line had to be taken back; once the counter has reached the   *)
(* size of the file all of them have been.                                 *)
(***************************************************************************)
ScriptInOrder ==
  reading => /\ IsPrefix(ran, ScriptCommands)
             /\ chars_read >= Len(script) => ran = ScriptCommands

(***************************************************************************)
(* ForegroundDone: the shell takes its next command only when no           *)
(* foreground command is left running, whichever background commands or    *)
(* their children end meanwhile and whichever numbers are used again; the  *)
(* one exception is a foreground program whose own child has ended.  And   *)
(* the shell never waits for a command it was told to leave in the         *)
(* background.                                                             *)
(***************************************************************************)
ForegroundDone ==
  /\ pc \in {"script", "prompt"} =>
       \A c \in DOMAIN children : Last(children[c].argv) = <<"&">> \/ children[c].released
  /\ pc = "waiting" /\ pid \in DOMAIN children => Last(children[pid].argv) # <<"&">>

(***************************************************************************)
(* SearchOrder: the program a command starts is the first one there is     *)
(* along the path as this shell had set it when the command was given,     *)
(* also when that path was written over a longer one, whose rest the       *)
(* search runs into; where the path has no such program none is started,   *)
(* unless there is such a rest.                                            *)
(***************************************************************************)
SearchOrder ==
  \A c \in DOMAIN children :
    LET names == Candidates(children[c].argv[1], children[c].dirs)
    IN children[c].program # NULL =>
         IF Found(names) # 0 THEN children[c].program = names[Found(names)]
                             ELSE children[c].cut
=============================================================================
