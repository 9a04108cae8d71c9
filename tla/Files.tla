-------------------------------- MODULE Files --------------------------------
(***************************************************************************)
(* Files: the tar archive linked into the kernel, the table of open files  *)
(* of every process and the system calls on them (sys/parser/parsetarfs.c, *)
(* sys/filesystems/file_structures.c, the file tables of                   *)
(* sys/scheduler/pcb.c, the stubs of sys/syscall/syscall_handler.c), and   *)
(* the loading of programs from the archive (parseelf.c, do_mmap).  A call *)
(* that returns -1 or NULL changes nothing and is no action.               *)
(*                                                                         *)
(* An operator directly above another and named after it is that operator  *)
(* with a mistake in it.                                                   *)
(***************************************************************************)
EXTENDS Integers, FiniteSets, SequencesExt

CONSTANTS
  Task, First,         \* the processes and the first one
  Archive,             \* entries [name, dir, data]; a name is a sequence of names
  BLOCK,               \* 512
  SIZEOF_PAGE,
  OPEN_FILES_LIMIT,
  TERMINALS,           \* descriptors below are the terminal's (3)
  Paths,               \* the paths that are opened; <<>> is the empty one
  Programs,            \* the paths that are loaded as programs
  Counts,              \* numbers of bytes that are read at once
  Seeks,               \* [whence, offset]
  Limits,              \* values of rlimit_cur[RLIMIT_NOFILE]
  Magic,               \* the byte an ELF file begins with
  MaxOffset,           \* bound on the offset after a seek
  MaxLeft              \* bound on the tables that exits leave behind

ASSUME FilesAssumption ==
  /\ First \in Task
  /\ TERMINALS <= OPEN_FILES_LIMIT
  /\ \A n \in Limits : n \in 0..OPEN_FILES_LIMIT

VARIABLES
  open_files,    \* open_files[t][fd]: a process_files_table or NULL
  pft,           \* the process_files_tables that something points to
  rlimit_cur,    \* rlimit_cur[RLIMIT_NOFILE]
  live,
  tables,        \* ghost: the tables that kmalloc has given and kfree not taken
  left,          \* ghost: those of them that an exited process has left
  loaded         \* ghost: entry and memory of the program just loaded

vars == <<open_files, pft, rlimit_cur, live, tables, left, loaded>>

NULL == <<>>
Fd == 0..OPEN_FILES_LIMIT - 1
Pft == Task \X Fd         \* names for the addresses of tables
Unused == [ops |-> "none"]
Terminal == [ops |-> "terminal"]
Nothing == [entry |-> 0, mem |-> <<>>]
-----------------------------------------------------------------------------
(***************************************************************************)
(* The archive as tar writes it: a block for the header of each entry, and *)
(* its data, filled up to whole blocks.  -1 is any byte of the filling or  *)
(* of a header.                                                            *)
(***************************************************************************)
Size(i) == Len(Archive[i].data)
DataBlocks(i) == (Size(i) + BLOCK - 1) \div BLOCK
HeaderAddress ==
  FoldLeft(LAMBDA s, e : Append(s, Last(s) + (1 + DataBlocks(e)) * BLOCK), <<0>>,
           [i \in 1..Len(Archive) |-> i])

InData(i, a) == a - HeaderAddress[i] - BLOCK \in 0..Size(i) - 1
Byte(a) ==
  IF \E i \in DOMAIN Archive : InData(i, a)
  THEN LET i == CHOOSE i \in DOMAIN Archive : InData(i, a)
       IN  Archive[i].data[a - HeaderAddress[i] - BLOCK + 1]
  ELSE -1

(***************************************************************************)
(* The entry whose header is at an address; Len(Archive) + 1 is the block  *)
(* of zeros at the end, the header with the empty name.                    *)
(***************************************************************************)
EntryAt(a) ==
  IF \E i \in DOMAIN Archive : HeaderAddress[i] = a
  THEN CHOOSE i \in DOMAIN Archive : HeaderAddress[i] = a
  ELSE Len(Archive) + 1

NextHeader(a) ==
  LET size == Size(EntryAt(a))
  IN  a + (size \div BLOCK + 1) * BLOCK + IF size % BLOCK # 0 THEN BLOCK ELSE 0

(***************************************************************************)
(* The headers in the order in which the loops of sys_open, sys_opendir    *)
(* and sys_readdir meet them, up to the one with the empty name.           *)
(***************************************************************************)
Header ==
  FoldLeft(LAMBDA s, e : Append(s, IF EntryAt(Last(s)) \in DOMAIN Archive
                                   THEN NextHeader(Last(s)) ELSE Last(s)),
           <<0>>, Archive)
Entry == [k \in DOMAIN Header |-> EntryAt(Header[k])]

(***************************************************************************)
(* The number of the header with a given name, or none.  The empty name is *)
(* compared before it ends the loop, so that the empty path is found: as   *)
(* neither a file nor a directory.                                         *)
(***************************************************************************)
IsEntry(k) == Entry[k] \in DOMAIN Archive
Name(k) == IF IsEntry(k) THEN Archive[Entry[k]].name ELSE <<>>
Found(path) == {k \in DOMAIN Header : Name(k) = path}
IsDirectory(k) == IsEntry(k) /\ Archive[Entry[k]].dir
IsFile(k) == IsEntry(k) /\ ~Archive[Entry[k]].dir

(***************************************************************************)
(* check_in_dir: not below the directory (-1), in it (0) or deeper (1).    *)
(***************************************************************************)
check_in_dirDeep(file, dir) ==
  IF ~IsPrefix(dir, file) THEN -1 ELSE 0
check_in_dir(file, dir) ==
  IF ~IsPrefix(dir, file) THEN -1
  ELSE IF Len(file) = Len(dir) + 1 THEN 0 ELSE 1
-----------------------------------------------------------------------------
Init ==
  /\ open_files = [t \in Task |-> [fd \in Fd |->
                     IF t = First /\ fd < TERMINALS THEN <<t, fd>> ELSE NULL]]
  /\ pft = [p \in Pft |-> IF p[1] = First /\ p[2] < TERMINALS THEN Terminal ELSE Unused]
  /\ rlimit_cur = OPEN_FILES_LIMIT
  /\ live = {First}
  /\ tables = TERMINALS
  /\ left = 0
  /\ loaded = Nothing

(***************************************************************************)
(* get_new_process_files_table and add_to_process_file_table: the first    *)
(* slot below the limit gets a table that kmalloc has just returned.  As   *)
(* it does not matter which address that is, it is one called after the    *)
(* slot.                                                                   *)
(***************************************************************************)
FreeSlots(t) == {fd \in Fd : fd < rlimit_cur /\ open_files[t][fd] = NULL}
FirstFree(t) == Min(FreeSlots(t))
Fresh(t, fd) == IF pft[<<t, fd>>] = Unused THEN <<t, fd>>
                ELSE CHOOSE p \in Pft : pft[p] = Unused

Opened(k) ==
  [ops |-> "tarfs", header |-> k, offset |-> 0, from |-> 0, log |-> <<>>, ended |-> FALSE]

Open(t, k) ==
  /\ t \in live /\ FreeSlots(t) # {}
  /\ LET fd == FirstFree(t)
     IN  /\ open_files' = [open_files EXCEPT ![t][fd] = Fresh(t, fd)]
         /\ pft' = [pft EXCEPT ![Fresh(t, fd)] = Opened(k)]
  /\ tables' = tables + 1
  /\ loaded' = Nothing
  /\ UNCHANGED <<rlimit_cur, live, left>>

sys_open(t, path) == \E k \in Found(path) : Open(t, k)

sys_opendir(t, path) == \E k \in Found(path) : IsDirectory(k) /\ Open(t, k)

(***************************************************************************)
(* sys_read of a file: bytes are copied until there are count or the       *)
(* offset is the size.                                                     *)
(***************************************************************************)
ReadLengthOver(k, offset, count) ==
  LET size == Size(Entry[k])
  IN  IF offset <= size /\ size - offset + 1 < count THEN size - offset + 1 ELSE count
ReadLength(k, offset, count) ==
  LET size == Size(Entry[k])
  IN  IF offset <= size /\ size - offset < count THEN size - offset ELSE count

BytesRead(k, offset, count) ==
  [j \in 1..ReadLength(k, offset, count) |-> Byte(Header[k] + BLOCK + offset + j - 1)]

sys_read(t, fd, count) ==
  LET p == open_files[t][fd]
  IN  /\ t \in live /\ p # NULL /\ pft[p].ops = "tarfs"
      /\ IsFile(pft[p].header)
      /\ LET got == BytesRead(pft[p].header, pft[p].offset, count)
         IN  pft' = [pft EXCEPT ![p].offset = @ + Len(got), ![p].log = @ \o got]
      /\ loaded' = Nothing
      /\ UNCHANGED <<open_files, rlimit_cur, live, tables, left>>

(***************************************************************************)
(* sys_readdir: the headers behind the directory's are met while they are  *)
(* below it; the one in it that has offset others before it is returned.   *)
(***************************************************************************)
InDir(k, d) == check_in_dir(Name(k), Name(d))
Met(d) ==
  {k \in DOMAIN Header : k > d /\ \A q \in d + 1..k : InDir(q, d) # -1}
Members == [d \in {k \in DOMAIN Header : IsDirectory(k)} |-> {k \in Met(d) : InDir(k, d) = 0}]
Member(d, n) == {k \in Members[d] : Cardinality({q \in Members[d] : q < k}) = n}

sys_readdir(t, fd) ==
  LET p == open_files[t][fd]
  IN  /\ t \in live /\ p # NULL /\ pft[p].ops = "tarfs"
      /\ IsDirectory(pft[p].header)
      /\ LET member == Member(pft[p].header, pft[p].offset)
         IN  IF member = {}
             THEN pft' = [pft EXCEPT ![p].ended = TRUE]
             ELSE \E k \in member :
                    pft' = [pft EXCEPT ![p].offset = @ + 1,
                                       ![p].log = Append(@, Name(k))]
      /\ loaded' = Nothing
      /\ UNCHANGED <<open_files, rlimit_cur, live, tables, left>>

(***************************************************************************)
(* sys_lseek; SEEK_END sets the offset as SEEK_SET does.                   *)
(***************************************************************************)
Sought(offset, seek) ==
  IF seek.whence = "SEEK_CUR" THEN offset + seek.offset ELSE seek.offset

sys_lseek(t, fd, seek) ==
  LET p == open_files[t][fd]
  IN  /\ t \in live /\ p # NULL /\ pft[p].ops = "tarfs"
      /\ Sought(pft[p].offset, seek) \in 0..MaxOffset
      /\ pft' = [pft EXCEPT ![p].offset = Sought(@, seek),
                            ![p].from = Sought(pft[p].offset, seek),
                            ![p].log = <<>>, ![p].ended = FALSE]
      /\ loaded' = Nothing
      /\ UNCHANGED <<open_files, rlimit_cur, live, tables, left>>

(***************************************************************************)
(* sys_close and sys_closedir (reset_process_files_table).  Closing the    *)
(* terminal does nothing.                                                  *)
(***************************************************************************)
sys_close(t, fd) ==
  LET p == open_files[t][fd]
  IN  /\ t \in live /\ p # NULL /\ pft[p].ops = "tarfs"
      /\ pft' = [pft EXCEPT ![p] = Unused]
      /\ tables' = tables - 1
      /\ open_files' = [open_files EXCEPT ![t][fd] = NULL]
      /\ loaded' = Nothing
      /\ UNCHANGED <<rlimit_cur, live, left>>

(***************************************************************************)
(* The part of sys_fork that gives every open file of the parent to the    *)
(* child, as a duplicate with an offset of its own.                        *)
(***************************************************************************)
InUse(t) == {fd \in Fd : open_files[t][fd] # NULL}

DuplicatesShared(t, c) == open_files[t]
Duplicates(t, c) ==
  [fd \in Fd |-> IF open_files[t][fd] = NULL THEN NULL ELSE Fresh(c, fd)]

Fork(t, c) ==
  /\ t \in live /\ c \notin live
  /\ live' = live \cup {c}
  /\ open_files' = [open_files EXCEPT ![c] = Duplicates(t, c)]
  /\ pft' = [p \in Pft |->
               IF \E fd \in Fd : Duplicates(t, c)[fd] = p
               THEN pft[open_files[t][CHOOSE fd \in Fd : Duplicates(t, c)[fd] = p]]
               ELSE pft[p]]
  /\ tables' = tables + Cardinality(InUse(t))
  /\ loaded' = Nothing
  /\ UNCHANGED <<rlimit_cur, left>>

(***************************************************************************)
(* sys_exit, with the deep_free_task that follows: the PCB goes, and the   *)
(* tables of its open files stay allocated.  Nothing points to them any    *)
(* more: they are counted, and their names are used again for others.      *)
(***************************************************************************)
Exit(t) ==
  /\ t \in live
  /\ live' = live \ {t}
  /\ left' = left + Cardinality(InUse(t)) /\ left' <= MaxLeft
  /\ pft' = [p \in Pft |-> IF \E fd \in Fd : open_files[t][fd] = p THEN Unused ELSE pft[p]]
  /\ open_files' = [open_files EXCEPT ![t] = [fd \in Fd |-> NULL]]
  /\ loaded' = Nothing
  /\ UNCHANGED <<rlimit_cur, tables>>

sys_setrlimit(n) ==
  /\ live # {} /\ n # rlimit_cur
  /\ rlimit_cur' = n
  /\ loaded' = Nothing
  /\ UNCHANGED <<open_files, pft, live, tables, left>>
-----------------------------------------------------------------------------
(***************************************************************************)
(* do_mmap of len bytes at addr: for every page a new frame is mapped, the *)
(* file is sought and at most a page is read to the address that lies a    *)
(* page further each time.  What a read has put into the page behind its   *)
(* own is gone when the next iteration maps that page.  The result is the  *)
(* memory from addr on; -1 is what the frame held before.                  *)
(***************************************************************************)
PageOffsetFixed(offset, i) == offset
PageOffset(offset, i) == offset + i * SIZEOF_PAGE

Page(bytes) == Min({bytes, SIZEOF_PAGE})

do_mmap(k, offset, addr, len) ==
  LET last == len \div SIZEOF_PAGE
      bytes[i \in 0..last] ==                 \* that remain before page i
        IF i = 0 THEN len
        ELSE LET b == bytes[i - 1]
             IN  b - ReadLength(k, PageOffset(offset, i - 1), Page(b))
      got(i) == BytesRead(k, PageOffset(offset, i), Page(bytes[i]))
      mapper(a) == Min({((addr % SIZEOF_PAGE) + a) \div SIZEOF_PAGE, last})
  IN  [a \in 0..len - 1 |->
         LET j == 1 + a - mapper(a) * SIZEOF_PAGE
         IN  IF j \in DOMAIN got(mapper(a)) THEN got(mapper(a))[j] ELSE -1]

(***************************************************************************)
(* load_elf of a file with one segment: one byte stands for the ELF        *)
(* header, three more for the program header: offset, address and size.    *)
(* The descriptor is opened and closed again, so that only the memory of   *)
(* the process changes.                                                    *)
(***************************************************************************)
is_elf(k) == IsFile(k) /\ BytesRead(k, 0, 1) = <<Magic>>
Segment ==
  [k \in {k \in DOMAIN Header : is_elf(k)} |->
     LET prgm == BytesRead(k, 1, 3) IN do_mmap(k, prgm[1], prgm[2], prgm[3])]

load_elf(t, path) ==
  /\ t \in live /\ FreeSlots(t) # {}
  /\ \E k \in Found(path) \cap DOMAIN Segment :
       loaded' = [entry |-> Entry[k], mem |-> Segment[k]]
  /\ UNCHANGED <<open_files, pft, rlimit_cur, live, tables, left>>

Next ==
  \/ \E t \in Task, path \in Paths : sys_open(t, path)
  \/ \E t \in Task, path \in Paths : sys_opendir(t, path)
  \/ \E t \in Task, fd \in Fd, n \in Counts : sys_read(t, fd, n)
  \/ \E t \in Task, fd \in Fd : sys_readdir(t, fd)
  \/ \E t \in Task, fd \in Fd, s \in Seeks : sys_lseek(t, fd, s)
  \/ \E t \in Task, fd \in Fd : sys_close(t, fd)
  \/ \E t, c \in Task : Fork(t, c)
  \/ \E t \in Task : Exit(t)
  \/ \E n \in Limits : sys_setrlimit(n)
  \/ \E t \in Task, path \in Programs : load_elf(t, path)

Spec == Init /\ [][Next]_vars
-----------------------------------------------------------------------------
(***************************************************************************)
(* OwnFiles: every descriptor in use has a process_files_table of its own, *)
(* so that closing or reading in one process never touches another, and    *)
(* the tables that are allocated are those and the ones that an exit left  *)
(* behind: open, close and fork neither lose one nor free one twice        *)
(* (sys_fork duplicates the tables, reset_process_files_table frees them). *)
(***************************************************************************)
OwnFiles ==
  /\ \A t \in Task : \A fd \in InUse(t) :
       /\ pft[open_files[t][fd]] # Unused
       /\ \A u \in Task, g \in Fd : open_files[u][g] = open_files[t][fd] => u = t /\ g = fd
  /\ tables = left + MapThenSumSet(LAMBDA t : Cardinality(InUse(t)), Task)

File(o) == Archive[Entry[o.header]]

(***************************************************************************)
(* ReadsExact: what a process has read from a file since it opened it or   *)
(* last moved the offset is the part of the file between the two offsets,  *)
(* however the reads were cut up and whatever other processes read, unless *)
(* it had moved the offset beyond the end of the file.                     *)
(***************************************************************************)
ReadsExact ==
  \A p \in Pft :
    LET o == pft[p]
    IN  (o.ops = "tarfs" /\ IsFile(o.header) /\ o.from <= Len(File(o).data)) =>
            /\ o.offset <= Len(File(o).data)
            /\ o.log = SubSeq(File(o).data, o.from + 1, o.offset)

(***************************************************************************)
(* ListsChildren: the calls of readdir on a directory return its members   *)
(* (the entries whose name has one part more), each once, and NULL only    *)
(* after the last one.                                                     *)
(***************************************************************************)
Children(name) == SelectSeq([i \in DOMAIN Archive |-> Archive[i].name],
                            LAMBDA n : n # <<>> /\ Front(n) = name)

ListsChildren ==
  \A p \in Pft :
    LET o == pft[p]
    IN  (o.ops = "tarfs" /\ IsDirectory(o.header)) =>
          LET all == Children(File(o).name)
          IN  o.from <= Len(all) =>
                /\ o.offset <= Len(all)
                /\ o.log = SubSeq(all, o.from + 1, o.offset)
                /\ o.ended => o.offset = Len(all)

(***************************************************************************)
(* LoadedExact: after load_elf the memory of a segment holds the bytes of  *)
(* the file from the segment's offset on, as far as the file goes, if the  *)
(* segment begins at the beginning of a page or is smaller than a page.    *)
(* (Any other loses the bytes at the beginning of each further page.)      *)
(***************************************************************************)
LoadedExact ==
  loaded # Nothing =>
    LET data   == Archive[loaded.entry].data
        offset == data[2]
        addr   == data[3]
        len    == data[4]
    IN  (addr % SIZEOF_PAGE = 0 \/ len < SIZEOF_PAGE) =>
          \A a \in 0..len - 1 :
            offset + a < Len(data) => loaded.mem[a] = data[offset + a + 1]
=============================================================================
