----------------------------- MODULE FdDispatch -----------------------------
(***************************************************************************)
(* The file-descriptor layer of one HAL-OS process: the open, read, write  *)
(* and close system calls (system_calls.c) over the pcb's fd array, and    *)
(* the read-only file system routines they call (filesystem.c) over a      *)
(* boot-block image given as constants.  A descriptor is bound at open to  *)
(* one of the four operation tables; read re-derives the kind of the file  *)
(* from its inode (find_dentry_by_inode_num) to decide which arguments to  *)
(* pass and how to move the position.  The terminal and RTC drivers are    *)
(* collaborators here: only the values they return are modelled.  The    *)
(* pcb's argument, which execute parses out of its command and getargs     *)
(* hands back, is modelled across the processes that reuse the pcb.       *)
(***************************************************************************)
EXTENDS Integers, Sequences, FiniteSets

SE == INSTANCE SequencesExt

CONSTANTS
  FD_ARRAY_LENGTH, \* 8 in system_calls.h
  Dentries,        \* the boot block's dentries, a sequence of records
  NumBytes,        \* inode number -> length of the file in bytes
  NameLength,      \* file name -> strlen of it
  Names,           \* names a program passes to open
  NBytes,          \* nbytes values a program passes to read and write
  TermLineLengths, \* byte counts terminal_read can return (a line and '\n')
  MaxPosition,     \* bound on a descriptor's position, for TLC
  Commands,        \* commands execute is given, as sequences of bytes
  Programs         \* file names of the executables in the image

RTC_FILE_TYPE       == 0
DIRECTORY_FILE_TYPE == 1
MAX_FILENAME_SIZE   == 32
MAX_NUM_DENTRIES    == 63
NBYTES_SIZE         == 4
MAX_INPUT_BUF_LEN   == 1024
STDOUT_FD           == 1
EXEC_ARG_LEN        == 128
SPACE               == " "

numDentries == Len(Dentries)
numInodes   == Cardinality(DOMAIN NumBytes)

\* The image format: entry 0 is the directory ".", the boot block has room
\* for the unused entry after the last one, and a regular file never shares
\* its inode with an earlier entry (the image's "rtc" shares inode 0 with ".").
ASSUME /\ Dentries[1].fileType = DIRECTORY_FILE_TYPE
       /\ numDentries < MAX_NUM_DENTRIES
       /\ DOMAIN NumBytes = 0 .. numInodes - 1
       /\ \A i, j \in 1 .. numDentries :
            j < i /\ Dentries[i].fileType > DIRECTORY_FILE_TYPE
              => Dentries[j].inodeNumber # Dentries[i].inodeNumber

Fds == 0 .. FD_ARRAY_LENGTH - 1

\* The four operation tables, and no table (file_op_table_ptr = 0).
Tables == {"terminal", "rtc", "dir", "file", "none"}
Empty == [table |-> "none", pos |-> 0, inode |-> 0, flags |-> 0]
Stdio == [Empty EXCEPT !.table = "terminal", !.flags = 1]

\* An unused boot-block slot is all zeroes.
ZeroDentry == [fileName |-> "", fileType |-> 0, inodeNumber |-> 0]
FAIL == -1

VARIABLES
  fd_array,   \* current_pcb->fd_array
  delivered,  \* fd -> what its reads returned since open: byte offsets of a
              \*       file, entry indices of a directory
  last,       \* the call, nbytes and return value of the latest system call
  arg,        \* current_pcb->arg
  command     \* ghost: the command that started the program in the pcb

vars == << fd_array, delivered, last, arg, command >>

NoCall == [op |-> "none", n |-> 0, ret |-> 0]


(***************************************************************************)
(* filesystem.c                                                            *)
(***************************************************************************)

\* read_dentry_by_name: the (0-based) index of the entry named fname, found
\* by strncmp over 32 bytes, or FAIL.
read_dentry_by_name(fname) ==
  IF NameLength[fname] > MAX_FILENAME_SIZE \/ ~\E i \in 1 .. numDentries : Dentries[i].fileName = fname
  THEN FAIL
  ELSE (CHOOSE i \in 1 .. numDentries :
          Dentries[i].fileName = fname /\ \A j \in 1 .. i - 1 : Dentries[j].fileName # fname) - 1

\* read_dentry_by_index fails only if numDentries < index, so index
\* numDentries is accepted and reads the slot after the last entry.
dentry_index_ok(index) == ~(numDentries < index)
read_dentry_by_index(index) == IF index = numDentries THEN ZeroDentry ELSE Dentries[index + 1]

\* First entry with the inode, or FAIL.
find_dentry_by_inode_num(inode) ==
  IF \E i \in 1 .. numDentries : Dentries[i].inodeNumber = inode
  THEN (CHOOSE i \in 1 .. numDentries : Dentries[i].inodeNumber = inode
                                       /\ \A j \in 1 .. i - 1 : Dentries[j].inodeNumber # inode) - 1
  ELSE FAIL

\* offset + length as uint32_t: a negative length wraps to at least 2^31,
\* above every file's size, which is all the loop compares it with.
LoopEnd(offset, length) == IF offset + length >= 0 THEN offset + length ELSE 2147483647

\* The byte offsets read_data's loop copies, in order.
RECURSIVE CopyFrom(_, _, _)
CopyFrom(cur, end, size) ==
  IF cur >= end \/ cur = size THEN << >> ELSE << cur >> \o CopyFrom(cur + 1, end, size)

\* A routine's return value and what it copied into buf.
Result(ret, copied) == [ret |-> ret, copied |-> copied]

\* Mutant: the copy loop runs from byte 0 instead of from offset.
read_data_from_start(inode, offset, length) ==
  IF inode > numInodes - 1 THEN Result(FAIL, << >>)
  ELSE IF offset >= NumBytes[inode] THEN Result(0, << >>)
  ELSE LET c == CopyFrom(0, LoopEnd(0, length), NumBytes[inode])
       IN  Result(Len(c), c)

\* read_data: the byte offsets copied into buf.
read_data(inode, offset, length) ==
  IF inode > numInodes - 1 THEN Result(FAIL, << >>)
  ELSE IF offset >= NumBytes[inode] THEN Result(0, << >>)
  ELSE LET c == CopyFrom(offset, LoopEnd(offset, length), NumBytes[inode])
       IN  Result(Len(c), c)

\* file_read, the read of the file table: read_data at the position.
file_read(inode, offset, num_bytes) == read_data(inode, offset, num_bytes)

\* Mutant: the end check is > instead of >=.
directory_read_past_end(file_index, num_bytes) ==
  IF file_index > numDentries THEN Result(0, << >>)
  ELSE IF ~dentry_index_ok(file_index) THEN Result(FAIL, << >>)
  ELSE LET len == NameLength[read_dentry_by_index(file_index).fileName]
       IN  Result(IF len > MAX_FILENAME_SIZE THEN MAX_FILENAME_SIZE ELSE len, << file_index >>)

\* directory_read: the name of entry file_index, returned as its strlen
\* (at most 32).  num_bytes is not looked at: 32 bytes are always copied.
directory_read(file_index, num_bytes) ==
  IF file_index >= numDentries THEN Result(0, << >>)
  ELSE IF ~dentry_index_ok(file_index) THEN Result(FAIL, << >>)
  ELSE LET len == NameLength[read_dentry_by_index(file_index).fileName]
       IN  Result(IF len > MAX_FILENAME_SIZE THEN MAX_FILENAME_SIZE ELSE len, << file_index >>)

(***************************************************************************)
(* The system calls                                                        *)
(***************************************************************************)

Active(f) == f \in Fds /\ fd_array[f].flags = 1

TableOf(type) ==
  IF type = RTC_FILE_TYPE THEN "rtc" ELSE IF type = DIRECTORY_FILE_TYPE THEN "dir" ELSE "file"

\* Mutant: the descriptor records the dentry's index, not its inode.
Open_stores_index(name) ==
  LET free    == {f \in Fds : fd_array[f].flags # 1}
      open_fd == CHOOSE f \in free : \A g \in free : f <= g
      i       == read_dentry_by_name(name)
  IN  /\ free # {} /\ i # FAIL
      /\ fd_array' = [fd_array EXCEPT ![open_fd] =
                        [table |-> TableOf(Dentries[i + 1].fileType), pos |-> 0,
                         inode |-> i, flags |-> 1]]
      /\ delivered' = [delivered EXCEPT ![open_fd] = << >>]
      /\ UNCHANGED last

\* open(filename): the lowest descriptor whose flags are not 1, bound to the
\* table of the named entry's type at position 0; then the table's open is
\* called (rtc_open resets the RTC, which the RTC model covers).  With no
\* free descriptor or no such entry it returns -1 and changes nothing.
Open(name) ==
  LET free    == {f \in Fds : fd_array[f].flags # 1}
      open_fd == CHOOSE f \in free : \A g \in free : f <= g
      i       == read_dentry_by_name(name)
  IN  /\ free # {}
      /\ i # FAIL
      /\ fd_array' = [fd_array EXCEPT ![open_fd] =
                        [table |-> TableOf(Dentries[i + 1].fileType), pos |-> 0,
                         inode |-> Dentries[i + 1].inodeNumber, flags |-> 1]]
      /\ delivered' = [delivered EXCEPT ![open_fd] = << >>]
      /\ UNCHANGED last

\* The result of one call, kept for the properties about return values.
Call(op, n, ret) == [op |-> op, n |-> n, ret |-> ret]

\* The table read calls through: file_op_table_ptr, bound at open
\* (lines 374, 382 and 391).
ReadTable(f) == fd_array[f].table

\* read(fd, buf, nbytes).  A bad index, an inactive descriptor and fd 1
\* give -1.  fd 0 calls terminal_read, which returns the whole line
\* whatever nbytes is.  Any other descriptor is routed by the type of the
\* first entry with its inode: an RTC entry passes fd, a directory entry
\* passes the position and adds 1 to it, a regular file passes inode and
\* position and adds what was read.  The function called is the read of
\* the table bound at open; rtc_read returns 0 after the next RTC tick.
Read(f, n) ==
  \/ /\ ~Active(f) \/ f = STDOUT_FD
     /\ last' = Call("read", n, FAIL)
     /\ UNCHANGED << fd_array, delivered >>
  \/ /\ f = 0 /\ Active(0)
     /\ \E len \in TermLineLengths : last' = Call("read", n, len)
     /\ UNCHANGED << fd_array, delivered >>
  \/ /\ f > STDOUT_FD /\ Active(f)
     /\ LET e    == fd_array[f]
            idx  == find_dentry_by_inode_num(e.inode)
            kind == read_dentry_by_index(idx).fileType
            first_arg == IF kind = RTC_FILE_TYPE THEN f ELSE e.pos
            r    == CASE ReadTable(f) = "rtc"  -> Result(0, << >>)
                      [] ReadTable(f) = "dir"  -> directory_read(first_arg, n)
                      [] ReadTable(f) = "file" -> file_read(e.inode, e.pos, n)
            step == CASE kind = RTC_FILE_TYPE       -> 0
                      [] kind = DIRECTORY_FILE_TYPE -> 1
                      [] OTHER                      -> r.ret
        IN  /\ idx # FAIL /\ dentry_index_ok(idx)
            /\ fd_array' = [fd_array EXCEPT ![f].pos = @ + step]
            /\ delivered' = [delivered EXCEPT ![f] = @ \o r.copied]
            /\ last' = Call("read", n, r.ret)

\* write(fd, buf, nbytes).  A bad index, an inactive descriptor and fd 0
\* give -1.  fd 1 calls terminal_write: 0 if nbytes > 1024, else the bytes
\* up to and including the first NUL, at most nbytes.  An RTC descriptor
\* calls rtc_write: -1 unless nbytes = 4, else nbytes (the new frequency is
\* the RTC model's).  The file and directory tables give -1.
Write(f, n) ==
  /\ \/ /\ ~Active(f) \/ f = 0 \/ (f > STDOUT_FD /\ fd_array[f].table # "rtc")
        /\ last' = Call("write", n, FAIL)
     \/ /\ f = STDOUT_FD /\ Active(f)
        /\ \E len \in 0 .. (IF n > 0 THEN n ELSE 0) : last' = Call("write", n, IF n > MAX_INPUT_BUF_LEN THEN 0 ELSE len)
     \/ /\ f > STDOUT_FD /\ Active(f) /\ fd_array[f].table = "rtc"
        /\ last' = Call("write", n, IF n # NBYTES_SIZE THEN FAIL ELSE n)
  /\ UNCHANGED << fd_array, delivered >>

\* Mutant: close compares with < STDOUT_FD, so stdout can be closed.
Close_stdout(f) ==
  /\ ~(f < STDOUT_FD \/ f >= FD_ARRAY_LENGTH)
  /\ fd_array[f].flags = 1
  /\ fd_array' = [fd_array EXCEPT ![f] = Empty]
  /\ delivered' = [delivered EXCEPT ![f] = << >>]
  /\ UNCHANGED last

\* close(fd): refuses fd <= STDOUT_FD, a bad index and an inactive
\* descriptor; otherwise calls the table's close and clears the entry.
Close(f) ==
  /\ ~(f <= STDOUT_FD \/ f >= FD_ARRAY_LENGTH)
  /\ fd_array[f].flags = 1
  /\ fd_array' = [fd_array EXCEPT ![f] = Empty]
  /\ delivered' = [delivered EXCEPT ![f] = << >>]
  /\ UNCHANGED last

(***************************************************************************)
(* execute's argument parsing (system_calls.c 147-180, 272-274), getargs   *)
(***************************************************************************)

\* arg_start_idx: one past the first space, or 0 when there is none (the
\* loop of lines 165-172, whose i + 1 is the 1-based index of the space).
arg_start_idx(c) == SE!SelectInSeq(c, LAMBDA b : b = SPACE)

\* filename[]: the bytes before the first space (lines 160-172).
filename(c) == SubSeq(c, 1, IF arg_start_idx(c) = 0 THEN Len(c) ELSE arg_start_idx(c) - 1)

\* The local arg[]: zeroed (155-157), then filled with the bytes after the
\* first space only when there is one (175-180).
local_arg(c) ==
  IF arg_start_idx(c) # 0 THEN SubSeq(c, arg_start_idx(c) + 1, Len(c)) ELSE << >>

\* Mutant: the copy made only when the command has a space.
StoredArg_with_space(c, old) ==
  IF arg_start_idx(c) # 0 /\ arg_start_idx(c) < Len(c) THEN local_arg(c) ELSE old

\* new_pcb->arg (272-274): strcpy of the local arg[] when arg_start_idx <
\* cmd_len; otherwise the pcb keeps what its previous process left, since
\* halt never clears it.
StoredArg(c, old) == IF arg_start_idx(c) < Len(c) THEN local_arg(c) ELSE old

\* strlen(command) is at most EXEC_ARG_LEN (147-152).
CommandFits(c) == Len(c) <= EXEC_ARG_LEN

\* The commands execute runs to the end: they fit, and the file they name
\* exists and is an executable (182-201).
Runnable(c) == CommandFits(c) /\ filename(c) \in Programs

\* What a pcb's arg[] may hold: an argument some command left, or nothing.
Args == {local_arg(c) : c \in Commands} \cup {<< >>}

\* getargs(buf, nbytes) (546-557): -1 for nbytes <= 0 (buf is a valid
\* buffer here); otherwise strncpy of the pcb's arg into buf, and 0.
GetArgs(n) ==
  /\ last' = Call("getargs", n, IF n <= 0 THEN FAIL ELSE 0)
  /\ UNCHANGED << fd_array, delivered, arg, command >>

\* The process halts and a new one runs in its pcb (a base shell restarts
\* in place): halt closes descriptors 0..7, and execute of a command it
\* runs to the end stores the argument, clears the array and binds 0 and 1
\* to the terminal.
Restart ==
  \E c \in Commands :
    /\ Runnable(c)
    /\ arg' = StoredArg(c, arg)
    /\ command' = c
    /\ fd_array' = [f \in Fds |-> IF f <= STDOUT_FD THEN Stdio ELSE Empty]
    /\ delivered' = [f \in Fds |-> << >>]
    /\ last' = NoCall

\* A program runs in the pcb; its arg[] held whatever the memory held
\* before this execute, which may be anything (Args).
Init ==
  /\ fd_array = [f \in Fds |-> IF f <= STDOUT_FD THEN Stdio ELSE Empty]
  /\ delivered = [f \in Fds |-> << >>]
  /\ last = NoCall
  /\ command \in {c \in Commands : Runnable(c)}
  /\ arg \in {StoredArg(command, old) : old \in Args}

Next ==
  \/ /\ \/ \E name \in Names : Open(name)
        \/ \E f \in Fds, n \in NBytes : Read(f, n) \/ Write(f, n)
        \/ \E f \in Fds : Close(f)
     /\ UNCHANGED << arg, command >>
  \/ \E n \in NBytes : GetArgs(n)
  \/ Restart

Spec == Init /\ [][Next]_vars

\* Keeps directory and RTC positions, which grow with every read, finite.
PositionBound == \A f \in Fds : fd_array[f].pos <= MaxPosition

-----------------------------------------------------------------------------
(***************************************************************************)
(* Properties                                                              *)
(***************************************************************************)

TypeOK ==
  /\ fd_array \in [Fds -> [table : Tables, pos : 0 .. MaxPosition + 1,
                           inode : DOMAIN NumBytes, flags : {0, 1}]]
  /\ delivered \in [Fds -> Seq(Nat)]
  /\ last \in [op : {"none", "read", "write", "getargs"}, n : NBytes \cup {0}, ret : Int]
  /\ arg \in Args
  /\ command \in Commands

\* Successive reads of a regular file return its bytes in order, each once,
\* and the position is the number returned: read_data's copy loop, file_read
\* and the position update in read agree, whatever nbytes (also negative,
\* which wraps in read_data's uint32_t loop bound) the program passes.
FileReadsAreSequential ==
  \A f \in Fds : fd_array[f].table = "file" =>
    /\ delivered[f] = [i \in 1 .. fd_array[f].pos |-> i - 1]
    /\ fd_array[f].pos <= NumBytes[fd_array[f].inode]

\* Successive reads of a directory descriptor list the boot block's entries
\* in index order, each once, and then keep returning 0: directory_read's
\* end check and read's position step of one entry per call agree.
DirectoryListsEachEntryOnce ==
  \A f \in Fds : fd_array[f].table = "dir" =>
    delivered[f] = [i \in 1 .. IF fd_array[f].pos < numDentries
                                THEN fd_array[f].pos ELSE numDentries |-> i - 1]

\* Descriptors 0 and 1 stay bound to the terminal for the life of the
\* process, and no other descriptor is: close refuses them and open never
\* reuses them (spec section 2, File Descriptor).
StdioPinned ==
  \A f \in Fds : (f <= STDOUT_FD) <=> (fd_array[f].table = "terminal" /\ fd_array[f].flags = 1)

\* The argument as spec section 4.2 states it (steps 2 and 8): the bytes
\* after the first space of the command, none when it has no space.
Remainder(c) ==
  LET spaces == {i \in DOMAIN c : c[i] = SPACE}
  IN  IF spaces = {} THEN << >>
      ELSE LET first == CHOOSE i \in spaces : \A j \in spaces : i <= j
           IN  [k \in 1 .. Len(c) - first |-> c[first + k]]

\* Every program finds in its pcb the argument of its own command, and an
\* empty one when its command has no space, whatever argument an earlier
\* program left in the reused pcb: halt never clears pcb->arg, and only
\* execute's zeroed local arg[] (system_calls.c 155-157) and the strcpy at
\* 272 overwrite it.  Left out is the command whose first space is its
\* last byte: 272 skips the copy then, and the earlier argument stays.
ArgsOfOwnCommand ==
  ~(SPACE \in SE!ToSet(command) /\ Remainder(command) = << >>)
    => arg = Remainder(command)

\* A read returns -1 or at most nbytes bytes: the caller's buffer holds
\* nbytes (system_calls.c:328, "reads nbytes bytes ... and stores them in
\* buf").
ReadFitsBuffer ==
  last.op = "read" => last.ret = FAIL \/ last.ret <= (IF last.n > 0 THEN last.n ELSE 0)

=============================================================================
