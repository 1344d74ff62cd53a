------------------------------ MODULE Terminal ------------------------------
(***************************************************************************)
(* The two system calls that move bytes between a user program and the     *)
(* serial line, sys_write and sys_read, turn by turn of their loops, for   *)
(* one thread, with the memory the bytes come from and go to.  The kernel  *)
(* is not interrupted; bytes arrive, and other readers take them, while    *)
(* this thread runs user code or waits.  Which reader goes on, and when,   *)
(* is the subject of Keyboard; here it is left open.                       *)
(***************************************************************************)
EXTENDS CircularBuffer, UserAccess

VARIABLES
  pc,        \* where the thread is: "user", "write", "read", "wait", "return"
             \*   or "astray"
  call,      \* the last call: which one it was,
  addr,      \*   its buffer,
  len,       \*   and how many bytes
  ptr,       \* buffer of sys_write as it advances, or kbinfo.keybuffer
  left,      \* size of sys_write as it decreases, or kbinfo.keystoread
  i,         \* the variable of the for loop of sys_read_uart
  ret,       \* ret of sys_write, or kbinfo.keysread; what the call returns
  mem,       \* the bytes of the program
  sent,      \* history: what the last call sent to the serial line
  taken,     \* history: what it took from uart_read_buffer,
  before     \*   and the memory before it

callVars == <<call, addr, len, before>>
loopVars == <<ptr, left, i, ret>>
termVars == <<pc, callVars, loopVars, mem, sent, taken>>

EBADF == 1
EACCES == 2
EPNULL == 4
ESIZEB == 5
ENACCB == 6

(* The bytes of a program that has stored nothing are told apart by where   *)
(* they are.                                                                *)
TermInit ==
  /\ Init
  /\ pc = "user"
  /\ call = "none" /\ addr = NULL /\ len = 0
  /\ ptr = NULL /\ left = 0 /\ i = 0 /\ ret = 0
  /\ mem = [a \in Address |-> a]
  /\ before = mem
  /\ sent = <<>> /\ taken = <<>>

(* check_fd: 0 is for reading, 1 for writing.                               *)
check_fd(fd, op) ==
  IF fd \notin {0, 1} THEN EBADF
  ELSE IF (fd = 1) # (op = "write") THEN EACCES
  ELSE 0

(* The error numbers of the early returns, in their order, or 0.            *)
Refusal(op, fd, a, n) ==
  IF check_fd(fd, op) # 0 THEN check_fd(fd, op)
  ELSE IF a = NULL THEN EPNULL
  ELSE IF n <= 0 THEN ESIZEB
  ELSE IF ~ access_ok(IF op = "write" THEN "VERIFY_READ" ELSE "VERIFY_WRITE", a, n)
  THEN ENACCB
  ELSE 0

(* A program makes a call with these arguments.                             *)
Enter(op, a, n) ==
  /\ pc = "user"
  /\ call' = op /\ addr' = a /\ len' = n
  /\ before' = mem
  /\ sent' = <<>> /\ taken' = <<>>
  /\ ptr' = a /\ left' = n

sys_refuses(op, fd, a, n) ==
  /\ Refusal(op, fd, a, n) # 0
  /\ Enter(op, a, n)
  /\ ret' = - Refusal(op, fd, a, n)
  /\ pc' = "return"
  /\ UNCHANGED <<mem, i, vars>>
-----------------------------------------------------------------------------
sys_write(fd, a, n) ==
  /\ Refusal("write", fd, a, n) = 0
  /\ Enter("write", a, n)
  /\ ret' = 0
  /\ pc' = "write"
  /\ UNCHANGED <<mem, i, vars>>

(* sys_write_uart(buff, n): printc sends byte by byte.                      *)
sys_write_uart(n) ==
  /\ sent' = sent \o copy_from_user(mem, ptr, n)
  /\ ret' = ret + n

(* The next n bytes are memory of the program.                              *)
InProgram(n) == ptr .. ptr + n - 1 \subseteq Address

(* Seeded fault: the buffer advances by one less than what was sent.        *)
write_piece_short ==
  /\ pc = "write" /\ left > 4 /\ InProgram(4)
  /\ sys_write_uart(4)
  /\ ptr' = ptr + 3 /\ left' = left - 4
  /\ UNCHANGED <<pc, callVars, i, mem, taken, vars>>

(* A turn of the loop of sys_write: four bytes at a time.                   *)
write_piece ==
  /\ pc = "write" /\ left > 4 /\ InProgram(4)
  /\ sys_write_uart(4)
  /\ ptr' = ptr + 4 /\ left' = left - 4
  /\ UNCHANGED <<pc, callVars, i, mem, taken, vars>>

write_last ==
  /\ pc = "write" /\ left <= 4 /\ InProgram(left)
  /\ sys_write_uart(left)
  /\ pc' = "return"
  /\ UNCHANGED <<ptr, left, callVars, i, mem, taken, vars>>
-----------------------------------------------------------------------------
(* sys_read up to the loop of sys_read_uart, or until it has to wait behind *)
(* other readers.                                                           *)
sys_read(fd, a, n) ==
  /\ Refusal("read", fd, a, n) = 0
  /\ Enter("read", a, n)
  /\ ret' = 0
  /\ pc' \in {"read", "wait"}
  /\ i' = n
  /\ UNCHANGED <<mem, vars>>

(* Seeded fault: the pointer does not advance with the bytes.               *)
read_byte_in_place ==
  /\ pc = "read" /\ i > 0 /\ InProgram(1)
  /\ circularbRead
  /\ mem' = copy_to_user(mem, ptr, <<element'>>)
  /\ taken' = Append(taken, element')
  /\ i' = i - 1
  /\ UNCHANGED <<pc, callVars, left, ret, sent, ptr>>

(* A turn of the for loop of sys_read_uart.                                 *)
read_byte ==
  /\ pc = "read" /\ i > 0 /\ InProgram(1)
  /\ circularbRead
  /\ mem' = copy_to_user(mem, ptr, <<element'>>)
  /\ taken' = Append(taken, element')
  /\ ptr' = ptr + 1
  /\ i' = i - 1
  /\ UNCHANGED <<pc, callVars, left, ret, sent>>

(* Seeded fault: the bytes of the passes before are forgotten.              *)
read_pass_end_forgetful ==
  /\ pc = "read" /\ (i = 0 \/ circularbIsEmpty)
  /\ ret' = left - i
  /\ left' = i
  /\ pc' = IF i = 0 THEN "return" ELSE "wait"
  /\ UNCHANGED <<ptr, i, callVars, mem, sent, taken, vars>>

(* The loop ends; unless it has all it wants, the reader waits for more.    *)
read_pass_end ==
  /\ pc = "read" /\ (i = 0 \/ circularbIsEmpty)
  /\ ret' = ret + (left - i)
  /\ left' = i
  /\ pc' = IF i = 0 THEN "return" ELSE "wait"
  /\ UNCHANGED <<ptr, i, callVars, mem, sent, taken, vars>>

(* sched_switch_process has chosen this reader.                             *)
read_resume ==
  /\ pc = "wait" /\ ~ circularbIsEmpty
  /\ pc' = "read"
  /\ i' = left
  /\ UNCHANGED <<ptr, left, ret, callVars, mem, sent, taken, vars>>

(* The loop of a call comes to bytes that are not memory of the program.    *)
(* The kernel sends or overwrites what is there, in the empty page and then *)
(* in its own pages; the call is not followed any further.                  *)
goes_astray ==
  /\ \/ pc = "write" /\ ~ InProgram(IF left > 4 THEN 4 ELSE left)
     \/ pc = "read" /\ i > 0 /\ ~ circularbIsEmpty /\ ~ InProgram(1)
  /\ pc' = "astray"
  /\ UNCHANGED <<callVars, loopVars, mem, sent, taken, vars>>

(* What the rest of the system does with the buffer while user code runs or *)
(* the thread waits.                                                        *)
uart_others ==
  /\ pc \in {"user", "return", "wait"}
  /\ Next
  /\ UNCHANGED termVars
-----------------------------------------------------------------------------
(* A call touches bytes that are neither in the code or data of the program *)
(* nor in the page behind them, where its heap begins, only if the end of   *)
(* its block wraps: access_ok tests the start of the block and its end, but *)
(* takes the end modulo 2^32.  Every other block that it accepts is inside, *)
(* to the last turn of the loops.  The code counts as inside, for reads too.*)
BlocksInside == pc = "astray" => addr + len >= AddressSpace

(* A write that has been accepted has sent, when it returns, the bytes of   *)
(* its buffer, all of them, once and in order, however many pieces it took, *)
(* and returns their number; one that was refused has sent nothing.         *)
WriteSendsBuffer ==
  call = "write" /\ pc = "return" =>
    /\ mem = before
    /\ IF ret < 0 THEN sent = <<>>
       ELSE sent = copy_from_user(before, addr, len) /\ ret = len

(* A read that has been accepted has stored, when it returns, the bytes it  *)
(* took from the line, as many as were asked for, in their order in its     *)
(* buffer and nowhere else, however often it had to wait; and at any time   *)
(* before, what it has and what it still wants make up what it asked for.   *)
(* One that was refused has taken no byte from the others.                  *)
ReadFillsBuffer ==
  call = "read" =>
    /\ pc = "wait" => ret + left = len /\ ret = Len(taken)
    /\ pc = "return" =>
         IF ret < 0 THEN mem = before /\ taken = <<>>
         ELSE /\ ret = len /\ Len(taken) = len
              /\ mem = copy_to_user(before, addr, taken)
=============================================================================
