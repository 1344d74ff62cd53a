---------------------------- MODULE UserLibrary ----------------------------
(***************************************************************************)
(* The library a user program is linked with (libc.c, errno.c, perror.c),  *)
(* as one thread of the program uses it to read and write: stubs that turn *)
(* negative results into errno, perror, and the printing of numbers.       *)
(* errno is a global variable, shared with the other threads of the        *)
(* process.                                                                *)
(***************************************************************************)
EXTENDS Terminal

CONSTANTS
  WriteArguments, ReadArguments,   \* the <<fd, buffer, size>> programs pass
  ErrorPrefixes,        \* the <<s, strlen(s)>> they pass to perror
  Numbers,          \* what they print
  OtherErrors,      \* what other calls may leave in errno
  MaxCalls          \* bound on calls

MaxInt == 2147483647

(* Buffers are any addresses, what is printed and the sizes are ints.  The  *)
(* stub of sbrk takes a break of 2^31 or more, which an earlier call has    *)
(* wrapped to, for an error, and any int above 0 may end in errno, or the   *)
(* smallest one.                                                            *)
ASSUME LibraryAssumption ==
  /\ WriteArguments \subseteq Int \X Nat \X Int
  /\ ReadArguments \subseteq Int \X Nat \X Int
  /\ \A c \in WriteArguments \cup ReadArguments :
       c[2] < AddressSpace /\ 2 * c[3] < AddressSpace
  /\ ErrorPrefixes \subseteq Nat \X Nat
  /\ Numbers \subseteq Int /\ \A v \in Numbers : - MaxInt - 1 <= v /\ v <= MaxInt
  /\ \A e \in OtherErrors : e \in 1 .. MaxInt \/ e = - MaxInt - 1
  /\ MaxCalls \in Nat

VARIABLES
  errno,
  message,     \* what perror has written, as the number of the error, or Unknown
  owed,        \* history: the messages it might have chosen
  reason,      \* history: why the last call was refused, or 0
  mine,        \* history: the error of the last call of this thread that failed
  disturbed,   \* history: errno was set by another call
  calls        \* calls so far

errnoVars == <<errno, mine, disturbed>>
perrorVars == <<message, owed>>
libVars == <<vars, termVars, errnoVars, perrorVars, reason, calls>>

(* A message is the number of the error it is about.                        *)
sys_errlist == [e \in 0 .. 17 |-> e]
sys_nerr == 17
Unknown == -1

MessageOf(e) == IF e < 0 \/ e > sys_nerr THEN Unknown ELSE sys_errlist[e]

LibInit ==
  /\ TermInit
  /\ errno = 0 /\ mine = 0 /\ disturbed = FALSE
  /\ message = 0 /\ owed = {0}
  /\ reason = 0
  /\ calls = 0

Called == calls < MaxCalls /\ calls' = calls + 1
-----------------------------------------------------------------------------
(* write and read, up to the svc instruction, and the kernel behind it.     *)
svc(op, fd, a, n) ==
  /\ Called
  /\ \/ sys_refuses(op, fd, a, n)
     \/ op = "write" /\ sys_write(fd, a, n)
     \/ op = "read" /\ sys_read(fd, a, n)
  /\ reason' = Refusal(op, fd, a, n)
  /\ UNCHANGED <<errnoVars, perrorVars>>

kernel ==
  /\ \/ write_piece \/ write_last \/ read_byte \/ read_pass_end \/ read_resume
     \/ goes_astray
  /\ UNCHANGED <<errnoVars, perrorVars, reason, calls>>

other_reads_and_interrupts ==
  /\ uart_others
  /\ UNCHANGED <<errnoVars, perrorVars, reason, calls>>

(* Seeded fault: errno gets the negative number.                            *)
stub_returns_negative ==
  /\ pc = "return"
  /\ pc' = "user"
  /\ IF ret < 0
     THEN errno' = ret /\ ret' = -1 /\ mine' = - ret /\ disturbed' = FALSE
     ELSE UNCHANGED <<errnoVars, ret>>
  /\ UNCHANGED <<callVars, ptr, left, i, mem, sent, taken, vars, perrorVars, reason, calls>>

(* The stubs of write and read behind the svc instruction.                  *)
stub_returns ==
  /\ pc = "return"
  /\ pc' = "user"
  /\ IF ret < 0
     THEN errno' = - ret /\ ret' = -1 /\ mine' = - ret /\ disturbed' = FALSE
     ELSE UNCHANGED <<errnoVars, ret>>
  /\ UNCHANGED <<callVars, ptr, left, i, mem, sent, taken, vars, perrorVars, reason, calls>>

(* A call of another thread of the process fails, while this one runs user  *)
(* code and is preempted, or waits; or this one calls sbrk.                 *)
other_thread_fails(e) ==
  /\ pc \in {"user", "return", "wait", "perror"}
  /\ errno' = e
  /\ disturbed' = TRUE
  /\ UNCHANGED <<mine, vars, termVars, perrorVars, reason, calls>>
-----------------------------------------------------------------------------
(* perror, up to its first write: the message is chosen.  The entry of the  *)
(* table is named before errno is tested.  Where there is none, the build   *)
(* may still load the word there, which may be one user code cannot load.   *)
perror(s, n) ==
  /\ pc = "user" /\ Called
  /\ pc' \in IF errno \in 0 .. sys_nerr THEN {"perror"} ELSE {"perror", "abort"}
  /\ call' = "perror" /\ addr' = s /\ len' = n
  /\ message' = MessageOf(errno)
  /\ owed' = IF disturbed THEN {MessageOf(e) : e \in OtherErrors} ELSE {mine}
  /\ UNCHANGED <<before, loopVars, mem, sent, taken, vars, errnoVars, reason>>

(* The error write(1, s, strlen(s)) fails with, or 0.  The strings perror   *)
(* writes behind it are its own, and never refused.                         *)
PrefixRefused == IF addr = NULL THEN 0 ELSE Refusal("write", 1, addr, len)

(* Seeded fault: the message is chosen when the prefix has been written.    *)
perror_writes_late ==
  /\ pc = "perror"
  /\ pc' = "user"
  /\ IF PrefixRefused = 0 THEN UNCHANGED errnoVars
     ELSE errno' = PrefixRefused /\ mine' = errno' /\ disturbed' = FALSE
  /\ message' = MessageOf(errno')
  /\ UNCHANGED <<callVars, loopVars, mem, sent, taken, vars, owed, reason, calls>>

(* The writes of perror.                                                    *)
perror_writes ==
  /\ pc = "perror"
  /\ pc' = "user"
  /\ IF PrefixRefused = 0 THEN UNCHANGED errnoVars
     ELSE errno' = PrefixRefused /\ mine' = errno' /\ disturbed' = FALSE
  /\ UNCHANGED <<callVars, loopVars, mem, sent, taken, vars, perrorVars, reason, calls>>

(* data_abort_routine does not return, and a call that has gone astray is   *)
(* not followed.                                                            *)
halted == pc \in {"abort", "astray"} /\ UNCHANGED libVars
-----------------------------------------------------------------------------
Zero == 48    \* '0'
NUL == 0

(* The first loop of itoa: the lowest digit first.                          *)
LowFirst[a \in 0 .. MaxInt] ==
  IF a = 0 THEN <<>> ELSE <<(a % 10) + Zero>> \o LowFirst[a \div 10]

(* Seeded fault: the loop that reverses the digits goes on to the last one, *)
(* and every pair is exchanged twice.                                       *)
ExchangedTwice(b) == b

(* The second loop of itoa: i1 < i/2 is exchanged with i-i1-1.              *)
Exchanged(b) ==
  LET half == Len(b) \div 2
      back(j) == Len(b) + 1 - j
  IN [j \in 1 .. Len(b) |-> IF j <= half \/ back(j) <= half THEN b[back(j)] ELSE b[j]]

itoa(a) ==
  IF a = 0 THEN <<Zero, NUL>>
  ELSE Append(Exchanged(IF a > 0 THEN LowFirst[a] ELSE <<>>), NUL)

strlen(s) == CHOOSE n \in 0 .. Len(s) - 1 : s[n + 1] = NUL /\ \A j \in 1 .. n : s[j] # NUL

(* itoa(v, cbuff); write(1, cbuff, strlen(cbuff)): nothing is printed of a  *)
(* negative number, and the write of an empty string fails.                 *)
print(v) ==
  /\ pc = "user" /\ Called
  /\ call' = "print" /\ len' = v
  /\ sent' = SubSeq(itoa(v), 1, strlen(itoa(v)))
  /\ IF sent' # <<>> THEN ret' = Len(sent') /\ reason' = 0 /\ UNCHANGED errnoVars
     ELSE /\ ret' = -1 /\ reason' = ESIZEB
          /\ errno' = ESIZEB /\ mine' = ESIZEB /\ disturbed' = FALSE
  /\ UNCHANGED <<pc, addr, before, ptr, left, i, mem, taken, vars, perrorVars>>

LibNext ==
  \/ \E c \in WriteArguments : svc("write", c[1], c[2], c[3])
  \/ \E c \in ReadArguments : svc("read", c[1], c[2], c[3])
  \/ kernel
  \/ other_reads_and_interrupts
  \/ stub_returns
  \/ \E e \in OtherErrors : other_thread_fails(e)
  \/ \E s \in ErrorPrefixes : perror(s[1], s[2])
  \/ perror_writes
  \/ \E v \in Numbers : print(v)
  \/ halted

LibSpec == LibInit /\ [][LibNext]_libVars
-----------------------------------------------------------------------------
(* A read or write returns the size the program asked for, or -1 where the  *)
(* kernel refused it, and then errno tells why; errno still tells that of   *)
(* the last call that failed when others have succeeded since.  Only other  *)
(* calls, those of threads with the same errno among them, come in between. *)
FailureReported ==
  pc = "user" =>
    /\ call \in {"read", "write"} => ret = IF reason = 0 THEN len ELSE -1
    /\ call \in {"read", "write"} /\ reason # 0 => mine = reason
    /\ ~ disturbed => errno = mine

(* perror tells the error the thread met before it called perror, even if   *)
(* the writes of perror fail themselves, as those of an empty prefix do;    *)
(* unless another call has failed since, and it tells the error of that.    *)
(* That perror names an entry of the table before it tests errno does no    *)
(* harm, unless another call has left a number there that has no entry.     *)
PerrorTellsError ==
  /\ call = "perror" /\ pc = "user" => message \in owed
  /\ pc = "abort" => disturbed /\ MessageOf(errno) = Unknown

(* The number that the digits s stand for.                                  *)
NumberOf(s) ==
  LET value[j \in 0 .. Len(s)] == IF j = 0 THEN 0 ELSE 10 * value[j - 1] + (s[j] - Zero)
  IN value[Len(s)]

(* Printed numbers can be read back: the digits, without leading zeros, and *)
(* with their end they fit into the 11 characters programs reserve (user.c).*)
NumbersReadBack ==
  call = "print" /\ len >= 0 =>
    /\ NumberOf(sent) = len
    /\ \A j \in 1 .. Len(sent) : sent[j] - Zero \in 0 .. 9
    /\ Len(sent) > 1 => sent[1] # Zero
    /\ Len(sent) + 1 <= 11
=============================================================================
