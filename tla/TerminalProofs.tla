--------------------------- MODULE TerminalProofs ---------------------------
(***************************************************************************)
(* Proofs about reads and writes as the library makes them, for blocks of  *)
(* every size, every size of the circular buffer and any number of calls.  *)
(***************************************************************************)
EXTENDS UserLibrary, CircularBufferProofs

(* The library uses the circular buffer by its operations only.             *)
LEMMA BufferStep == [LibNext]_libVars => [Next]_vars
<1> SUFFICES ASSUME [LibNext]_libVars PROVE [Next]_vars
  OBVIOUS
<1>1. ASSUME NEW op, NEW fd, NEW a, NEW n, svc(op, fd, a, n) PROVE UNCHANGED vars
  BY <1>1 DEF svc, sys_refuses, sys_write, sys_read
<1>2. CASE kernel
  BY <1>2 DEF kernel, write_piece, write_last, read_byte, read_pass_end, read_resume,
              goes_astray, Next
<1>3. CASE other_reads_and_interrupts
  BY <1>3 DEF other_reads_and_interrupts, uart_others
<1>4. CASE stub_returns \/ perror_writes
  BY <1>4 DEF stub_returns, perror_writes
<1>5. ASSUME NEW e, other_thread_fails(e) PROVE UNCHANGED vars
  BY <1>5 DEF other_thread_fails
<1>6. ASSUME NEW s, NEW n, perror(s, n) PROVE UNCHANGED vars
  BY <1>6 DEF perror
<1>7. ASSUME NEW v, print(v) PROVE UNCHANGED vars
  BY <1>7 DEF print
<1>8. CASE halted \/ UNCHANGED libVars
  BY <1>8 DEF halted, libVars
<1> QED BY <1>1, <1>2, <1>3, <1>4, <1>5, <1>6, <1>7, <1>8 DEF LibNext

(* A program that uses the library meets the specification of the buffer.   *)
LEMMA UsesBuffer == LibSpec => Spec
<1>1. LibInit => Init
  BY DEF LibInit, TermInit
<1> QED BY <1>1, BufferStep, PTL DEF LibSpec, Spec

(* The indices of the circular buffer stay in the array, and its counter in *)
(* its range, while programs read (circularbWrite, circularbRead).          *)
THEOREM LibraryKeepsTypes == LibSpec => []TypeOK
  BY UsesBuffer, CounterIsExact, PTL

(* The counter agrees with the indices (circularbWrite, circularbRead).     *)
THEOREM LibraryKeepsCounter == LibSpec => []CounterAgrees
  BY UsesBuffer, CounterIsExact, PTL

(* Under everything programs do with the terminal, the circular buffer is a *)
(* first in, first out queue.                                               *)
THEOREM LibraryKeepsQueue == LibSpec => IsBoundedQueue
  BY UsesBuffer, BufferIsQueue, PTL
-----------------------------------------------------------------------------
(* A sequence with the elements of s and then those of t is s \o t.         *)
LEMMA IsConcat ==
  ASSUME NEW S, NEW s \in Seq(S), NEW t \in Seq(S), NEW u \in Seq(S),
         Len(u) = Len(s) + Len(t),
         \A j \in 1 .. Len(s) : u[j] = s[j],
         \A j \in 1 .. Len(t) : u[Len(s) + j] = t[j]
  PROVE  s \o t = u
<1>1. /\ s \o t \in Seq(S) /\ Len(s \o t) = Len(s) + Len(t)
      /\ \A j \in 1 .. Len(s) + Len(t) :
           (s \o t)[j] = IF j <= Len(s) THEN s[j] ELSE t[j - Len(s)]
  BY ConcatProperties
<1>2. ASSUME NEW j \in 1 .. Len(u) PROVE (s \o t)[j] = u[j]
  <2>1. CASE j <= Len(s)
    BY <1>1, <2>1
  <2>2. CASE ~ j <= Len(s)
    <3>1. j - Len(s) \in 1 .. Len(t) /\ Len(s) + (j - Len(s)) = j
      BY <2>2
    <3> QED BY <1>1, <2>2, <3>1
  <2> QED BY <2>1, <2>2
<1> QED BY <1>1, <1>2, SeqEqual

(* Two adjoining blocks, one after the other, are one block.                *)
LEMMA CopyConcat ==
  ASSUME NEW m, NEW a \in Int, NEW k \in Nat, NEW n \in Nat
  PROVE  copy_from_user(m, a, k) \o copy_from_user(m, a + k, n) = copy_from_user(m, a, k + n)
<1> DEFINE S == {m[x] : x \in Int}
<1>1. ASSUME NEW b \in Int, NEW l \in Nat
      PROVE  /\ copy_from_user(m, b, l) \in Seq(S)
             /\ Len(copy_from_user(m, b, l)) = l
             /\ \A j \in 1 .. l : copy_from_user(m, b, l)[j] = m[b + j - 1]
  <2> DEFINE c == copy_from_user(m, b, l)
  <2>1. \A j \in 1 .. l : m[b + j - 1] \in S
    OBVIOUS
  <2> HIDE DEF S
  <2>2. DOMAIN c = 1 .. l /\ \A j \in 1 .. l : c[j] = m[b + j - 1]
    BY DEF copy_from_user
  <2>3. c \in [1 .. l -> S]
    BY <2>1 DEF copy_from_user
  <2> HIDE DEF c
  <2>4. c \in Seq(S)
    BY <2>3, SeqDef
  <2>5. Len(c) = l
    BY <2>2, <2>4, LenProperties
  <2> QED BY <2>2, <2>4, <2>5 DEF c
<1> HIDE DEF S
<1>2. ASSUME NEW j \in 1 .. k
      PROVE  copy_from_user(m, a, k + n)[j] = copy_from_user(m, a, k)[j]
  <2>1. k + n \in Nat /\ j \in 1 .. k + n
    OBVIOUS
  <2> QED BY <1>1, <2>1
<1>3. ASSUME NEW j \in 1 .. n
      PROVE  copy_from_user(m, a, k + n)[k + j] = copy_from_user(m, a + k, n)[j]
  <2>1. k + n \in Nat /\ k + j \in 1 .. k + n /\ a + k \in Int
    OBVIOUS
  <2>2. copy_from_user(m, a, k + n)[k + j] = m[a + (k + j) - 1]
    BY <1>1, <2>1
  <2>3. copy_from_user(m, a + k, n)[j] = m[a + k + j - 1]
    BY <1>1, <2>1
  <2>4. a + (k + j) - 1 = a + k + j - 1
    OBVIOUS
  <2> QED BY <2>2, <2>3, <2>4
<1> DEFINE s == copy_from_user(m, a, k)
           t == copy_from_user(m, a + k, n)
           u == copy_from_user(m, a, k + n)
<1>4. /\ s \in Seq(S) /\ Len(s) = k
      /\ t \in Seq(S) /\ Len(t) = n
      /\ u \in Seq(S) /\ Len(u) = k + n
  <2>1. k + n \in Nat /\ a + k \in Int
    OBVIOUS
  <2> QED BY <1>1, <2>1
<1>5. /\ \A j \in 1 .. k : u[j] = s[j]
      /\ \A j \in 1 .. n : u[k + j] = t[j]
  BY <1>2, <1>3
<1> HIDE DEF s, t, u
<1>6. s \o t = u
  BY <1>4, <1>5, IsConcat
<1> QED BY <1>6 DEF s, t, u

(* Storing one more byte behind those stored so far.                        *)
LEMMA StoreAppend ==
  ASSUME NEW m, NEW a \in Int, NEW s \in Seq(Element), NEW e \in Element
  PROVE  copy_to_user(copy_to_user(m, a, s), a + Len(s), <<e>>) = copy_to_user(m, a, Append(s, e))
<1> DEFINE s1 == Append(s, e)
<1>1. Len(s) \in Nat /\ Len(s1) = Len(s) + 1 /\ s1[Len(s) + 1] = e /\ Len(<<e>>) = 1 /\ <<e>>[1] = e
  OBVIOUS
<1>2. \A j \in 1 .. Len(s) : s1[j] = s[j]
  OBVIOUS
<1> HIDE DEF s1
<1>3. ASSUME NEW x \in DOMAIN m
      PROVE  copy_to_user(copy_to_user(m, a, s), a + Len(s), <<e>>)[x] = copy_to_user(m, a, s1)[x]
  <2>1. CASE x = a + Len(s)
    BY <1>1, <2>1 DEF copy_to_user
  <2>2. CASE x \in a .. a + Len(s) - 1
    <3>1. x - a + 1 \in 1 .. Len(s) /\ x \in a .. a + Len(s1) - 1
      BY <1>1, <2>2
    <3>2. x \notin a + Len(s) .. a + Len(s) + Len(<<e>>) - 1
      BY <1>1, <2>2
    <3> QED BY <1>2, <2>2, <3>1, <3>2 DEF copy_to_user
  <2>3. CASE x \notin a .. a + Len(s)
    <3>1. /\ x \notin a .. a + Len(s) - 1
          /\ x \notin a .. a + Len(s1) - 1
          /\ x \notin a + Len(s) .. a + Len(s) + Len(<<e>>) - 1
      BY <1>1, <2>3
    <3> QED BY <3>1 DEF copy_to_user
  <2> QED BY <1>1, <2>1, <2>2, <2>3
<1>4. /\ DOMAIN copy_to_user(copy_to_user(m, a, s), a + Len(s), <<e>>) = DOMAIN m
      /\ DOMAIN copy_to_user(m, a, s1) = DOMAIN m
  BY DEF copy_to_user
<1>5. copy_to_user(copy_to_user(m, a, s), a + Len(s), <<e>>) = copy_to_user(m, a, s1)
  BY <1>3, <1>4 DEF copy_to_user
<1> QED BY <1>5 DEF s1
(* A block of no bytes.                                                     *)
LEMMA CopyNothing == ASSUME NEW m, NEW a PROVE copy_from_user(m, a, 0) = <<>>
  BY DEF copy_from_user

(* Storing no byte changes nothing.                                          *)
LEMMA StoreNothing ==
  ASSUME NEW m, m = [x \in Address |-> m[x]], NEW a \in Int
  PROVE  copy_to_user(m, a, <<>>) = m
<1>1. Len(<<>>) = 0 /\ a .. a + 0 - 1 = {}
  OBVIOUS
<1> QED BY <1>1 DEF copy_to_user

(* What the kernel refuses has an error number, what it accepts has a size. *)
LEMMA RefusalLemma ==
  ASSUME NEW op, NEW fd, NEW a, NEW n \in Int
  PROVE  /\ Refusal(op, fd, a, n) \in Nat
         /\ Refusal(op, fd, a, n) = 0 => n > 0
  BY DEF Refusal, check_fd, EBADF, EACCES, EPNULL, ESIZEB, ENACCB

(* What programs pass is of the right types.                                *)
LEMMA ArgumentsLemma ==
  ASSUME NEW c \in WriteArguments \cup ReadArguments
  PROVE  c[2] \in Nat /\ c[3] \in Int
  BY LibraryAssumption
-----------------------------------------------------------------------------
(* In the loop of sys_write, what has been sent is the part of the buffer   *)
(* in front of the pointer.                                                 *)
WriteProgress ==
  /\ call = "write" /\ mem = before
  /\ addr \in Nat /\ len \in Nat /\ left \in 1 .. len
  /\ ptr = addr + (len - left)
  /\ ret = len - left
  /\ sent = copy_from_user(before, addr, len - left)

WriteInv ==
  /\ pc = "write" => WriteProgress
  /\ pc \in {"read", "wait"} => call = "read"
  /\ WriteSendsBuffer

(* A call of the kernel enters its loop with everything left to send.        *)
LEMMA SvcKeepsWriteInv ==
  ASSUME NEW op \in {"write", "read"}, NEW fd, NEW a \in Nat, NEW n \in Int,
         svc(op, fd, a, n)
  PROVE  WriteInv'
<1>1. CASE sys_refuses(op, fd, a, n)
  <2>1. pc' = "return" /\ sent' = <<>> /\ mem' = before' /\ ret' < 0
    BY <1>1, RefusalLemma DEF sys_refuses, Enter
  <2> QED BY <2>1 DEF WriteInv, WriteSendsBuffer
<1>2. CASE op = "write" /\ sys_write(fd, a, n)
  <2>1. /\ pc' = "write" /\ call' = "write" /\ mem' = before'
        /\ addr' = a /\ len' = n /\ left' = n /\ ptr' = a /\ ret' = 0 /\ sent' = <<>>
        /\ n > 0
    BY <1>2, RefusalLemma DEF sys_write, Enter
  <2>2. n - n = 0 /\ a + 0 = a /\ sent' = copy_from_user(before', a, 0)
    BY <2>1, CopyNothing
  <2>3. WriteProgress'
    BY <2>1, <2>2 DEF WriteProgress
  <2> QED BY <2>1, <2>3 DEF WriteInv, WriteSendsBuffer
<1>3. CASE op = "read" /\ sys_read(fd, a, n)
  BY <1>3 DEF sys_read, Enter, WriteInv, WriteSendsBuffer
<1> QED BY <1>1, <1>2, <1>3 DEF svc

(* One turn of the loop of sys_write, or of what runs meanwhile.             *)
LEMMA KernelKeepsWriteInv ==
  ASSUME WriteInv, kernel
  PROVE  WriteInv'
<1>1. CASE write_piece
  <2>1. WriteProgress
    BY <1>1 DEF write_piece, WriteInv
  <2>2. /\ UNCHANGED <<pc, callVars, mem>> /\ pc = "write" /\ left > 4
        /\ ptr' = ptr + 4 /\ left' = left - 4 /\ ret' = ret + 4
        /\ sent' = sent \o copy_from_user(mem, ptr, 4)
    BY <1>1 DEF write_piece, sys_write_uart
  <2>3. /\ len - left \in Nat /\ (len - left) + 4 = len - left'
        /\ left' \in 1 .. len /\ ptr' = addr + (len - left') /\ ret' = len - left'
    BY <2>1, <2>2 DEF WriteProgress
  <2>4. sent' = copy_from_user(before, addr, len - left')
    <3>1. copy_from_user(before, addr, len - left) \o copy_from_user(before, addr + (len - left), 4)
            = copy_from_user(before, addr, (len - left) + 4)
      <4>1. addr \in Int /\ 4 \in Nat
        BY <2>1 DEF WriteProgress
      <4> QED BY <2>3, <4>1, CopyConcat
    <3> QED BY <2>1, <2>2, <2>3, <3>1 DEF WriteProgress
  <2>5. WriteProgress'
    BY <2>1, <2>2, <2>3, <2>4 DEF WriteProgress, callVars
  <2> QED BY <2>2, <2>5 DEF WriteInv, WriteSendsBuffer
<1>2. CASE write_last
  <2>1. WriteProgress
    BY <1>2 DEF write_last, WriteInv
  <2>2. /\ UNCHANGED <<callVars, mem>> /\ pc' = "return"
        /\ ret' = ret + left
        /\ sent' = sent \o copy_from_user(mem, ptr, left)
    BY <1>2 DEF write_last, sys_write_uart
  <2>3. len - left \in Nat /\ left \in Nat /\ (len - left) + left = len /\ ret' = len
    BY <2>1, <2>2 DEF WriteProgress
  <2>4. sent' = copy_from_user(before, addr, len)
    <3>1. copy_from_user(before, addr, len - left) \o copy_from_user(before, addr + (len - left), left)
            = copy_from_user(before, addr, (len - left) + left)
      <4>1. addr \in Int /\ 4 \in Nat
        BY <2>1 DEF WriteProgress
      <4> QED BY <2>3, <4>1, CopyConcat
    <3> QED BY <2>1, <2>2, <2>3, <3>1 DEF WriteProgress
  <2>5. UNCHANGED <<call, addr, len, before>> /\ mem' = before' /\ len >= 0
    BY <2>1, <2>2 DEF WriteProgress, callVars
  <2>6. WriteSendsBuffer'
    BY <2>2, <2>3, <2>4, <2>5 DEF WriteSendsBuffer
  <2> QED BY <2>2, <2>6 DEF WriteInv
<1>3. CASE read_byte \/ read_pass_end \/ read_resume
  BY <1>3 DEF read_byte, read_pass_end, read_resume, callVars, WriteInv, WriteSendsBuffer
<1>4. CASE goes_astray
  BY <1>4 DEF goes_astray, WriteInv, WriteSendsBuffer
<1> QED BY <1>1, <1>2, <1>3, <1>4 DEF kernel

(* The steps outside of the kernel.                                         *)
LEMMA UserKeepsWriteInv ==
  ASSUME WriteInv,
         \/ other_reads_and_interrupts
         \/ stub_returns
         \/ \E e \in OtherErrors : other_thread_fails(e)
         \/ \E s \in ErrorPrefixes : perror(s[1], s[2])
         \/ perror_writes
         \/ \E v \in Numbers : print(v)
         \/ halted \/ UNCHANGED libVars
  PROVE  WriteInv'
<1>1. CASE \/ other_reads_and_interrupts
           \/ \E e \in OtherErrors : other_thread_fails(e)
           \/ halted \/ UNCHANGED libVars
  <2>1. UNCHANGED termVars
    BY <1>1 DEF other_reads_and_interrupts, uart_others, other_thread_fails, halted, libVars
  <2> QED BY <2>1 DEF termVars, callVars, loopVars, WriteInv, WriteProgress, WriteSendsBuffer
<1>2. CASE \/ stub_returns
           \/ \E s \in ErrorPrefixes : perror(s[1], s[2])
           \/ perror_writes
           \/ \E v \in Numbers : print(v)
  <2>1. pc' \in {"user", "perror", "abort"}
    BY <1>2 DEF stub_returns, perror, perror_writes, print
  <2> QED BY <2>1 DEF WriteInv, WriteSendsBuffer
<1> QED BY <1>1, <1>2

(* WriteInv is an invariant of the library.                                  *)
LEMMA WriteInvAlways == LibSpec => []WriteInv
<1>1. LibInit => WriteInv
  BY DEF LibInit, TermInit, WriteInv, WriteSendsBuffer
<1>2. WriteInv /\ [LibNext]_libVars => WriteInv'
  <2> SUFFICES ASSUME WriteInv, [LibNext]_libVars PROVE WriteInv'
    OBVIOUS
  <2>1. ASSUME NEW c \in WriteArguments, svc("write", c[1], c[2], c[3]) PROVE WriteInv'
    BY <2>1, ArgumentsLemma, SvcKeepsWriteInv
  <2>2. ASSUME NEW c \in ReadArguments, svc("read", c[1], c[2], c[3]) PROVE WriteInv'
    BY <2>2, ArgumentsLemma, SvcKeepsWriteInv
  <2>3. CASE kernel
    BY <2>3, KernelKeepsWriteInv
  <2> QED BY <2>1, <2>2, <2>3, UserKeepsWriteInv DEF LibNext
<1> QED BY <1>1, <1>2, PTL DEF LibSpec

(* A write sends its whole buffer, once and in order, or is refused and     *)
(* sends nothing, for every address and length (sys_write).                 *)
THEOREM WritesSendTheirBuffer == LibSpec => []WriteSendsBuffer
<1>1. WriteInv => WriteSendsBuffer
  BY DEF WriteInv
<1> QED BY <1>1, WriteInvAlways, PTL
-----------------------------------------------------------------------------
(* In the loop of sys_read_uart, and while it waits, the bytes taken so far *)
(* are stored in front of the pointer; keystoread and keysread are brought  *)
(* up to date at the end of a pass only.                                    *)
ReadProgress ==
  /\ call = "read"
  /\ addr \in Nat /\ len \in Nat /\ left \in 1 .. len /\ i \in 0 .. left
  /\ ret = len - left
  /\ taken \in Seq(Element) /\ Len(taken) = len - i
  /\ ptr = addr + Len(taken)
  /\ mem = copy_to_user(before, addr, taken)
  /\ pc = "wait" => i = left

ReadInv ==
  /\ mem = [x \in Address |-> mem[x]]
  /\ pc \in {"read", "wait"} => ReadProgress
  /\ pc = "write" => call = "write"
  /\ ReadFillsBuffer

(* A call of the kernel starts with nothing taken.                           *)
LEMMA SvcKeepsReadInv ==
  ASSUME ReadInv,
         NEW op \in {"write", "read"}, NEW fd, NEW a \in Nat, NEW n \in Int,
         svc(op, fd, a, n)
  PROVE  ReadInv'
<1>1. mem' = mem /\ before' = mem /\ taken' = <<>>
  BY DEF svc, sys_refuses, sys_write, sys_read, Enter
<1>2. mem' = [x \in Address |-> mem'[x]]
  BY <1>1 DEF ReadInv
<1>3. CASE sys_refuses(op, fd, a, n)
  <2>1. pc' = "return" /\ ret' < 0
    BY <1>3, RefusalLemma DEF sys_refuses, Enter
  <2> QED BY <1>1, <1>2, <2>1 DEF ReadInv, ReadFillsBuffer
<1>4. CASE op = "write" /\ sys_write(fd, a, n)
  BY <1>2, <1>4 DEF sys_write, Enter, ReadInv, ReadFillsBuffer
<1>5. CASE op = "read" /\ sys_read(fd, a, n)
  <2>1. /\ pc' \in {"read", "wait"} /\ call' = "read"
        /\ addr' = a /\ len' = n /\ left' = n /\ ptr' = a /\ ret' = 0 /\ i' = n
        /\ n > 0
    BY <1>5, RefusalLemma DEF sys_read, Enter
  <2>2. taken' \in Seq(Element) /\ Len(taken') = 0 /\ n - n = 0 /\ a + 0 = a
    BY <1>1
  <2>3. mem' = copy_to_user(before', addr', taken')
    <3>1. before' = [x \in Address |-> before'[x]]
      BY <1>1, <1>2
    <3> QED BY <1>1, <2>1, <3>1, StoreNothing
  <2>4. ReadProgress'
    BY <2>1, <2>2, <2>3 DEF ReadProgress
  <2>5. ReadFillsBuffer'
    BY <2>1, <2>2 DEF ReadFillsBuffer
  <2> QED BY <1>2, <2>1, <2>4, <2>5 DEF ReadInv
<1> QED BY <1>3, <1>4, <1>5 DEF svc

(* One turn of the loop of sys_read_uart: a byte more is taken and stored.   *)
LEMMA ReadByteKeepsReadInv ==
  ASSUME IInv, ReadInv, read_byte
  PROVE  ReadInv'
<1>1. ReadProgress
  BY DEF read_byte, ReadInv
<1>2. /\ UNCHANGED <<pc, call, addr, len, before, left, ret>> /\ pc = "read" /\ i > 0
      /\ ptr' = ptr + 1 /\ i' = i - 1
      /\ mem' = copy_to_user(mem, ptr, <<element'>>)
      /\ taken' = Append(taken, element')
  BY DEF read_byte, callVars
<1>3. element' \in Element
  BY DEF read_byte, circularbRead, IInv, TypeOK
<1>4. taken' \in Seq(Element) /\ Len(taken') = Len(taken) + 1
  <2>1. taken \in Seq(Element)
    BY <1>1 DEF ReadProgress
  <2>2. taken' = Append(taken, element')
    BY <1>2
  <2> QED  BY <1>3, <2>1, <2>2, AppendProperties
<1>5. mem' = copy_to_user(before, addr, taken')
  <2>1. addr \in Int /\ taken \in Seq(Element)
    BY <1>1 DEF ReadProgress
  <2>2. copy_to_user(copy_to_user(before, addr, taken), addr + Len(taken), <<element'>>)
          = copy_to_user(before, addr, Append(taken, element'))
    BY <1>3, <2>1, StoreAppend
  <2> QED BY <1>1, <1>2, <2>2 DEF ReadProgress
<1>6. ReadProgress'
  BY <1>1, <1>2, <1>4, <1>5 DEF ReadProgress
<1>7. mem' = [x \in Address |-> mem'[x]]
  BY <1>2 DEF ReadInv, copy_to_user
<1> QED BY <1>2, <1>6, <1>7 DEF ReadInv, ReadFillsBuffer

(* The other turns store nothing.                                            *)
LEMMA KernelKeepsReadInv ==
  ASSUME IInv, ReadInv, kernel
  PROVE  ReadInv'
<1>1. CASE read_byte
  BY <1>1, ReadByteKeepsReadInv
<1>2. CASE read_pass_end
  <2>1. ReadProgress
    BY <1>2 DEF read_pass_end, ReadInv
  <2>2. /\ UNCHANGED <<ptr, i, call, addr, len, before, mem, taken>>
        /\ ret' = ret + (left - i) /\ left' = i
        /\ pc' = IF i = 0 THEN "return" ELSE "wait"
    BY <1>2 DEF read_pass_end, callVars
  <2>3. ret' = len - left' /\ Len(taken') = len - left' /\ left' \in 0 .. len
    BY <2>1, <2>2 DEF ReadProgress
  <2>4. CASE i = 0
    BY <2>1, <2>2, <2>3, <2>4 DEF ReadInv, ReadFillsBuffer, ReadProgress
  <2>5. CASE i # 0
    <3>1. ReadProgress'
      BY <2>1, <2>2, <2>3, <2>5 DEF ReadProgress
    <3>2. ReadFillsBuffer'
      BY <2>1, <2>2, <2>3, <2>5 DEF ReadFillsBuffer, ReadProgress
    <3> QED BY <2>2, <2>5, <3>1, <3>2 DEF ReadInv
  <2> QED BY <2>4, <2>5
<1>3. CASE read_resume
  <2>1. ReadProgress
    BY <1>3 DEF read_resume, ReadInv
  <2>2. ReadProgress'
    BY <1>3, <2>1 DEF read_resume, callVars, ReadProgress
  <2> QED BY <1>3, <2>2 DEF read_resume, callVars, ReadInv, ReadFillsBuffer
<1>4. CASE write_piece \/ write_last
  <2>1. call' = "write" /\ mem' = mem /\ pc' \in {"write", "return"}
    BY <1>4 DEF write_piece, write_last, callVars, ReadInv
  <2> QED BY <2>1 DEF ReadInv, ReadFillsBuffer
<1>5. CASE goes_astray
  <2>1. mem' = mem /\ pc' = "astray"
    BY <1>5 DEF goes_astray
  <2> QED BY <2>1 DEF ReadInv, ReadFillsBuffer
<1> QED BY <1>1, <1>2, <1>3, <1>4, <1>5 DEF kernel

(* The steps outside of the kernel.                                         *)
LEMMA UserKeepsReadInv ==
  ASSUME ReadInv,
         \/ other_reads_and_interrupts
         \/ stub_returns
         \/ \E e \in OtherErrors : other_thread_fails(e)
         \/ \E s \in ErrorPrefixes : perror(s[1], s[2])
         \/ perror_writes
         \/ \E v \in Numbers : print(v)
         \/ halted \/ UNCHANGED libVars
  PROVE  ReadInv'
<1>1. CASE \/ other_reads_and_interrupts
           \/ \E e \in OtherErrors : other_thread_fails(e)
           \/ halted \/ UNCHANGED libVars
  <2>1. UNCHANGED termVars
    BY <1>1 DEF other_reads_and_interrupts, uart_others, other_thread_fails, halted, libVars
  <2> QED BY <2>1 DEF termVars, callVars, loopVars, ReadInv, ReadProgress, ReadFillsBuffer
<1>2. CASE \/ stub_returns
           \/ \E s \in ErrorPrefixes : perror(s[1], s[2])
           \/ perror_writes
           \/ \E v \in Numbers : print(v)
  <2>1. pc' \in {"user", "perror", "abort"} /\ mem' = mem
    BY <1>2 DEF stub_returns, perror, perror_writes, print
  <2> QED BY <2>1 DEF ReadInv, ReadFillsBuffer
<1> QED BY <1>1, <1>2

(* ReadInv is an invariant of the library.                                   *)
LEMMA ReadInvAlways == LibSpec => []ReadInv
<1>1. LibInit => ReadInv
  BY DEF LibInit, TermInit, ReadInv, ReadFillsBuffer
<1>2. IInv /\ ReadInv /\ [LibNext]_libVars => ReadInv'
  <2> SUFFICES ASSUME IInv, ReadInv, [LibNext]_libVars PROVE ReadInv'
    OBVIOUS
  <2>1. ASSUME NEW c \in WriteArguments, svc("write", c[1], c[2], c[3]) PROVE ReadInv'
    BY <2>1, ArgumentsLemma, SvcKeepsReadInv
  <2>2. ASSUME NEW c \in ReadArguments, svc("read", c[1], c[2], c[3]) PROVE ReadInv'
    BY <2>2, ArgumentsLemma, SvcKeepsReadInv
  <2>3. CASE kernel
    BY <2>3, KernelKeepsReadInv
  <2> QED BY <2>1, <2>2, <2>3, UserKeepsReadInv DEF LibNext
<1>3. TypeOK /\ CounterAgrees => IInv
  BY DEF IInv
<1> QED BY <1>1, <1>2, <1>3, LibraryKeepsTypes, LibraryKeepsCounter, PTL DEF LibSpec

(* A read fills its buffer with the bytes it took, in their order, and      *)
(* stores nothing elsewhere, for every address and length and however often *)
(* it waits (sys_read_uart).                                                *)
THEOREM ReadsFillTheirBuffer == LibSpec => []ReadFillsBuffer
<1>1. ReadInv => ReadFillsBuffer
  BY DEF ReadInv
<1> QED BY <1>1, ReadInvAlways, PTL
-----------------------------------------------------------------------------
(* access_ok accepts a block that does not wrap only where the program has  *)
(* its code and data, or in the page behind.                                *)
LEMMA AccessLemma ==
  ASSUME NEW type, NEW a \in Nat, NEW n \in Nat, a + n < AddressSpace,
         access_ok(type, a, n)
  PROVE  a .. a + n - 1 \subseteq Address
<1> DEFINE P == PAGE_SIZE
           F == USER_FIRST_PAGE
           L == USER_FIRST_PAGE + NUM_PAG_CODE + NUM_PAG_DATA
<1>1. P \in Nat \ {0} /\ F \in Nat /\ L \in Nat /\ NUM_PAG_CODE \in Nat /\ NUM_PAG_DATA \in Nat
  BY UserAccessAssumption
<1>2. (a + n) % AddressSpace = a + n
  BY UserAccessAssumption
<1>3. a \div P >= F /\ (a + n) \div P <= L
  BY <1>1, <1>2 DEF access_ok, PagesBetween
<1>4. /\ a = P * (a \div P) + (a % P) /\ a % P \in 0 .. P - 1
      /\ a + n = P * ((a + n) \div P) + ((a + n) % P) /\ (a + n) % P \in 0 .. P - 1
      /\ a \div P \in Nat /\ (a + n) \div P \in Nat
  BY <1>1
<1>5. a >= P * F /\ a + n < P * L + P
  <2>1. \A x, y, z \in Nat : x <= y => z * x <= z * y
    OBVIOUS
  <2>2. P * F <= P * (a \div P) /\ P * ((a + n) \div P) <= P * L
    BY <1>1, <1>3, <1>4, <2>1
  <2> QED BY <1>1, <1>4, <2>2
<1>6. CodeStart = P * F /\ DataEnd + PAGE_SIZE = P * L + P
  BY <1>1 DEF CodeStart, DataStart, DataEnd
<1> DEFINE first == P * F
           behind == P * L + P
<1>7. first \in Int /\ behind \in Int /\ a >= first /\ a + n < behind
  BY <1>1, <1>5
<1>8. Address = first .. behind - 1
  <2>1. DataEnd + (PAGE_SIZE - 1) = behind - 1
    BY <1>1, <1>6 DEF CodeStart, DataStart, DataEnd
  <2> QED BY <1>6, <2>1 DEF Address
<1> HIDE DEF first, behind
<1> QED BY <1>7, <1>8

(* While the loop of a call has turns to go, its block is inside, unless it *)
(* wraps.                                                                   *)
BlockInv ==
  pc \in {"write", "read", "wait"} /\ addr + len < AddressSpace
    => addr .. addr + len - 1 \subseteq Address

(* The kernel begins a loop only where access_ok has accepted the block.    *)
LEMMA SvcKeepsBlockInv ==
  ASSUME NEW op, NEW fd, NEW a \in Nat, NEW n \in Int, svc(op, fd, a, n)
  PROVE  BlockInv' /\ pc' # "astray"
<1>1. addr' = a /\ len' = n
  BY DEF svc, sys_refuses, sys_write, sys_read, Enter
<1>2. CASE Refusal(op, fd, a, n) # 0
  <2>1. pc' = "return"
    BY <1>2 DEF svc, sys_refuses, sys_write, sys_read
  <2> QED BY <2>1 DEF BlockInv
<1>3. CASE Refusal(op, fd, a, n) = 0
  <2>1. n \in Nat
    BY <1>3, RefusalLemma
  <2>2. \E type : access_ok(type, a, n)
    BY <1>3 DEF Refusal, EPNULL, ESIZEB, ENACCB
  <2>3. a + n < AddressSpace => a .. a + n - 1 \subseteq Address
    BY <2>1, <2>2, AccessLemma
  <2>4. pc' \in {"write", "read", "wait"}
    BY <1>3 DEF svc, sys_refuses, sys_write, sys_read
  <2> QED BY <1>1, <2>3, <2>4 DEF BlockInv
<1> QED BY <1>2, <1>3

(* The loops stay in the block, so they leave the program with it only.     *)
LEMMA AstrayBlockWraps ==
  ASSUME WriteInv, ReadInv, BlockInv, goes_astray
  PROVE  addr + len >= AddressSpace
<1> SUFFICES ASSUME ~ addr + len >= AddressSpace PROVE FALSE
  OBVIOUS
<1>0. AddressSpace \in Nat
  BY UserAccessAssumption
<1>1. CASE pc = "write" /\ ~ InProgram(IF left > 4 THEN 4 ELSE left)
  <2>1. addr \in Nat /\ len \in Nat /\ left \in 1 .. len /\ ptr = addr + (len - left)
    BY <1>1 DEF WriteInv, WriteProgress
  <2>2. addr .. addr + len - 1 \subseteq Address
    BY <1>0, <1>1, <2>1 DEF BlockInv
  <2> DEFINE n == IF left > 4 THEN 4 ELSE left
  <2>3. ptr .. ptr + n - 1 \subseteq addr .. addr + len - 1
    BY <2>1
  <2> QED BY <1>1, <2>2, <2>3 DEF InProgram
<1>2. CASE pc = "read" /\ i > 0 /\ ~ InProgram(1)
  <2>1. /\ addr \in Nat /\ len \in Nat /\ left \in 1 .. len /\ i \in 1 .. left
        /\ ptr = addr + (len - i)
    BY <1>2 DEF ReadInv, ReadProgress
  <2>2. addr .. addr + len - 1 \subseteq Address
    BY <1>0, <1>2, <2>1 DEF BlockInv
  <2>3. ptr .. ptr + 1 - 1 \subseteq addr .. addr + len - 1
    BY <2>1
  <2> QED BY <1>2, <2>2, <2>3 DEF InProgram
<1> QED BY <1>1, <1>2 DEF goes_astray

(* Every step keeps both.                                                   *)
LEMMA NextBlocks ==
  WriteInv /\ ReadInv /\ BlockInv /\ BlocksInside /\ [LibNext]_libVars
    => BlockInv' /\ BlocksInside'
<1> SUFFICES ASSUME WriteInv, ReadInv, BlockInv, BlocksInside, [LibNext]_libVars
             PROVE  BlockInv' /\ BlocksInside'
  OBVIOUS
<1>1. ASSUME NEW op, NEW c \in WriteArguments \cup ReadArguments, svc(op, c[1], c[2], c[3])
      PROVE  BlockInv' /\ BlocksInside'
  BY <1>1, ArgumentsLemma, SvcKeepsBlockInv DEF BlocksInside
<1>2. CASE \/ write_piece \/ write_last \/ read_byte \/ read_pass_end \/ read_resume
           \/ other_reads_and_interrupts \/ stub_returns \/ perror_writes
           \/ \E e \in OtherErrors : other_thread_fails(e)
           \/ halted \/ UNCHANGED libVars
  <2>1. /\ UNCHANGED <<addr, len>>
        /\ pc' \in {"write", "read", "wait"} => pc \in {"write", "read", "wait"}
        /\ pc' = "astray" => pc = "astray"
    BY <1>2
       DEF write_piece, write_last, read_byte, read_pass_end, read_resume,
           other_reads_and_interrupts, uart_others, stub_returns, perror_writes,
           other_thread_fails, halted, libVars, termVars, callVars
  <2> QED BY <2>1 DEF BlockInv, BlocksInside
<1>3. CASE goes_astray
  <2>1. UNCHANGED <<addr, len>> /\ pc' = "astray"
    BY <1>3 DEF goes_astray, callVars
  <2> QED BY <1>3, <2>1, AstrayBlockWraps DEF BlockInv, BlocksInside
<1>4. CASE \/ \E s \in ErrorPrefixes : perror(s[1], s[2])
           \/ \E v \in Numbers : print(v)
  <2>1. pc' \in {"user", "perror", "abort"}
    BY <1>4 DEF perror, print
  <2> QED BY <2>1 DEF BlockInv, BlocksInside
<1>5. CASE \/ \E c \in WriteArguments : svc("write", c[1], c[2], c[3])
           \/ \E c \in ReadArguments : svc("read", c[1], c[2], c[3])
  BY <1>1, <1>5
<1> QED BY <1>2, <1>3, <1>4, <1>5 DEF LibNext, kernel

(* The loops of write and read touch bytes outside of the program only in a *)
(* block whose end wraps, for every address and size a program may pass and *)
(* every size of pages, code and data (access_ok, sys_write, sys_read_uart).*)
THEOREM CallsStayInside == LibSpec => []BlocksInside
<1>1. LibInit => BlockInv /\ BlocksInside
  BY DEF LibInit, TermInit, BlockInv, BlocksInside
<1> QED BY <1>1, NextBlocks, WriteInvAlways, ReadInvAlways, PTL DEF LibSpec
-----------------------------------------------------------------------------
(* What is told to the program: the result of a call that is about to       *)
(* return, and the error behind errno at all times, of this thread or of    *)
(* another one.                                                             *)
ReportInv ==
  /\ reason \in 0 .. sys_nerr /\ mine \in 0 .. sys_nerr
  /\ IF disturbed THEN errno \in OtherErrors ELSE errno = mine
  /\ pc \in {"write", "read", "wait", "return"} => call \in {"write", "read"}
  /\ pc \in {"write", "read", "wait"} => reason = 0
  /\ pc = "return" => ret = IF reason = 0 THEN len ELSE - reason
  /\ pc = "return" /\ reason = 0 => len \in Nat
  /\ pc = "perror" => call = "perror"
  /\ call = "perror" => message \in owed
  /\ pc = "abort" => disturbed /\ MessageOf(errno) = Unknown
  /\ FailureReported

(* Every number a call is refused with has a message.                       *)
LEMMA RefusalHasMessage ==
  ASSUME NEW op, NEW fd, NEW a, NEW n
  PROVE  Refusal(op, fd, a, n) \in 0 .. sys_nerr
BY DEF Refusal, check_fd, EBADF, EACCES, EPNULL, ESIZEB, ENACCB, sys_nerr

(* Entering the kernel touches neither errno nor the report.                 *)
LEMMA SvcKeepsReportInv ==
  ASSUME ReportInv, NEW op \in {"write", "read"}, NEW fd, NEW a, NEW n \in Int,
         svc(op, fd, a, n)
  PROVE  ReportInv'
<1>1. /\ reason' = Refusal(op, fd, a, n) /\ reason' \in 0 .. sys_nerr
      /\ UNCHANGED <<errno, mine, disturbed, message, owed>>
  BY RefusalHasMessage DEF svc, errnoVars, perrorVars
<1>2. call' = op
  BY DEF svc, sys_refuses, sys_write, sys_read, Enter
<1>3. CASE sys_refuses(op, fd, a, n)
  <2>1. pc' = "return" /\ ret' = - reason' /\ reason' # 0
    BY <1>1, <1>3 DEF sys_refuses
  <2> QED  BY <1>1, <1>2, <2>1 DEF ReportInv, FailureReported
<1>4. CASE \/ op = "write" /\ sys_write(fd, a, n)
           \/ op = "read" /\ sys_read(fd, a, n)
  <2>1. pc' \in {"write", "read", "wait"} /\ reason' = 0
    BY <1>1, <1>4 DEF sys_write, sys_read
  <2> QED  BY <1>1, <1>2, <2>1 DEF ReportInv, FailureReported
<1> QED  BY <1>3, <1>4 DEF svc

(* What the kernel returns is remembered as what the stub has to report.     *)
LEMMA KernelKeepsReportInv ==
  ASSUME WriteInv, ReadInv, ReportInv, kernel
  PROVE  ReportInv'
<1>1. UNCHANGED <<errno, mine, disturbed, message, owed, reason, call, len>>
  BY DEF kernel, errnoVars, perrorVars, callVars, write_piece, write_last, read_byte,
         read_pass_end, read_resume, goes_astray
<1>2. CASE write_last
  <2>1. WriteProgress /\ reason = 0 /\ pc' = "return" /\ ret' = ret + left
    BY <1>2 DEF write_last, sys_write_uart, WriteInv, ReportInv
  <2>2. ret' = len /\ len \in Nat
    BY <2>1 DEF WriteProgress
  <2> QED  BY <1>1, <2>1, <2>2 DEF ReportInv, FailureReported, WriteProgress
<1>3. CASE read_pass_end
  <2>1. /\ ReadProgress /\ reason = 0 /\ ret' = ret + (left - i)
        /\ pc' = IF i = 0 THEN "return" ELSE "wait"
    BY <1>3 DEF read_pass_end, ReadInv, ReportInv
  <2>2. i = 0 => ret' = len /\ len \in Nat
    BY <2>1 DEF ReadProgress
  <2> QED  BY <1>1, <2>1, <2>2 DEF ReportInv, FailureReported, ReadProgress
<1>4. CASE write_piece \/ read_byte \/ read_resume
  <2>1. pc \in {"write", "read", "wait"} /\ pc' \in {"write", "read", "wait"}
    BY <1>4 DEF write_piece, read_byte, read_resume
  <2> QED  BY <1>1, <2>1 DEF ReportInv, FailureReported
<1>5. CASE goes_astray
  <2>1. pc' = "astray"
    BY <1>5 DEF goes_astray
  <2> QED  BY <1>1, <2>1 DEF ReportInv, FailureReported
<1> QED  BY <1>2, <1>3, <1>4, <1>5 DEF kernel

(* Zenon writes a number in unary, so large ones are left to SMT.           *)
LEMMA MaxIntIsNat == MaxInt \in Nat
BY SMT DEF MaxInt

(* perror looks at errno when it is called.                                 *)
LEMMA PerrorKeepsReportInv ==
  ASSUME ReportInv, NEW s, NEW n, perror(s, n)
  PROVE  ReportInv'
<1>1. message' \in owed'
  <2>1. CASE disturbed
    <3>1. errno \in OtherErrors /\ owed' = {MessageOf(e) : e \in OtherErrors}
      BY <2>1 DEF perror, ReportInv
    <3> QED  BY <3>1 DEF perror
  <2>2. CASE ~ disturbed
    <3>1. errno = mine /\ errno \in 0 .. sys_nerr /\ owed' = {mine}
      BY <2>2 DEF perror, ReportInv
    <3>2. MessageOf(errno) = errno
      BY <3>1 DEF MessageOf, sys_errlist, sys_nerr
    <3> QED  BY <3>1, <3>2 DEF perror
  <2> QED  BY <2>1, <2>2
<1>2. pc' = "abort" => disturbed /\ MessageOf(errno) = Unknown
  <2> SUFFICES ASSUME pc' = "abort" PROVE disturbed /\ MessageOf(errno) = Unknown
    OBVIOUS
  <2>1. ~ errno \in 0 .. sys_nerr
    BY DEF perror
  <2>2. disturbed /\ errno \in OtherErrors
    BY <2>1 DEF ReportInv
  <2>3. errno \in Int
    BY <2>2, LibraryAssumption, MaxIntIsNat
  <2> QED  BY <2>1, <2>2, <2>3 DEF MessageOf, sys_nerr
<1> QED  BY <1>1, <1>2 DEF perror, ReportInv, FailureReported, errnoVars

(* The stubs and perror store and read errno.                                *)
LEMMA LibraryKeepsReportInv ==
  ASSUME ReportInv,
         \/ other_reads_and_interrupts
         \/ stub_returns
         \/ \E e \in OtherErrors : other_thread_fails(e)
         \/ perror_writes
         \/ \E v \in Numbers : print(v)
         \/ halted \/ UNCHANGED libVars
  PROVE  ReportInv'
<1>1. CASE other_reads_and_interrupts \/ halted \/ UNCHANGED libVars
  BY <1>1 DEF other_reads_and_interrupts, uart_others, halted, libVars, termVars, callVars, loopVars,
              errnoVars, perrorVars, ReportInv, FailureReported
<1>2. CASE stub_returns
  <2>1. /\ pc = "return" /\ pc' = "user"
        /\ UNCHANGED <<call, len, message, owed, reason>>
    BY <1>2 DEF stub_returns, callVars, perrorVars
  <2>2. CASE reason = 0
    <3>1. ret = len /\ len \in Nat
      BY <2>1, <2>2 DEF ReportInv
    <3>2. ret' = len /\ UNCHANGED errnoVars
      BY <1>2, <2>1, <2>2, <3>1 DEF stub_returns, ReportInv
    <3> QED  BY <2>1, <2>2, <3>2 DEF ReportInv, FailureReported, errnoVars
  <2>3. CASE reason # 0
    <3>1. ret = - reason /\ reason \in 0 .. sys_nerr
      BY <2>1, <2>3 DEF ReportInv
    <3>2. ret < 0 /\ - ret = reason
      BY <2>3, <3>1 DEF sys_nerr
    <3>3. ret' = -1 /\ errno' = reason /\ mine' = reason /\ disturbed' = FALSE
      BY <1>2, <3>2 DEF stub_returns
    <3> QED  BY <2>1, <2>3, <3>1, <3>3 DEF ReportInv, FailureReported
  <2> QED  BY <2>2, <2>3
<1>3. CASE \E e \in OtherErrors : other_thread_fails(e)
  <2> PICK e \in OtherErrors : other_thread_fails(e)
    BY <1>3
  <2> QED  BY DEF other_thread_fails, termVars, callVars, loopVars, perrorVars,
                  ReportInv, FailureReported
<1>4. CASE perror_writes
  <2>1. /\ pc' = "user" /\ call' = "perror"
        /\ UNCHANGED <<message, owed, reason, len>>
    BY <1>4 DEF perror_writes, ReportInv, callVars, perrorVars
  <2>2. PrefixRefused \in 0 .. sys_nerr
    BY RefusalHasMessage DEF PrefixRefused, sys_nerr
  <2>3. \/ UNCHANGED <<errno, mine, disturbed>>
        \/ errno' = PrefixRefused /\ mine' = PrefixRefused /\ disturbed' = FALSE
    BY <1>4 DEF perror_writes, errnoVars
  <2>4. message \in owed
    BY <1>4 DEF perror_writes, ReportInv
  <2>5. /\ mine' \in 0 .. sys_nerr
        /\ IF disturbed' THEN errno' \in OtherErrors ELSE errno' = mine'
    BY <2>2, <2>3 DEF ReportInv
  <2> QED  BY <2>1, <2>4, <2>5 DEF ReportInv, FailureReported
<1>5. CASE \E v \in Numbers : print(v)
  <2> PICK v \in Numbers : print(v)
    BY <1>5
  <2>1. /\ pc = "user" /\ pc' = "user" /\ call' = "print" /\ reason' \in {0, ESIZEB}
        /\ \/ UNCHANGED <<errno, mine, disturbed>>
           \/ errno' = ESIZEB /\ mine' = ESIZEB /\ disturbed' = FALSE
    BY DEF print, errnoVars
  <2>2. 0 \in 0 .. sys_nerr /\ ESIZEB \in 0 .. sys_nerr
    BY DEF ESIZEB, sys_nerr
  <2> QED  BY <2>1, <2>2 DEF ReportInv, FailureReported
<1> QED  BY <1>1, <1>2, <1>3, <1>4, <1>5

(* Every step keeps ReportInv.                                               *)
LEMMA NextReportInv ==
  WriteInv /\ ReadInv /\ ReportInv /\ [LibNext]_libVars => ReportInv'
<1> SUFFICES ASSUME WriteInv, ReadInv, ReportInv, [LibNext]_libVars PROVE ReportInv'
  OBVIOUS
<1>1. ASSUME NEW c \in WriteArguments, svc("write", c[1], c[2], c[3]) PROVE ReportInv'
  BY <1>1, ArgumentsLemma, SvcKeepsReportInv
<1>2. ASSUME NEW c \in ReadArguments, svc("read", c[1], c[2], c[3]) PROVE ReportInv'
  BY <1>2, ArgumentsLemma, SvcKeepsReportInv
<1>3. CASE kernel
  BY <1>3, KernelKeepsReportInv
<1>4. ASSUME NEW s \in ErrorPrefixes, perror(s[1], s[2]) PROVE ReportInv'
  BY <1>4, PerrorKeepsReportInv
<1> QED  BY <1>1, <1>2, <1>3, <1>4, LibraryKeepsReportInv DEF LibNext

(* ReportInv is an invariant of the library.                                 *)
LEMMA ReportInvAlways == LibSpec => []ReportInv
<1>1. LibInit => ReportInv
  BY DEF LibInit, TermInit, ReportInv, FailureReported, sys_nerr
<1> QED  BY <1>1, NextReportInv, WriteInvAlways, ReadInvAlways, PTL DEF LibSpec

(* What the stubs of write and read return, and what they leave in errno,   *)
(* is what the kernel said, whatever other threads do in between (libc.c,   *)
(* sys_write, sys_read).                                                    *)
THEOREM FailuresAreReported == LibSpec => []FailureReported
<1>1. ReportInv => FailureReported
  BY DEF ReportInv
<1> QED  BY <1>1, ReportInvAlways, PTL

(* perror tells the error that was in errno when it was called, whatever    *)
(* its own writes meet, and can be stopped by the table only with a number  *)
(* another call has left (perror.c).                                        *)
THEOREM PerrorIsRight == LibSpec => []PerrorTellsError
<1>1. ReportInv => PerrorTellsError
  BY DEF ReportInv, PerrorTellsError
<1> QED  BY <1>1, ReportInvAlways, PTL

-----------------------------------------------------------------------------
(***************************************************************************)
(* The numbers that are printed: itoa for every int that is not negative.  *)
(***************************************************************************)
Digit == Zero .. Zero + 9

(* A number without its last digit is a smaller int.                        *)
LEMMA Shorter ==
  ASSUME NEW a \in Nat, a # 0
  PROVE  /\ a \div 10 \in 0 .. a - 1
         /\ a % 10 \in 0 .. 9
         /\ a = 10 * (a \div 10) + (a % 10)
OBVIOUS

(* What the first loop of itoa leaves, by the number without its last       *)
(* digit: the recursion has a solution for every range of numbers.          *)
LEMMA LowFirstDef ==
  \A a \in 0 .. MaxInt :
    LowFirst[a] = IF a = 0 THEN <<>> ELSE <<(a % 10) + Zero>> \o LowFirst[a \div 10]
<1> DEFINE Rec(k, f) ==
             f = [a \in 0 .. k |->
                    IF a = 0 THEN <<>> ELSE <<(a % 10) + Zero>> \o f[a \div 10]]
           S == {k \in Nat : \E f : Rec(k, f)}
<1>1. 0 \in S
  <2> DEFINE f == [a \in 0 .. 0 |-> <<>>]
  <2>1. \A a \in 0 .. 0 : a = 0
    OBVIOUS
  <2>2. Rec(0, f)
    BY <2>1
  <2> QED  BY <2>2
<1>2. ASSUME NEW k \in Nat, k \in S
      PROVE  k + 1 \in S
  <2>1. PICK f : Rec(k, f)
    BY <1>2
  <2> DEFINE g == [a \in 0 .. k + 1 |->
                     IF a <= k THEN f[a] ELSE <<(a % 10) + Zero>> \o f[a \div 10]]
  <2>2. ASSUME NEW a \in 0 .. k + 1
        PROVE  g[a] = IF a = 0 THEN <<>> ELSE <<(a % 10) + Zero>> \o g[a \div 10]
    <3>1. CASE a = 0
      BY <2>1, <3>1
    <3>2. CASE a # 0
      <4>1. a \div 10 \in 0 .. k /\ a \in Nat
        BY <3>2, Shorter
      <4>2. g[a \div 10] = f[a \div 10]
        BY <4>1
      <4>3. a <= k => f[a] = <<(a % 10) + Zero>> \o f[a \div 10]
        <5> SUFFICES ASSUME a <= k PROVE f[a] = <<(a % 10) + Zero>> \o f[a \div 10]
          OBVIOUS
        <5>1. a \in 0 .. k
          BY <4>1
        <5> QED  BY <2>1, <3>2, <5>1
      <4> QED  BY <3>2, <4>2, <4>3
    <3> QED  BY <3>1, <3>2
  <2>3. g = [a \in 0 .. k + 1 |-> g[a]]
    OBVIOUS
  <2> HIDE DEF g
  <2>4. Rec(k + 1, g)
    BY <2>2, <2>3
  <2> HIDE DEF Rec
  <2> QED  BY <2>4
<1>3. MaxInt \in S
  <2> HIDE DEF S
  <2> QED  BY <1>1, <1>2, Induction, MaxIntIsNat
<1>4. LowFirst = [a \in 0 .. MaxInt |->
                    IF a = 0 THEN <<>> ELSE <<(a % 10) + Zero>> \o LowFirst[a \div 10]]
  BY <1>3 DEF LowFirst
<1> QED  BY <1>4

(* The two cases of it.                                                     *)
LEMMA LowFirstOfZero == LowFirst[0] = <<>>
<1>1. 0 \in 0 .. MaxInt
  BY MaxIntIsNat
<1> QED  BY <1>1, LowFirstDef, Zenon

(* Behind the lowest digit of a number come the digits of its tenth.        *)
LEMMA LowFirstNext ==
  ASSUME NEW a \in 1 .. MaxInt, NEW b, b = a \div 10
  PROVE  LowFirst[a] = <<(a % 10) + Zero>> \o LowFirst[b]
<1>1. a \in 0 .. MaxInt /\ ~ (a = 0)
  BY MaxIntIsNat
<1> QED  BY <1>1, LowFirstDef, Zenon

(* The first loop produces digits.                                          *)
LEMMA LowFirstType == \A a \in 0 .. MaxInt : LowFirst[a] \in Seq(Digit)
<1> DEFINE S == {a \in Nat : a <= MaxInt => LowFirst[a] \in Seq(Digit)}
<1>1. ASSUME NEW a \in Nat, \A b \in 0 .. a - 1 : b \in S
      PROVE  a \in S
  <2> SUFFICES ASSUME a <= MaxInt PROVE LowFirst[a] \in Seq(Digit)
    OBVIOUS
  <2>0. MaxInt \in Int /\ a \in 0 .. MaxInt
    BY MaxIntIsNat
  <2>1. CASE a = 0
    BY <2>1, LowFirstOfZero
  <2>2. CASE a # 0
    <3>0. a \in 1 .. MaxInt
      BY <2>0, <2>2
    <3>1. /\ LowFirst[a] = <<(a % 10) + Zero>> \o LowFirst[a \div 10]
          /\ a \div 10 \in 0 .. a - 1 /\ a % 10 \in 0 .. 9
      BY <2>0, <2>2, <3>0, LowFirstNext, Shorter
    <3>2. LowFirst[a \div 10] \in Seq(Digit)
      BY <1>1, <2>0, <3>1
    <3>3. (a % 10) + Zero \in Digit
      BY <3>1 DEF Digit, Zero
    <3> QED  BY <3>1, <3>2, <3>3, ConsLemma
  <2> QED  BY <2>1, <2>2
<1>2. \A a \in Nat : a \in S
  <2> HIDE DEF S
  <2> QED  BY <1>1, StrongInduction
<1> QED  BY <1>2, MaxIntIsNat

(* The last digit comes first, the others are those of a \div 10.           *)
LEMMA LowFirstStep ==
  ASSUME NEW a \in 1 .. MaxInt
  PROVE  /\ a \div 10 \in 0 .. MaxInt
         /\ Len(LowFirst[a \div 10]) \in Nat
         /\ Len(LowFirst[a]) = Len(LowFirst[a \div 10]) + 1
         /\ LowFirst[a][1] = (a % 10) + Zero
         /\ \A j \in 1 .. Len(LowFirst[a \div 10]) : LowFirst[a][j + 1] = LowFirst[a \div 10][j]
<1>0. MaxInt \in Int
  BY MaxIntIsNat
<1>1. /\ LowFirst[a] = <<(a % 10) + Zero>> \o LowFirst[a \div 10]
      /\ a \div 10 \in 0 .. MaxInt /\ a % 10 \in 0 .. 9
  <2>1. LowFirst[a] = <<(a % 10) + Zero>> \o LowFirst[a \div 10]
    BY LowFirstNext
  <2>2. a \div 10 \in 0 .. a - 1 /\ a % 10 \in 0 .. 9
    BY <1>0, Shorter
  <2>3. a \div 10 \in 0 .. MaxInt
    BY <1>0, <2>2
  <2> QED  BY <2>1, <2>2, <2>3
<1>2. LowFirst[a \div 10] \in Seq(Digit) /\ (a % 10) + Zero \in Digit
  BY <1>1, LowFirstType DEF Digit, Zero
<1> DEFINE q == LowFirst[a \div 10]
           d == (a % 10) + Zero
<1> HIDE DEF q, d
<1>3. /\ Len(<<d>> \o q) = Len(q) + 1
      /\ (<<d>> \o q)[1] = d
      /\ \A j \in 1 .. Len(q) : (<<d>> \o q)[j + 1] = q[j]
  <2>1. q \in Seq(Digit) /\ <<d>> \in Seq(Digit) /\ Len(<<d>>) = 1 /\ <<d>>[1] = d /\ Len(q) \in Nat
    BY <1>2 DEF q, d
  <2> QED  BY <2>1, ConcatProperties
<1> QED  BY <1>1, <1>2, <1>3 DEF q, d

(* The first digit of a number is not zero.                                 *)
LEMMA NoLeadingZero ==
  \A a \in 1 .. MaxInt :
    Len(LowFirst[a]) \in Nat \ {0} /\ LowFirst[a][Len(LowFirst[a])] # Zero
<1> DEFINE Good(a) == Len(LowFirst[a]) \in Nat \ {0} /\ LowFirst[a][Len(LowFirst[a])] # Zero
           S == {a \in Nat : a \in 1 .. MaxInt => Good(a)}
<1>0. MaxInt \in Int
  BY MaxIntIsNat
<1>1. ASSUME NEW a \in Nat, \A b \in 0 .. a - 1 : b \in S
      PROVE  a \in S
  <2> SUFFICES ASSUME a \in 1 .. MaxInt PROVE Good(a)
    OBVIOUS
  <2> DEFINE b == a \div 10
             n == Len(LowFirst[b])
  <2>1. /\ n \in Nat /\ Len(LowFirst[a]) = n + 1
        /\ LowFirst[a][1] = (a % 10) + Zero
        /\ \A j \in 1 .. n : LowFirst[a][j + 1] = LowFirst[b][j]
    BY LowFirstStep
  <2>2. b \in 0 .. a - 1 /\ a % 10 \in 0 .. 9 /\ a = 10 * b + (a % 10)
    BY Shorter
  <2>3. CASE b = 0
    <3>1. LowFirst[b] = <<>>
      BY <2>3, LowFirstOfZero
    <3>2. n = 0
      BY <3>1
    <3>3. (a % 10) + Zero # Zero
      BY <2>2, <2>3 DEF Zero
    <3>4. Len(LowFirst[a]) = 1
      BY <2>1, <3>2
    <3> QED  BY <2>1, <3>3, <3>4
  <2>4. CASE b # 0
    <3>1. b \in 1 .. MaxInt /\ b \in S
      BY <1>0, <1>1, <2>2, <2>4
    <3>2. Good(b)
      BY <3>1
    <3>3. n \in 1 .. n /\ LowFirst[a][n + 1] = LowFirst[b][n]
      BY <2>1, <3>2
    <3> HIDE DEF b
    <3> QED  BY <2>1, <3>2, <3>3
  <2> QED  BY <2>3, <2>4
<1>2. \A a \in Nat : a \in S
  <2> HIDE DEF S
  <2> QED  BY <1>1, StrongInduction
<1> QED  BY <1>0, <1>2

(* No number up to c has more than k digits.                                *)
Fits(c, k) == \A a \in 0 .. c : a <= MaxInt => Len(LowFirst[a]) <= k

(* A digit more is enough for a number ten times as large.                  *)
LEMMA OneMoreDigit ==
  ASSUME NEW c \in Nat, NEW k \in Nat, Fits(c, k)
  PROVE  Fits(10 * c + 9, k + 1)
<1> SUFFICES ASSUME NEW a \in 0 .. 10 * c + 9, a <= MaxInt
             PROVE  Len(LowFirst[a]) <= k + 1
  BY DEF Fits
<1>0. MaxInt \in Int
  BY MaxIntIsNat
<1>1. CASE a = 0
  BY <1>1, LowFirstOfZero
<1>2. CASE a # 0
  <2>1. a \in 1 .. MaxInt
    BY <1>0, <1>2
  <2>2. /\ Len(LowFirst[a \div 10]) \in Nat
        /\ Len(LowFirst[a]) = Len(LowFirst[a \div 10]) + 1
        /\ a \div 10 \in 0 .. MaxInt
    BY <2>1, LowFirstStep
  <2>3. a \div 10 <= c
    OBVIOUS
  <2>4. Len(LowFirst[a \div 10]) <= k
    BY <1>0, <2>2, <2>3 DEF Fits
  <2> QED  BY <2>2, <2>4
<1> QED  BY <1>1, <1>2

(* An int has at most ten digits.                                           *)
LEMMA TenDigits == \A a \in 0 .. MaxInt : Len(LowFirst[a]) <= 10
<1>0. Fits(0, 0)
  <2>1. \A a \in 0 .. 0 : a = 0
    OBVIOUS
  <2> QED  BY <2>1, LowFirstOfZero DEF Fits
<1>1. Fits(9, 1)
  BY <1>0, OneMoreDigit, SMT
<1>2. Fits(99, 2)
  BY <1>1, OneMoreDigit, SMT
<1>3. Fits(999, 3)
  BY <1>2, OneMoreDigit, SMT
<1>4. Fits(9999, 4)
  BY <1>3, OneMoreDigit, SMT
<1>5. Fits(99999, 5)
  BY <1>4, OneMoreDigit, SMT
<1>6. Fits(999999, 6)
  BY <1>5, OneMoreDigit, SMT
<1>7. Fits(9999999, 7)
  BY <1>6, OneMoreDigit, SMT
<1>8. Fits(99999999, 8)
  BY <1>7, OneMoreDigit, SMT
<1>9. Fits(999999999, 9)
  BY <1>8, OneMoreDigit, SMT
<1> DEFINE top == 9999999999
<1>10. Fits(top, 10)
  BY <1>9, OneMoreDigit, SMT
<1>11. MaxInt \in Nat /\ top \in Nat /\ MaxInt <= top
  BY SMT DEF MaxInt
<1> HIDE DEF top
<1> QED  BY <1>10, <1>11 DEF Fits

(* The digits t of a number in their usual order, read from the left: what  *)
(* v has after all of them is the number.                                   *)
Reads(a, t, v) ==
  LET n == Len(LowFirst[a])
  IN /\ \A j \in 1 .. n : t[j] = LowFirst[a][n + 1 - j]
     /\ v[0] = 0
     /\ \A j \in 1 .. n : v[j] = 10 * v[j - 1] + (t[j] - Zero)

(* By induction over the number: without its lowest digit it is its tenth.  *)
LEMMA ReadFromTheLeft ==
  \A a \in 0 .. MaxInt : \A t, v : Reads(a, t, v) => v[Len(LowFirst[a])] = a
<1> DEFINE S == {a \in Nat : a <= MaxInt =>
                   \A t, v : Reads(a, t, v) => v[Len(LowFirst[a])] = a}
<1>0. MaxInt \in Int
  BY MaxIntIsNat
<1>1. ASSUME NEW a \in Nat, \A b \in 0 .. a - 1 : b \in S
      PROVE  a \in S
  <2> SUFFICES ASSUME a <= MaxInt, NEW t, NEW v, Reads(a, t, v)
               PROVE  v[Len(LowFirst[a])] = a
    OBVIOUS
  <2>1. CASE a = 0
    <3> QED  BY <2>1, LowFirstOfZero DEF Reads
  <2>2. CASE a # 0
    <3> DEFINE b == a \div 10
               n == Len(LowFirst[b])
    <3>1. /\ n \in Nat /\ Len(LowFirst[a]) = n + 1
          /\ LowFirst[a][1] = (a % 10) + Zero
          /\ \A j \in 1 .. n : LowFirst[a][j + 1] = LowFirst[b][j]
      BY <1>0, <2>2, LowFirstStep
    <3>2. b \in 0 .. a - 1 /\ a % 10 \in 0 .. 9 /\ a = 10 * b + (a % 10)
      BY <2>2, Shorter
    <3> HIDE DEF b, n
    <3>3. /\ \A j \in 1 .. n + 1 : t[j] = LowFirst[a][n + 2 - j]
          /\ v[0] = 0
          /\ \A j \in 1 .. n + 1 : v[j] = 10 * v[j - 1] + (t[j] - Zero)
      <4>1. (n + 1) + 1 = n + 2
        BY <3>1
      <4> QED  BY <3>1, <4>1 DEF Reads
    <3>4. ASSUME NEW j \in 1 .. n
          PROVE  t[j] = LowFirst[b][n + 1 - j]
      <4>1. /\ j \in 1 .. n + 1 /\ n + 1 - j \in 1 .. n
            /\ (n + 1 - j) + 1 = n + 2 - j
        BY <3>1
      <4> QED  BY <3>1, <3>3, <4>1
    <3>5. Reads(b, t, v)
      <4>1. \A j \in 1 .. n : j \in 1 .. n + 1
        BY <3>1
      <4> QED  BY <3>3, <3>4, <4>1 DEF Reads, n
    <3>6. v[n] = b
      <4>1. b \in S /\ b <= MaxInt
        BY <1>0, <1>1, <3>2
      <4> QED  BY <3>5, <4>1 DEF n
    <3>7. v[n + 1] = 10 * v[n] + (t[n + 1] - Zero) /\ t[n + 1] = LowFirst[a][1]
      <4>1. n + 1 \in 1 .. n + 1 /\ (n + 1) - 1 = n /\ n + 2 - (n + 1) = 1
        BY <3>1
      <4> QED  BY <3>3, <4>1
    <3> QED  BY <3>1, <3>2, <3>6, <3>7 DEF Zero
  <2> QED  BY <2>1, <2>2
<1>2. \A a \in Nat : a \in S
  <2> HIDE DEF S
  <2> QED  BY <1>1, StrongInduction
<1> QED  BY <1>0, <1>2


(* What read gets by reading s from the left.                               *)
LEMMA NumberOfDef ==
  ASSUME NEW s, Len(s) \in Nat
  PROVE  \E v : /\ v[0] = 0
                /\ \A j \in 1 .. Len(s) : v[j] = 10 * v[j - 1] + (s[j] - Zero)
                /\ NumberOf(s) = v[Len(s)]
<1> DEFINE Rec(k, f) ==
             f = [j \in 0 .. k |-> IF j = 0 THEN 0 ELSE 10 * f[j - 1] + (s[j] - Zero)]
           S == {k \in Nat : \E f : Rec(k, f)}
<1>1. 0 \in S
  <2> DEFINE f == [j \in 0 .. 0 |-> 0]
  <2>1. \A j \in 0 .. 0 : j = 0
    OBVIOUS
  <2>2. Rec(0, f)
    BY <2>1
  <2> QED  BY <2>2
<1>2. ASSUME NEW k \in Nat, k \in S
      PROVE  k + 1 \in S
  <2>1. PICK f : Rec(k, f)
    BY <1>2
  <2> DEFINE g == [j \in 0 .. k + 1 |->
                     IF j <= k THEN f[j] ELSE 10 * f[j - 1] + (s[j] - Zero)]
  <2>2. ASSUME NEW j \in 0 .. k + 1
        PROVE  g[j] = IF j = 0 THEN 0 ELSE 10 * g[j - 1] + (s[j] - Zero)
    <3>1. CASE j = 0
      BY <2>1, <3>1
    <3>2. CASE j # 0
      <4>1. g[j - 1] = f[j - 1]
        BY <3>2
      <4>2. j <= k => f[j] = 10 * f[j - 1] + (s[j] - Zero)
        BY <2>1, <3>2
      <4> QED  BY <3>2, <4>1, <4>2
    <3> QED  BY <3>1, <3>2
  <2>3. g = [j \in 0 .. k + 1 |-> g[j]]
    OBVIOUS
  <2> HIDE DEF g
  <2>4. Rec(k + 1, g)
    BY <2>2, <2>3
  <2> HIDE DEF Rec
  <2> QED  BY <2>4
<1>3. Len(s) \in S
  <2> HIDE DEF S
  <2> QED  BY <1>1, <1>2, Induction
<1>4. PICK v : Rec(Len(s), v) /\ NumberOf(s) = v[Len(s)]
  BY <1>3 DEF NumberOf
<1>5. v[0] = 0 /\ \A j \in 1 .. Len(s) : v[j] = 10 * v[j - 1] + (s[j] - Zero)
  BY <1>4
<1> QED  BY <1>4, <1>5

(* The second loop of itoa reverses the digits.                             *)
LEMMA ExchangedReverses ==
  ASSUME NEW b \in Seq(Digit)
  PROVE  /\ Exchanged(b) \in Seq(Digit)
         /\ Len(Exchanged(b)) = Len(b)
         /\ \A j \in 1 .. Len(b) : Exchanged(b)[j] = b[Len(b) + 1 - j]
<1> DEFINE n == Len(b)
<1>1. n \in Nat /\ \A j \in 1 .. n : b[j] \in Digit
  OBVIOUS
<1> HIDE DEF n
<1> DEFINE half == n \div 2
           e == [j \in 1 .. n |-> IF j <= half \/ n + 1 - j <= half THEN b[n + 1 - j] ELSE b[j]]
<1>2. Exchanged(b) = e
  BY DEF Exchanged, n
<1>3. ASSUME NEW j \in 1 .. n
      PROVE  e[j] = b[n + 1 - j] /\ n + 1 - j \in 1 .. n
  <2>1. ~ (j <= half \/ n + 1 - j <= half) => n + 1 - j = j
    BY <1>1
  <2> QED  BY <1>1, <2>1
<1>4. e \in Seq(Digit) /\ Len(e) = n
  <2>1. \A j \in 1 .. n : e[j] \in Digit
    BY <1>1, <1>3
  <2>2. e \in [1 .. n -> Digit]
    BY <2>1
  <2> HIDE DEF e
  <2> QED  BY <1>1, <2>2
<1> QED  BY <1>2, <1>3, <1>4 DEF n

(* strlen finds the end that itoa has set.                                  *)
LEMMA StrlenLemma ==
  ASSUME NEW b \in Seq(Digit)
  PROVE  strlen(Append(b, NUL)) = Len(b) /\ SubSeq(Append(b, NUL), 1, Len(b)) = b
<1> DEFINE s == Append(b, NUL)
           n == Len(b)
<1>1. /\ n \in Nat /\ Len(s) = n + 1 /\ s[n + 1] = NUL
      /\ \A j \in 1 .. n : s[j] = b[j] /\ b[j] \in Digit
  OBVIOUS
<1>2. \A j \in 1 .. n : s[j] # NUL
  BY <1>1 DEF Digit, Zero, NUL
<1>3. SubSeq(s, 1, n) = b
  OBVIOUS
<1> HIDE DEF s, n
<1>4. n \in 0 .. Len(s) - 1 /\ s[n + 1] = NUL /\ \A j \in 1 .. n : s[j] # NUL
  BY <1>1, <1>2
<1>5. ASSUME NEW m \in 0 .. Len(s) - 1, s[m + 1] = NUL
      PROVE  m = n
  <2>1. m + 1 \in 1 .. n + 1
    BY <1>1
  <2> QED  BY <1>1, <1>2, <1>5, <2>1
<1>6. strlen(s) = n
  BY <1>4, <1>5 DEF strlen
<1> QED  BY <1>3, <1>6 DEF s, n

(* The digits s are those of the number a, none of them superfluous.        *)
ReadsBack(s, a) ==
  /\ NumberOf(s) = a
  /\ \A j \in 1 .. Len(s) : s[j] - Zero \in 0 .. 9
  /\ Len(s) > 1 => s[1] # Zero
  /\ Len(s) + 1 <= 11

(* Zero is one digit.                                                       *)
LEMMA ZeroReadsBack ==
  ASSUME NEW s, Len(s) = 1, s[1] = Zero
  PROVE  ReadsBack(s, 0)
<1>1. PICK v : /\ v[0] = 0
               /\ \A j \in 1 .. Len(s) : v[j] = 10 * v[j - 1] + (s[j] - Zero)
               /\ NumberOf(s) = v[Len(s)]
  BY NumberOfDef
<1>2. v[1] = 10 * v[1 - 1] + (s[1] - Zero)
  BY <1>1
<1>3. v[1] = 0
  BY <1>1, <1>2 DEF Zero
<1> QED  BY <1>1, <1>3 DEF ReadsBack, Zero

(* Every other number is its digits in the opposite order of LowFirst.      *)
LEMMA DigitsReadBack ==
  ASSUME NEW a \in 1 .. MaxInt, NEW s \in Seq(Digit), Len(s) = Len(LowFirst[a]),
         \A j \in 1 .. Len(s) : s[j] = LowFirst[a][Len(s) + 1 - j]
  PROVE  ReadsBack(s, a)
<1>0. a \in 0 .. MaxInt
  BY MaxIntIsNat
<1> DEFINE n == Len(s)
<1>1. n \in Nat \ {0} /\ n <= 10 /\ LowFirst[a][n] # Zero
  BY <1>0, NoLeadingZero, TenDigits
<1>2. \A j \in 1 .. n : s[j] - Zero \in 0 .. 9
  <2>1. \A j \in 1 .. n : s[j] \in Digit
    OBVIOUS
  <2> QED  BY <2>1 DEF Digit, Zero
<1>3. s[1] # Zero
  <2>1. 1 \in 1 .. n /\ n + 1 - 1 = n
    BY <1>1
  <2> QED  BY <1>1, <2>1
<1>4. PICK v : /\ v[0] = 0
               /\ \A j \in 1 .. n : v[j] = 10 * v[j - 1] + (s[j] - Zero)
               /\ NumberOf(s) = v[n]
  BY <1>1, NumberOfDef
<1>5. Reads(a, s, v)
  BY <1>4 DEF Reads
<1>6. v[n] = a
  BY <1>0, <1>5, ReadFromTheLeft
<1> QED  BY <1>1, <1>2, <1>3, <1>4, <1>6 DEF ReadsBack

(* So what is sent of a number can be read back.                            *)
LEMMA PrintedDigits ==
  ASSUME NEW a \in 0 .. MaxInt
  PROVE  ReadsBack(SubSeq(itoa(a), 1, strlen(itoa(a))), a)
<1>0. MaxInt \in Int
  BY MaxIntIsNat
<1>1. CASE a = 0
  <2> DEFINE z == <<Zero>>
  <2>1. itoa(a) = Append(z, NUL) /\ z \in Seq(Digit) /\ Len(z) = 1 /\ z[1] = Zero
    BY <1>1 DEF itoa, Digit, Zero
  <2> HIDE DEF z
  <2>2. SubSeq(itoa(a), 1, strlen(itoa(a))) = z
    BY <2>1, StrlenLemma
  <2> QED  BY <1>1, <2>1, <2>2, ZeroReadsBack
<1>2. CASE a # 0
  <2> DEFINE b == LowFirst[a]
             e == Exchanged(b)
  <2>1. a \in 1 .. MaxInt /\ itoa(a) = Append(e, NUL)
    BY <1>0, <1>2 DEF itoa
  <2>2. b \in Seq(Digit)
    BY LowFirstType
  <2> HIDE DEF b
  <2>3. /\ e \in Seq(Digit) /\ Len(e) = Len(b)
        /\ \A j \in 1 .. Len(e) : e[j] = b[Len(e) + 1 - j]
    BY <2>2, ExchangedReverses
  <2> HIDE DEF e
  <2>4. SubSeq(itoa(a), 1, strlen(itoa(a))) = e
    BY <2>1, <2>3, StrlenLemma
  <2>5. ReadsBack(e, a)
    BY <2>1, <2>3, DigitsReadBack DEF b
  <2> QED  BY <2>4, <2>5
<1> QED  BY <1>1, <1>2


(* Only the printed number that is the last call is still there.            *)
PrintInv == call = "print" => pc = "user" /\ (len >= 0 => ReadsBack(sent, len))

(* No other call is printing, and printing is one step of user code.        *)
LEMMA NextPrintInv == PrintInv /\ [LibNext]_libVars => PrintInv'
<1> SUFFICES ASSUME PrintInv, [LibNext]_libVars PROVE PrintInv'
  OBVIOUS
<1>1. ASSUME NEW op \in {"write", "read"}, NEW fd, NEW a, NEW n, svc(op, fd, a, n)
      PROVE  PrintInv'
  <2>1. call' = op
    BY <1>1 DEF svc, sys_refuses, sys_write, sys_read, Enter
  <2> QED  BY <2>1 DEF PrintInv
<1>2. CASE kernel
  <2>1. pc # "user" /\ call' = call
    BY <1>2 DEF kernel, write_piece, write_last, read_byte, read_pass_end, read_resume,
                goes_astray, callVars
  <2> QED  BY <2>1 DEF PrintInv
<1>3. CASE stub_returns \/ perror_writes
  <2>1. pc # "user" /\ call' = call
    BY <1>3 DEF stub_returns, perror_writes, callVars
  <2> QED  BY <2>1 DEF PrintInv
<1>4. CASE \E s \in ErrorPrefixes : perror(s[1], s[2])
  <2>1. call' = "perror"
    BY <1>4 DEF perror
  <2> QED  BY <2>1 DEF PrintInv
<1>5. CASE \E v \in Numbers : print(v)
  <2> PICK v \in Numbers : print(v)
    BY <1>5
  <2>1. /\ pc' = "user" /\ len' = v
        /\ sent' = SubSeq(itoa(v), 1, strlen(itoa(v)))
    BY DEF print
  <2>2. v >= 0 => ReadsBack(SubSeq(itoa(v), 1, strlen(itoa(v))), v)
    <3> SUFFICES ASSUME v >= 0 PROVE v \in 0 .. MaxInt
      BY PrintedDigits
    <3>1. v \in Int /\ v <= MaxInt
      BY LibraryAssumption
    <3> QED  BY <3>1, MaxIntIsNat
  <2> QED  BY <2>1, <2>2 DEF PrintInv
<1>6. CASE \/ other_reads_and_interrupts
           \/ \E e \in OtherErrors : other_thread_fails(e)
           \/ halted \/ UNCHANGED libVars
  <2>1. UNCHANGED termVars
    BY <1>6 DEF other_reads_and_interrupts, uart_others, other_thread_fails, halted, libVars
  <2> QED  BY <2>1 DEF termVars, callVars, PrintInv
<1> QED  BY <1>1, <1>2, <1>3, <1>4, <1>5, <1>6 DEF LibNext

(* Every int that is not negative is printed as its digits, at most ten,    *)
(* without leading zeros (itoa, strlen).                                    *)
THEOREM NumbersAreReadBack == LibSpec => []NumbersReadBack
<1>1. LibInit => PrintInv
  BY DEF LibInit, TermInit, PrintInv
<1>2. PrintInv => NumbersReadBack
  BY DEF PrintInv, NumbersReadBack, ReadsBack
<1> QED  BY <1>1, <1>2, NextPrintInv, PTL DEF LibSpec
=============================================================================
