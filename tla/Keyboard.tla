------------------------------ MODULE Keyboard ------------------------------
(***************************************************************************)
(* Reading from the UART (devices.c, sys_read of sys.c).  Bytes arrive in  *)
(* interrupt_uart_routine, which only fills the circular buffer; a blocked *)
(* reader gets the CPU from sched_switch_process_RR and empties the buffer *)
(* itself.  The circular buffer (cbuffer.h) is the sequence of the bytes   *)
(* in it: CircularBuffer.tla shows that it behaves as one.                 *)
(***************************************************************************)
EXTENDS Sched

CONSTANTS
  UART_READ_BUFFER_SIZE,  \* slots of the circular buffer
  ReadSizes,              \* the sizes user programs pass to read
  MaxInput                \* bound on the bytes that arrive

ASSUME KeyboardAssumption ==
  /\ UART_READ_BUFFER_SIZE \in Nat \ {0}
  /\ ReadSizes \subseteq Nat \ {0}       \* sys_read returns -ESIZEB otherwise
  /\ MaxInput \in Nat

VARIABLES
  received,    \* history: how many bytes the buffer took; the nth one is n
  keybuffer    \* keybuffer[t]: what the last read of t put in its buffer

kbVars == <<received, keybuffer>>

KeyboardInit ==
  /\ kbinfo = [t \in Task |-> [keystoread |-> 0, keysread |-> 0]]
  /\ uart_read_buffer = <<>>
  /\ received = 0
  /\ keybuffer = [t \in Task |-> <<>>]

Byte == 1 .. MaxInput
-----------------------------------------------------------------------------
(* circularbIsFull: one slot always stays free.                             *)
BufferFull == Len(uart_read_buffer) >= UART_READ_BUFFER_SIZE - 1

(* The UART branch of interrupt_request_routine.  A byte that finds the     *)
(* buffer full is lost and changes nothing.                                 *)
interrupt_uart_routine ==
  /\ Interruptible
  /\ received < MaxInput
  /\ ~ BufferFull
  /\ uart_read_buffer' = Append(uart_read_buffer, received + 1)
  /\ received' = received + 1
  /\ UNCHANGED <<switchVars, kernel_lr, kbinfo, pidVars, keybuffer>>

(* How many bytes one pass of the while loop of sys_read_uart takes.        *)
Taken(want) ==
  IF want < Len(uart_read_buffer) THEN want ELSE Len(uart_read_buffer)

(* Seeded fault: keysread is set to the bytes of this pass, not increased.  *)
ReadPassForgetful(want, had, old) ==
  LET n    == Taken(want)
      rest == SubSeq(uart_read_buffer, n + 1, Len(uart_read_buffer))
      kb   == [kbinfo EXCEPT ![current] = [keystoread |-> want - n, keysread |-> n]]
  IN /\ kbinfo' = kb
     /\ uart_read_buffer' = rest
     /\ keybuffer' = [keybuffer EXCEPT
                        ![current] = old \o SubSeq(uart_read_buffer, 1, n)]
     /\ IF n = want
        THEN kernel_lr' = [kernel_lr EXCEPT ![current] = "user"] /\ UNCHANGED switchVars
        ELSE /\ kernel_lr' = [kernel_lr EXCEPT ![current] = "read"]
             /\ Yield(keyboardqueue, kb, rest, remaining_quantum)

(* One pass of the while loop of sys_read_uart for a reader that wants want *)
(* more bytes and already has the had bytes old: it returns, or goes back   *)
(* to the keyboard queue.                                                   *)
ReadPass(want, had, old) ==
  LET n    == Taken(want)
      rest == SubSeq(uart_read_buffer, n + 1, Len(uart_read_buffer))
      kb   == [kbinfo EXCEPT ![current] = [keystoread |-> want - n, keysread |-> had + n]]
  IN /\ kbinfo' = kb
     /\ uart_read_buffer' = rest
     /\ keybuffer' = [keybuffer EXCEPT
                        ![current] = old \o SubSeq(uart_read_buffer, 1, n)]
     /\ IF n = want
        THEN kernel_lr' = [kernel_lr EXCEPT ![current] = "user"] /\ UNCHANGED switchVars
        ELSE /\ kernel_lr' = [kernel_lr EXCEPT ![current] = "read"]
             /\ Yield(keyboardqueue, kb, rest, remaining_quantum)

(* sys_read with valid arguments, up to its return or its first task        *)
(* switch: behind other readers it waits for its turn.                      *)
sys_read(size) ==
  /\ InUser
  /\ IF queue[keyboardqueue] # <<>>
     THEN LET kb == [kbinfo EXCEPT ![current] = [keystoread |-> size, keysread |-> 0]]
          IN /\ kbinfo' = kb
             /\ keybuffer' = [keybuffer EXCEPT ![current] = <<>>]
             /\ kernel_lr' = [kernel_lr EXCEPT ![current] = "read"]
             /\ Yield(keyboardqueue, kb, uart_read_buffer, remaining_quantum)
             /\ UNCHANGED uart_read_buffer
     ELSE ReadPass(size, 0, <<>>)
  /\ UNCHANGED <<pidVars, received>>

(* The reader has the CPU again and goes on with its loop.                  *)
read_continue ==
  /\ kernel_lr[current] = "read"
  /\ ReadPass(kbinfo[current].keystoread, kbinfo[current].keysread, keybuffer[current])
  /\ UNCHANGED <<pidVars, received>>

KeyboardNext ==
  \/ interrupt_uart_routine
  \/ \E size \in ReadSizes : sys_read(size)
  \/ read_continue
-----------------------------------------------------------------------------
KeyboardTypeOK ==
  /\ kbinfo \in [Task -> [keystoread : Nat, keysread : Nat]]
  /\ uart_read_buffer \in Seq(Byte)
  /\ received \in 0 .. MaxInput
  /\ keybuffer \in [Task -> Seq(Byte)]
=============================================================================
