----------------------------- MODULE UserAccess -----------------------------
(***************************************************************************)
(* How the kernel reaches the memory of a user program (utils.c): the test *)
(* of the pointers a program passes, and copies of blocks of bytes.        *)
(***************************************************************************)
EXTENDS Integers, Sequences

CONSTANTS
  PAGE_SIZE, USER_FIRST_PAGE, NUM_PAG_CODE, NUM_PAG_DATA,
  AddressSpace      \* an unsigned long is taken modulo this

ASSUME UserAccessAssumption ==
  /\ PAGE_SIZE \in Nat \ {0} /\ USER_FIRST_PAGE \in Nat \ {0}
  /\ NUM_PAG_CODE \in Nat \ {0} /\ NUM_PAG_DATA \in Nat \ {0}
  /\ AddressSpace \in Nat
  /\ AddressSpace >= 2 * PAGE_SIZE * (USER_FIRST_PAGE + NUM_PAG_CODE + NUM_PAG_DATA + 1)

NULL == 0
CodeStart == USER_FIRST_PAGE * PAGE_SIZE
DataStart == CodeStart + NUM_PAG_CODE * PAGE_SIZE
DataEnd == DataStart + NUM_PAG_DATA * PAGE_SIZE

(* The pages of user code and data, and the first one of the heap.          *)
Address == CodeStart .. DataEnd + PAGE_SIZE - 1

(* Seeded fault: only the start of the block is tested.                     *)
StartBetween(first, a, n) ==
  a \div PAGE_SIZE \in first .. USER_FIRST_PAGE + NUM_PAG_CODE + NUM_PAG_DATA

(* A block of n bytes at a that starts in page first or behind it and, but  *)
(* for the end of it, in front of the page that follows the data.           *)
PagesBetween(first, a, n) ==
  /\ a \div PAGE_SIZE >= first
  /\ ((a + n) % AddressSpace) \div PAGE_SIZE <= USER_FIRST_PAGE + NUM_PAG_CODE + NUM_PAG_DATA

(* access_ok: the case for writing falls through to the one for reading.    *)
access_ok(type, a, n) ==
  \/ type = "VERIFY_WRITE" /\ PagesBetween(USER_FIRST_PAGE + NUM_PAG_CODE, a, n)
  \/ PagesBetween(USER_FIRST_PAGE, a, n)

(* copy_from_user: the n bytes of memory m at a.                            *)
copy_from_user(m, a, n) == [i \in 1 .. n |-> m[a + i - 1]]

(* copy_to_user: memory m after the bytes s were stored at a.               *)
copy_to_user(m, a, s) ==
  [x \in DOMAIN m |-> IF x \in a .. a + Len(s) - 1 THEN s[x - a + 1] ELSE m[x]]
=============================================================================
