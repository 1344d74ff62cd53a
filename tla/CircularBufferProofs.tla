------------------------ MODULE CircularBufferProofs ------------------------
(***************************************************************************)
(* Proofs about the circular buffer, for every size and every set of       *)
(* elements: its indices and its counter agree, and it implements a        *)
(* bounded first in, first out queue.                                      *)
(***************************************************************************)
EXTENDS CircularBuffer, ListLemmas

(* The inductive invariant: the types and the agreement of the counter.     *)
IInv == TypeOK /\ CounterAgrees

(* Wrap brings an index of at most twice the size back into the array.      *)
LEMMA WrapLemma == ASSUME NEW n \in 0 .. 2 * size - 1 PROVE Wrap(n) \in Slot
  BY BufferAssumption DEF Wrap, Slot

(* circularbIsEmpty and circularbIsFull look only at the indices; they say  *)
(* what the counter says.                                                   *)
LEMMA EmptyAndFull ==
  ASSUME IInv
  PROVE  /\ circularbIsEmpty <=> numelem = 0
         /\ circularbIsFull <=> numelem = size - 1
  BY BufferAssumption
     DEF IInv, TypeOK, CounterAgrees, Slot, Wrap, circularbIsEmpty, circularbIsFull

(* A write keeps the invariant.                                             *)
LEMMA WriteKeepsIInv ==
  ASSUME IInv, NEW e \in Element, circularbWrite(e)
  PROVE  IInv'
<1>1. CASE circularbIsFull
  BY <1>1 DEF circularbWrite, IInv, TypeOK, CounterAgrees, Slot, Wrap
<1>2. CASE ~ circularbIsFull
  <2>1. numelem + 1 \in Slot /\ Wrap(end + 1) \in Slot
    BY <1>2, EmptyAndFull, WrapLemma, BufferAssumption DEF IInv, TypeOK, Slot
  <2>2. TypeOK'
    BY <1>2, <2>1 DEF circularbWrite, IInv, TypeOK
  <2>3. CounterAgrees'
    BY <1>2, <2>1, BufferAssumption
       DEF circularbWrite, IInv, TypeOK, CounterAgrees, Slot, Wrap
  <2> QED BY <2>2, <2>3 DEF IInv
<1> QED BY <1>1, <1>2

(* A read keeps the invariant.                                              *)
LEMMA ReadKeepsIInv ==
  ASSUME IInv, circularbRead
  PROVE  IInv'
<1>1. numelem - 1 \in Slot /\ Wrap(start + 1) \in Slot
  BY EmptyAndFull, WrapLemma, BufferAssumption DEF IInv, TypeOK, Slot, circularbRead
<1>2. TypeOK'
  BY <1>1 DEF circularbRead, IInv, TypeOK
<1>3. CounterAgrees'
  BY <1>1, BufferAssumption DEF circularbRead, IInv, TypeOK, CounterAgrees, Slot, Wrap
<1> QED BY <1>2, <1>3 DEF IInv

(* Always: the indices are in the array, and the counter says how far apart *)
(* they are (circularbWrite, circularbRead).                                *)
THEOREM CounterIsExact == Spec => [](TypeOK /\ CounterAgrees)
<1>1. Init => IInv
  <2> SUFFICES ASSUME Init PROVE IInv
    OBVIOUS
  <2>1. /\ start \in Slot /\ end \in Slot /\ numelem \in Slot
        /\ CounterAgrees
    BY BufferAssumption DEF Init, CounterAgrees, Slot, Wrap
  <2> QED BY <2>1 DEF Init, IInv, TypeOK
<1>2. IInv /\ [Next]_vars => IInv'
  <2> SUFFICES ASSUME IInv, [Next]_vars PROVE IInv'
    OBVIOUS
  <2>1. CASE circularbRead
    BY <2>1, ReadKeepsIInv
  <2>2. ASSUME NEW e \in Element, circularbWrite(e) PROVE IInv'
    BY <2>2, WriteKeepsIInv
  <2>3. CASE UNCHANGED vars
    BY <2>3 DEF vars, IInv, TypeOK, CounterAgrees, Slot, Wrap
  <2> QED BY <2>1, <2>2, <2>3 DEF Next
<1>3. IInv => TypeOK /\ CounterAgrees
  BY DEF IInv
<1> QED BY <1>1, <1>2, <1>3, PTL DEF Spec

(* The abstract queue is a sequence with numelem elements.                  *)
ContentsOK == contents \in Seq(Element) /\ Len(contents) = numelem

(* The invariant makes contents well defined: every slot it names exists.   *)
LEMMA ContentsLemma == IInv => ContentsOK
<1> SUFFICES ASSUME IInv PROVE ContentsOK
  OBVIOUS
<1>1. numelem \in Nat /\ buffer \in [Slot -> Element]
  BY BufferAssumption DEF IInv, TypeOK, Slot
<1>2. ASSUME NEW i \in 1 .. numelem PROVE buffer[Wrap(start + i - 1)] \in Element
  <2>1. Wrap(start + i - 1) \in Slot
    BY BufferAssumption DEF IInv, TypeOK, Slot, Wrap
  <2> QED BY <1>1, <2>1
<1>3. contents \in [1 .. numelem -> Element]
  BY <1>2 DEF contents
<1> QED BY <1>1, <1>3 DEF ContentsOK

(* The same, in the next state.                                             *)
LEMMA ContentsLemmaNext == IInv' => ContentsOK'
  BY ContentsLemma, PTL

(* A write appends to the abstract queue, or is refused.                    *)
LEMMA WriteIsWrite ==
  ASSUME IInv, NEW e \in Element, circularbWrite(e)
  PROVE  Abstract!Write(e)
<1>1. contents \in Seq(Element) /\ Len(contents) = numelem
  BY ContentsLemma DEF ContentsOK
<1>2. CASE circularbIsFull
  <2>1. numelem = size - 1
    BY <1>2, EmptyAndFull
  <2>2. contents' = contents
    BY <1>2 DEF circularbWrite, contents, Wrap
  <2> QED BY <1>1, <1>2, <2>1, <2>2, BufferAssumption DEF circularbWrite, Abstract!Write
<1>3. CASE ~ circularbIsFull
  <2>1. numelem < size - 1
    BY <1>3, EmptyAndFull, BufferAssumption DEF IInv, TypeOK, Slot
  <2>2. /\ buffer' = [buffer EXCEPT ![end] = e]
        /\ numelem' = numelem + 1
        /\ start' = start
        /\ refused' = FALSE
        /\ element' = element
    BY <1>3 DEF circularbWrite
  <2>3. Wrap(start + numelem) = end
    BY DEF IInv, CounterAgrees
  <2>4. ASSUME NEW i \in 1 .. numelem
        PROVE  Wrap(start + i - 1) \in Slot /\ Wrap(start + i - 1) # end
    BY <2>1, <2>3, BufferAssumption DEF IInv, TypeOK, Slot, Wrap
  <2>5. contents' = [i \in 1 .. numelem + 1 |-> buffer'[Wrap(start + i - 1)]]
    BY <2>2 DEF contents, Wrap
  <2>6. ASSUME NEW i \in 1 .. numelem
        PROVE  buffer'[Wrap(start + i - 1)] = buffer[Wrap(start + i - 1)]
    BY <2>2, <2>4 DEF IInv, TypeOK
  <2>7. buffer'[Wrap(start + (numelem + 1) - 1)] = e
    BY <2>2, <2>3 DEF IInv, TypeOK, Slot
  <2>8. contents' = Append(contents, e)
    <3>1. IInv'
      BY WriteKeepsIInv
    <3>2. numelem \in Nat /\ numelem' = numelem + 1
      BY <2>2 DEF IInv, TypeOK, Slot
    <3>3. contents' \in Seq(Element) /\ Len(contents') = numelem + 1
      BY <3>1, <3>2, ContentsLemmaNext DEF ContentsOK
    <3>4. \A i \in 1 .. numelem : contents'[i] = contents[i]
      BY <2>5, <2>6, <3>2 DEF contents
    <3>5. contents'[numelem + 1] = e
      BY <2>5, <2>7, <3>2
    <3> HIDE DEF contents
    <3> QED BY <1>1, <3>3, <3>4, <3>5, IsAppend
  <2> QED BY <1>1, <2>1, <2>2, <2>8 DEF Abstract!Write
<1> QED BY <1>2, <1>3

(* A read takes the head of the abstract queue.                             *)
LEMMA ReadIsRead ==
  ASSUME IInv, circularbRead
  PROVE  Abstract!Read
<1>1. numelem \in Slot /\ numelem > 0
  BY EmptyAndFull DEF circularbRead, IInv, TypeOK, Slot
<1>2. /\ element' = buffer[start]
      /\ start' = Wrap(start + 1)
      /\ numelem' = numelem - 1
      /\ buffer' = buffer
      /\ refused' = refused
  BY DEF circularbRead
<1>3. contents # <<>> /\ Head(contents) = buffer[start]
  BY <1>1, BufferAssumption DEF contents, IInv, TypeOK, Slot, Wrap
<1>4. contents' = [i \in 1 .. numelem - 1 |-> buffer[Wrap(Wrap(start + 1) + i - 1)]]
  BY <1>2 DEF contents, Wrap
<1>5. ASSUME NEW i \in 1 .. numelem - 1
      PROVE  Wrap(Wrap(start + 1) + i - 1) = Wrap(start + (i + 1) - 1)
  BY <1>1, BufferAssumption DEF IInv, TypeOK, Slot, Wrap
<1>6. contents' = Tail(contents)
  <2>1. contents \in Seq(Element) /\ Len(contents) = numelem
    BY ContentsLemma DEF ContentsOK
  <2>2. IInv'
    BY ReadKeepsIInv
  <2>3. contents' \in Seq(Element) /\ Len(contents') = numelem - 1
    BY <1>2, <2>2, ContentsLemmaNext DEF ContentsOK
  <2>4. \A i \in 1 .. numelem - 1 : contents'[i] = contents[i + 1]
    <3>1. numelem \in Nat
      BY <1>1, BufferAssumption DEF Slot
    <3>2. \A i \in 1 .. numelem - 1 : contents'[i] = buffer[Wrap(start + (i + 1) - 1)]
      BY <3>1, <1>4, <1>5
    <3>3. \A j \in 1 .. numelem : contents[j] = buffer[Wrap(start + j - 1)]
      BY DEF contents
    <3>4. \A i \in 1 .. numelem - 1 : i + 1 \in 1 .. numelem
      BY <3>1
    <3> QED BY <3>2, <3>3, <3>4
  <2> QED BY <1>3, <2>1, <2>3, <2>4, IsTail
<1> QED BY <1>2, <1>3, <1>6 DEF Abstract!Read

(* The circular buffer is a bounded first in, first out queue: nothing it   *)
(* accepted is lost, duplicated or reordered when its indices wrap around   *)
(* (circularbWrite, circularbRead).                                         *)
THEOREM BufferIsQueue == Spec => IsBoundedQueue
<1>1. Init => Abstract!Init
  BY DEF Init, Abstract!Init, contents
<1>2. IInv /\ [Next]_vars => [Abstract!Next]_Abstract!vars
  <2> SUFFICES ASSUME IInv, [Next]_vars PROVE [Abstract!Next]_Abstract!vars
    OBVIOUS
  <2>1. CASE circularbRead
    BY <2>1, ReadIsRead DEF Abstract!Next
  <2>2. ASSUME NEW e \in Element, circularbWrite(e) PROVE Abstract!Next
    BY <2>2, WriteIsWrite DEF Abstract!Next
  <2>3. CASE UNCHANGED vars
    BY <2>3 DEF vars, Abstract!vars, contents, Wrap
  <2> QED BY <2>1, <2>2, <2>3 DEF Next
<1>3. Spec => []IInv
  BY CounterIsExact, PTL DEF IInv
<1> QED BY <1>1, <1>2, <1>3, PTL DEF Spec, Abstract!Spec, IsBoundedQueue
=============================================================================
