-------------------------- MODULE RingBufferProofs --------------------------
(***************************************************************************)
(* The device buffer keeps its three fields consistent, its contents the   *)
(* most recent elements, and never tears a copy without an overflow, for   *)
(* every set of sizes, every element width and every number of interrupts. *)
(***************************************************************************)
EXTENDS RingBuffer, TLAPS

-----------------------------------------------------------------------------
(***************************************************************************)
(* Index arithmetic: the slot k places after slot r of a ring of n.        *)
(***************************************************************************)
At(n, r, k) == (r + k) % n

\* Slots s of a ring of n hold, from slot r on, the c most recent of p elements.
Holds(n, r, c, s, p) == \A k \in 0 .. c - 1 : s[At(n, r, k)] = p - c + (k + 1)

\* Masking an index that is at most one size too far subtracts the size once.
LEMMA AtCases ==
  ASSUME NEW n \in Nat \ {0}, NEW r \in 0 .. n - 1, NEW k \in 0 .. n
  PROVE  At(n, r, k) = IF r + k < n THEN r + k ELSE r + k - n
<1>1. CASE r + k < n
  BY <1>1 DEF At
<1>2. CASE r + k >= n
  BY <1>2 DEF At
<1> QED
  BY <1>1, <1>2

\* An index lies in the ring.
LEMMA AtRange ==
  ASSUME NEW n \in Nat \ {0}, NEW r \in 0 .. n - 1, NEW k \in 0 .. n
  PROVE  At(n, r, k) \in 0 .. n - 1
BY AtCases

\* The ring closes after n places.
LEMMA AtEnds ==
  ASSUME NEW n \in Nat \ {0}, NEW r \in 0 .. n - 1
  PROVE  At(n, r, 0) = r /\ At(n, r, n) = r
<1>1. 0 \in 0 .. n /\ n \in 0 .. n
  OBVIOUS
<1> QED
  BY <1>1, AtCases

\* One step on from the k-th slot is the (k+1)-th.
LEMMA AtNext ==
  ASSUME NEW n \in Nat \ {0}, NEW r \in 0 .. n - 1, NEW k \in 0 .. n - 1
  PROVE  At(n, At(n, r, k), 1) = At(n, r, k + 1)
<1>1. At(n, r, k) = IF r + k < n THEN r + k ELSE r + k - n
  BY AtCases
<1>2. At(n, r, k + 1) = IF r + (k + 1) < n THEN r + (k + 1) ELSE r + (k + 1) - n
  BY AtCases, k + 1 \in 0 .. n
<1>3. /\ At(n, r, k) \in 0 .. n - 1
      /\ 1 \in 0 .. n
  BY <1>1
<1>4. At(n, At(n, r, k), 1)
        = IF At(n, r, k) + 1 < n THEN At(n, r, k) + 1 ELSE At(n, r, k) + 1 - n
  BY <1>3, AtCases
<1> QED
  BY <1>1, <1>2, <1>4

\* Counting from the next slot is counting one more.
LEMMA AtShift ==
  ASSUME NEW n \in Nat \ {0}, NEW r \in 0 .. n - 1, NEW k \in 0 .. n - 1
  PROVE  At(n, At(n, r, 1), k) = At(n, r, k + 1)
<1>1. At(n, r, 1) = IF r + 1 < n THEN r + 1 ELSE r + 1 - n
  BY AtCases, 1 \in 0 .. n
<1>2. At(n, r, k + 1) = IF r + (k + 1) < n THEN r + (k + 1) ELSE r + (k + 1) - n
  BY AtCases, k + 1 \in 0 .. n
<1>3. At(n, r, 1) \in 0 .. n - 1
  BY <1>1
<1>4. At(n, At(n, r, 1), k)
        = IF At(n, r, 1) + k < n THEN At(n, r, 1) + k ELSE At(n, r, 1) + k - n
  BY <1>3, AtCases
<1> QED
  BY <1>1, <1>2, <1>4

\* Different places of one round are different slots.
LEMMA AtDistinct ==
  ASSUME NEW n \in Nat \ {0}, NEW r \in 0 .. n - 1,
         NEW j \in 0 .. n - 1, NEW k \in 0 .. n - 1, j # k
  PROVE  At(n, r, j) # At(n, r, k)
<1>1. At(n, r, j) = IF r + j < n THEN r + j ELSE r + j - n
  BY AtCases
<1>2. At(n, r, k) = IF r + k < n THEN r + k ELSE r + k - n
  BY AtCases
<1> QED
  BY <1>1, <1>2

-----------------------------------------------------------------------------
(***************************************************************************)
(* The inductive invariant: every clause leans on another one.  The copy   *)
(* is intact because the write pointer is elsewhere (PointersAgree) as     *)
(* long as there is an element to read and room to write (NoUnderflow).    *)
(***************************************************************************)
IInv ==
  /\ TypeOK
  /\ PointersAgree
  /\ NoUnderflow
  /\ CopyIntact
  /\ MostRecent
  /\ MaskLeftOnlyByFailure

\* The invariant holds at first.
LEMMA InitIInv == Init => IInv
<1> SUFFICES ASSUME Init PROVE IInv
  OBVIOUS
<1> USE SizesAssumption, BytesAssumption, PutsAssumption
<1>1. PICK n \in Sizes : buf = BufSet(BufUnset, n)
  BY DEF Init
<1>2. /\ buf = [size |-> n, wptr |-> 0, rptr |-> 0, count |-> 0,
                slots |-> [i \in 0 .. n - 1 |-> 0]]
      /\ n \in Nat \ {0}
  BY <1>1 DEF BufSet, BufUnset
<1>3. TypeOK
  <2>1. /\ buf.slots \in [0 .. buf.size - 1 -> 0 .. puts]
        /\ item \in [1 .. Bytes -> 0 .. puts]
        /\ puts \in 0 .. MaxPuts
        /\ begun \in 0 .. puts
    BY <1>2 DEF Init
  <2>2. got \in Seq(0 .. puts) /\ Len(got) <= Bytes
    BY DEF Init
  <2>3. /\ buf.size \in Sizes
        /\ buf = [size  |-> buf.size, wptr |-> buf.wptr, rptr |-> buf.rptr,
                  count |-> buf.count, slots |-> buf.slots]
        /\ buf.count \in 0 .. buf.size
        /\ buf.wptr \in 0 .. buf.size - 1 /\ buf.rptr \in 0 .. buf.size - 1
        /\ buf.size # 0
    BY <1>2
  <2> QED
    BY <2>1, <2>2, <2>3 DEF Init, TypeOK
<1>4. PointersAgree
  BY <1>2 DEF PointersAgree
<1>5. MostRecent
  BY <1>2 DEF MostRecent
<1> QED
  BY <1>2, <1>3, <1>4, <1>5
     DEF Init, IInv, NoUnderflow, CopyIntact, MaskLeftOnlyByFailure

\* What the invariant says of a buffer that has memory, in terms of slots.
LEMMA BufferFacts ==
  ASSUME IInv, buf.size > 0
  PROVE  /\ buf.size \in Nat \ {0}
         /\ buf.count \in 0 .. buf.size
         /\ buf.wptr \in 0 .. buf.size - 1
         /\ buf.rptr \in 0 .. buf.size - 1
         /\ buf.slots \in [0 .. buf.size - 1 -> 0 .. puts]
         /\ puts \in Nat
         /\ buf.wptr = At(buf.size, buf.rptr, buf.count)
         /\ Holds(buf.size, buf.rptr, buf.count, buf.slots, puts)
<1> USE SizesAssumption, BytesAssumption, PutsAssumption
<1>1. /\ buf.size \in Nat \ {0}
      /\ buf.count \in 0 .. buf.size
      /\ buf.wptr \in 0 .. buf.size - 1
      /\ buf.rptr \in 0 .. buf.size - 1
      /\ buf.slots \in [0 .. buf.size - 1 -> 0 .. puts]
      /\ puts \in Nat
  BY DEF IInv, TypeOK
<1>2. buf.wptr = At(buf.size, buf.rptr, buf.count)
  BY DEF IInv, PointersAgree, At
<1>3. ASSUME NEW k \in 0 .. buf.count - 1
      PROVE  buf.slots[At(buf.size, buf.rptr, k)] = puts - buf.count + (k + 1)
  <2>1. k + 1 \in 1 .. buf.count /\ buf.rptr + (k + 1) - 1 = buf.rptr + k
    BY <1>1
  <2>2. BufContents(buf)[k + 1] = puts - buf.count + (k + 1)
    BY <2>1 DEF IInv, MostRecent
  <2>3. BufContents(buf)[k + 1]
          = buf.slots[(buf.rptr + (k + 1) - 1) % buf.size]
    BY <2>1 DEF BufContents
  <2> QED
    BY <2>1, <2>2, <2>3 DEF At
<1> QED
  BY <1>1, <1>2, <1>3 DEF Holds

\* The converse for the contents.
LEMMA ContentsFromSlots ==
  ASSUME NEW b, NEW p, b.count \in Nat, b.rptr \in Nat,
         Holds(b.size, b.rptr, b.count, b.slots, p)
  PROVE  \A i \in 1 .. b.count : BufContents(b)[i] = p - b.count + i
<1> SUFFICES ASSUME NEW i \in 1 .. b.count
             PROVE  BufContents(b)[i] = p - b.count + i
  OBVIOUS
<1>1. i - 1 \in 0 .. b.count - 1 /\ (i - 1) + 1 = i
      /\ b.rptr + (i - 1) = b.rptr + i - 1
  OBVIOUS
<1>2. BufContents(b)[i] = b.slots[(b.rptr + i - 1) % b.size]
  BY DEF BufContents
<1> QED
  BY <1>1, <1>2 DEF At, Holds

-----------------------------------------------------------------------------
\* Writing to a ring of n slots that holds the c most recent of p elements from
\* slot r on, with room for one more.
LEMMA WriteRoom ==
  ASSUME NEW n \in Nat \ {0}, NEW c \in 0 .. n - 1, NEW r \in 0 .. n - 1,
         NEW p \in Nat, NEW s \in [0 .. n - 1 -> 0 .. p],
         Holds(n, r, c, s, p)
  PROVE  /\ [s EXCEPT ![At(n, r, c)] = p + 1] \in [0 .. n - 1 -> 0 .. p + 1]
         /\ Holds(n, r, c + 1, [s EXCEPT ![At(n, r, c)] = p + 1], p + 1)
         /\ c > 0 => At(n, r, c) # r
<1> DEFINE w == At(n, r, c)
           s2 == [s EXCEPT ![w] = p + 1]
<1>1. w \in 0 .. n - 1 /\ 0 \in 0 .. n - 1
  BY c \in 0 .. n, AtRange
<1>2. /\ s2 \in [0 .. n - 1 -> 0 .. p + 1]
      /\ s2[w] = p + 1
      /\ \A q \in 0 .. n - 1 : q # w => s2[q] = s[q]
  BY <1>1
<1> HIDE DEF s2
<1>3. ASSUME NEW k \in 0 .. n - 1, k # c
      PROVE  s2[At(n, r, k)] = s[At(n, r, k)]
  <2>1. At(n, r, k) # w
    BY <1>3, AtDistinct
  <2>2. At(n, r, k) \in 0 .. n - 1
    BY k \in 0 .. n, AtRange
  <2> QED
    BY <1>2, <2>1, <2>2
<1>4. ASSUME NEW k \in 0 .. c
      PROVE  s2[At(n, r, k)] = (p + 1) - (c + 1) + (k + 1)
  <2>1. CASE k = c
    BY <1>2, <2>1
  <2>2. CASE k # c
    <3>1. k \in 0 .. n - 1 /\ k \in 0 .. c - 1
      BY <2>2
    <3> QED
      BY <1>3, <2>2, <3>1 DEF Holds
  <2> QED
    BY <2>1, <2>2
<1>5. ASSUME c > 0 PROVE w # r
  BY <1>1, <1>5, AtEnds, AtDistinct
<1> QED
  BY <1>2, <1>4, <1>5 DEF Holds, s2

\* The same when the ring is full: the first slot is the one written.
LEMMA WriteFull ==
  ASSUME NEW n \in Nat \ {0}, NEW r \in 0 .. n - 1,
         NEW p \in Nat, NEW s \in [0 .. n - 1 -> 0 .. p],
         Holds(n, r, n, s, p),
         NEW s2, s2 = [s EXCEPT ![r] = p + 1]
  PROVE  /\ s2 \in [0 .. n - 1 -> 0 .. p + 1]
         /\ Holds(n, At(n, r, 1), n, s2, p + 1)
<1>1. At(n, r, 0) = r /\ At(n, r, n) = r
  BY AtEnds
<1>2. /\ s2 \in [0 .. n - 1 -> 0 .. p + 1]
      /\ s2[r] = p + 1
      /\ \A q \in 0 .. n - 1 : q # r => s2[q] = s[q]
  OBVIOUS
<1>3. ASSUME NEW k \in 0 .. n - 1
      PROVE  s2[At(n, At(n, r, 1), k)] = (p + 1) - n + (k + 1)
  <2>1. At(n, At(n, r, 1), k) = At(n, r, k + 1)
    BY AtShift
  <2>2. CASE k = n - 1
    BY <1>1, <1>2, <2>1, <2>2
  <2>3. CASE k # n - 1
    <3>1. k + 1 \in 0 .. n - 1 /\ k + 1 # 0 /\ 0 \in 0 .. n - 1
          /\ k + 1 \in 0 .. n
      BY <2>3
    <3>2. At(n, r, k + 1) # At(n, r, 0)
      BY <3>1, AtDistinct
    <3>3. At(n, r, k + 1) \in 0 .. n - 1
      BY <3>1, AtRange
    <3>4. s[At(n, r, k + 1)] = p - n + ((k + 1) + 1)
      BY <3>1 DEF Holds
    <3> QED
      BY <1>1, <1>2, <2>1, <3>2, <3>3, <3>4
  <2> QED
    BY <2>2, <2>3
<1> QED
  BY <1>2, <1>3 DEF Holds

\* The handler may run at any of the main program's steps.
LEMMA InterruptIInv == IInv /\ Interrupt => IInv'
<1> SUFFICES ASSUME IInv, Interrupt PROVE IInv'
  OBVIOUS
<1> USE SizesAssumption, BytesAssumption, PutsAssumption
<1>1. buf.size > 0 /\ puts' = puts + 1
  BY DEF Interrupt
<1>2. /\ buf.size \in Nat \ {0} /\ buf.count \in 0 .. buf.size
      /\ buf.wptr \in 0 .. buf.size - 1 /\ buf.rptr \in 0 .. buf.size - 1
      /\ buf.slots \in [0 .. buf.size - 1 -> 0 .. puts]
      /\ puts \in Nat
      /\ buf.wptr = At(buf.size, buf.rptr, buf.count)
      /\ Holds(buf.size, buf.rptr, buf.count, buf.slots, puts)
  BY <1>1, BufferFacts
<1>3. /\ buf' = [size |-> buf'.size, wptr |-> buf'.wptr, rptr |-> buf'.rptr,
                 count |-> buf'.count, slots |-> buf'.slots]
      /\ buf'.size = buf.size
      /\ buf'.wptr = At(buf.size, buf.wptr, 1)
      /\ buf'.rptr = IF buf.count = buf.size THEN At(buf.size, buf.rptr, 1)
                                             ELSE buf.rptr
      /\ buf'.count = IF buf.count = buf.size THEN buf.count ELSE buf.count + 1
      /\ buf'.slots = [buf.slots EXCEPT ![buf.wptr] = puts + 1]
  BY DEF Interrupt, BufWrite, ModIncr, At
<1>4. /\ buf'.slots \in [0 .. buf.size - 1 -> 0 .. puts + 1]
      /\ buf'.count \in 1 .. buf.size
      /\ buf'.rptr \in 0 .. buf.size - 1
      /\ buf'.wptr \in 0 .. buf.size - 1
      /\ buf'.wptr = At(buf.size, buf'.rptr, buf'.count)
      /\ Holds(buf.size, buf'.rptr, buf'.count, buf'.slots, puts + 1)
      /\ buf.count # buf.size /\ buf.count > 0
           => buf'.slots[buf.rptr] = buf.slots[buf.rptr]
  <2>1. 1 \in 0 .. buf.size /\ buf'.wptr \in 0 .. buf.size - 1
    <3>1. 1 \in 0 .. buf.size
      BY <1>2
    <3>2. At(buf.size, buf.wptr, 1) \in 0 .. buf.size - 1
      BY <1>2, <3>1, AtRange
    <3> QED
      BY <1>3, <3>1, <3>2
  <2>2. CASE buf.count = buf.size
    <3>1. buf.wptr = buf.rptr
      BY <1>2, <2>2, AtEnds
    <3>2. /\ buf'.count = buf.size
          /\ buf'.rptr = At(buf.size, buf.rptr, 1)
          /\ buf'.wptr = buf'.rptr
          /\ buf'.slots = [buf.slots EXCEPT ![buf.rptr] = puts + 1]
      BY <1>3, <2>2, <3>1
    <3>3. buf'.wptr = At(buf.size, buf'.rptr, buf'.count)
      BY <1>2, <2>1, <3>2, AtEnds
    <3>4. /\ buf'.slots \in [0 .. buf.size - 1 -> 0 .. puts + 1]
          /\ Holds(buf.size, At(buf.size, buf.rptr, 1), buf.size,
                   buf'.slots, puts + 1)
      BY <1>2, <2>2, <3>2, WriteFull
    <3> QED
      BY <1>2, <2>1, <2>2, <3>2, <3>3, <3>4
  <2>3. CASE buf.count # buf.size
    <3>1. /\ buf.count \in 0 .. buf.size - 1
          /\ buf'.count = buf.count + 1
          /\ buf'.rptr = buf.rptr
          /\ buf'.slots = [buf.slots EXCEPT ![buf.wptr] = puts + 1]
      BY <1>2, <1>3, <2>3
    <3>2. buf'.wptr = At(buf.size, buf'.rptr, buf'.count)
      BY <1>2, <1>3, <3>1, AtNext, SMTT(30)
    <3>3. /\ buf'.slots \in [0 .. buf.size - 1 -> 0 .. puts + 1]
          /\ Holds(buf.size, buf.rptr, buf.count + 1, buf'.slots, puts + 1)
          /\ buf.count > 0 => buf'.slots[buf.rptr] = buf.slots[buf.rptr]
      <4> DEFINE s2 == [buf.slots EXCEPT ![At(buf.size, buf.rptr, buf.count)]
                                           = puts + 1]
      <4>1. /\ s2 \in [0 .. buf.size - 1 -> 0 .. puts + 1]
            /\ Holds(buf.size, buf.rptr, buf.count + 1, s2, puts + 1)
            /\ buf.count > 0 => buf.wptr # buf.rptr
        BY <1>2, <3>1, WriteRoom
      <4>2. buf'.slots = s2
        BY <1>2, <3>1
      <4>3. buf.count > 0 => buf'.slots[buf.rptr] = buf.slots[buf.rptr]
        BY <1>2, <3>1, <4>1
      <4> QED
        BY <4>1, <4>2, <4>3
    <3> QED
      BY <1>2, <2>1, <2>3, <3>1, <3>2, <3>3
  <2> QED
    BY <2>2, <2>3
<1>5. TypeOK'
  <2>1. got \in Seq(0 .. puts') /\ item \in [1 .. Bytes -> 0 .. puts']
    <3>1. 0 .. puts \subseteq 0 .. puts'
      BY <1>1, <1>2
    <3>2. got \in Seq(0 .. puts)
      BY DEF IInv, TypeOK
    <3>3. item \in [1 .. Bytes -> 0 .. puts]
      BY DEF IInv, TypeOK
    <3>4. got \in Seq(0 .. puts')
      BY <1>1, <1>2, <3>2
    <3>5. item \in [1 .. Bytes -> 0 .. puts']
      BY <3>1, <3>3
    <3> QED
      BY <3>4, <3>5
  <2>2. puts' \in 0 .. MaxPuts /\ begun' \in 0 .. puts'
    BY <1>1, <1>2 DEF Interrupt, IInv, TypeOK
  <2>3. /\ buf.size \in Sizes /\ ie' \in BOOLEAN /\ overtaken' \in BOOLEAN
        /\ pc' \in {"idle", "address", "copy"} /\ src' \in Nat
        /\ (pc' = "copy" => src' < buf.size)
        /\ got' = got /\ item' = item /\ Len(got) <= Bytes
    BY <1>2 DEF Interrupt, IInv, TypeOK
  <2>4. buf'.count \in 0 .. buf'.size /\ buf'.size # 0
    BY <1>2, <1>3, <1>4
  <2> QED
    BY <1>1, <1>3, <1>4, <2>1, <2>2, <2>3, <2>4 DEF TypeOK
<1>6. PointersAgree'
  BY <1>3, <1>4 DEF PointersAgree, At
<1>7. NoUnderflow'
  BY <1>3, <1>4 DEF IInv, NoUnderflow, Interrupt
<1>8. CopyIntact'
  <2> SUFFICES ASSUME pc = "copy", \lnot overtaken'
               PROVE  /\ src = buf'.rptr
                      /\ buf'.slots[src] = begun
                      /\ \A i \in 1 .. Len(got) : got[i] = begun
    BY DEF CopyIntact, Interrupt
  <2>1. \lnot overtaken /\ buf.count # buf.size
    BY DEF Interrupt, Full, IInv, TypeOK
  <2>2. /\ buf.count > 0 /\ src = buf.rptr /\ buf.slots[src] = begun
        /\ \A i \in 1 .. Len(got) : got[i] = begun
    BY <2>1 DEF IInv, NoUnderflow, CopyIntact
  <2> QED
    BY <1>3, <1>4, <2>1, <2>2
<1>9. MostRecent'
  <2>1. buf'.count \in Nat /\ buf'.rptr \in Nat
    BY <1>2, <1>4
  <2>2. Holds(buf'.size, buf'.rptr, buf'.count, buf'.slots, puts')
    BY <1>1, <1>3, <1>4
  <2> QED
    BY <2>1, <2>2, ContentsFromSlots DEF MostRecent
<1>10. MaskLeftOnlyByFailure'
  BY DEF IInv, MaskLeftOnlyByFailure, Interrupt
<1> QED
  BY <1>5, <1>6, <1>7, <1>8, <1>9, <1>10 DEF IInv

-----------------------------------------------------------------------------
\* The unlocked steps of buf_read touch only locals.
LEMMA ReadCheckIInv == IInv /\ ReadCheck => IInv'
<1> SUFFICES ASSUME IInv, ReadCheck PROVE IInv'
  OBVIOUS
<1>1. /\ buf' = buf /\ puts' = puts /\ ie' = ie /\ pc' = "address"
      /\ src' = src /\ got' = got /\ item' = item /\ begun' = begun
      /\ overtaken' = overtaken /\ pc = "idle" /\ buf.count # 0
  BY DEF ReadCheck
<1>2. TypeOK' /\ PointersAgree' /\ MostRecent'
  BY <1>1 DEF IInv, TypeOK, PointersAgree, MostRecent
<1>3. buf.size > 0 /\ buf.count > 0
  BY <1>1, SizesAssumption DEF IInv, TypeOK
<1> QED
  BY <1>1, <1>2, <1>3
     DEF IInv, NoUnderflow, CopyIntact, MaskLeftOnlyByFailure

\* The reader takes the address of the oldest element.
LEMMA ReadAddressIInv == IInv /\ ReadAddress => IInv'
<1> SUFFICES ASSUME IInv, ReadAddress PROVE IInv'
  OBVIOUS
<1>1. /\ buf' = buf /\ puts' = puts /\ ie' = ie /\ pc' = "copy"
      /\ src' = buf.rptr /\ got' = <<>> /\ item' = item
      /\ begun' = buf.slots[buf.rptr]
      /\ overtaken' = overtaken /\ pc = "address"
  BY DEF ReadAddress
<1>2. buf.count > 0 /\ ie
  BY <1>1 DEF IInv, NoUnderflow
<1>3. /\ buf.size > 0 /\ buf.rptr \in 0 .. buf.size - 1
      /\ buf.slots[buf.rptr] \in 0 .. puts
  BY <1>2, SizesAssumption DEF IInv, TypeOK
<1>4. got' \in Seq(0 .. puts) /\ Len(got') <= Bytes /\ Len(got') = 0
  BY <1>1, BytesAssumption
<1>5. TypeOK' /\ PointersAgree' /\ MostRecent'
  <2>1. src' \in Nat /\ src' < buf.size
    BY <1>1, <1>3, SizesAssumption DEF IInv, TypeOK
  <2>2. TypeOK'
    BY <1>1, <1>3, <1>4, <2>1 DEF IInv, TypeOK
  <2> QED
    BY <1>1, <2>2 DEF IInv, PointersAgree, MostRecent
<1>6. CopyIntact'
  BY <1>1, <1>4 DEF CopyIntact
<1> QED
  BY <1>1, <1>2, <1>5, <1>6 DEF IInv, NoUnderflow, MaskLeftOnlyByFailure

\* The reader copies a byte.
LEMMA ReadByteIInv == IInv /\ ReadByte => IInv'
<1> SUFFICES ASSUME IInv, ReadByte PROVE IInv'
  OBVIOUS
<1>1. /\ buf' = buf /\ puts' = puts /\ ie' = ie /\ pc' = pc
      /\ src' = src /\ got' = Append(got, buf.slots[src]) /\ item' = item
      /\ begun' = begun /\ overtaken' = overtaken /\ pc = "copy"
      /\ Len(got) < Bytes
  BY DEF ReadByte
<1>2. buf.slots[src] \in 0 .. puts
  <2>1. src \in 0 .. buf.size - 1
    BY <1>1, SizesAssumption DEF IInv, TypeOK
  <2> QED
    BY <2>1 DEF IInv, TypeOK
<1>3. got \in Seq(0 .. puts) /\ Bytes \in Nat
  BY BytesAssumption DEF IInv, TypeOK
<1>4. /\ got' \in Seq(0 .. puts)
      /\ Len(got') = Len(got) + 1
      /\ \A i \in 1 .. Len(got) : got'[i] = got[i]
      /\ got'[Len(got) + 1] = buf.slots[src]
  BY <1>1, <1>2, <1>3
<1>5. TypeOK' /\ PointersAgree' /\ MostRecent'
  <2>1. Len(got') <= Bytes
    BY <1>1, <1>3, <1>4
  <2> QED
    BY <1>1, <1>4, <2>1 DEF IInv, TypeOK, PointersAgree, MostRecent
<1>6. CopyIntact'
  <2> SUFFICES ASSUME \lnot overtaken, NEW i \in 1 .. Len(got')
               PROVE  /\ src = buf.rptr
                      /\ buf.slots[src] = begun
                      /\ got'[i] = begun
    BY <1>1, <1>3, <1>4 DEF IInv, CopyIntact
  <2>1. /\ src = buf.rptr /\ buf.slots[src] = begun
        /\ \A j \in 1 .. Len(got) : got[j] = begun
    BY <1>1 DEF IInv, CopyIntact
  <2>2. i \in 1 .. Len(got) \/ i = Len(got) + 1
    BY <1>3, <1>4
  <2> QED
    BY <1>4, <2>1, <2>2
<1> QED
  BY <1>1, <1>5, <1>6 DEF IInv, NoUnderflow, MaskLeftOnlyByFailure

\* Giving up the first of c elements leaves the c - 1 most recent ones.
LEMMA ConsumeSlots ==
  ASSUME NEW n \in Nat \ {0}, NEW c \in 1 .. n, NEW r \in 0 .. n - 1,
         NEW p \in Nat, NEW s \in [0 .. n - 1 -> 0 .. p],
         Holds(n, r, c, s, p)
  PROVE  /\ Holds(n, At(n, r, 1), c - 1, s, p)
         /\ At(n, At(n, r, 1), c - 1) = At(n, r, c)
         /\ At(n, r, 1) \in 0 .. n - 1
<1>1. ASSUME NEW k \in 0 .. (c - 1) - 1
      PROVE  s[At(n, At(n, r, 1), k)] = p - (c - 1) + (k + 1)
  <2>1. k \in 0 .. n - 1 /\ k + 1 \in 0 .. c - 1
    OBVIOUS
  <2>2. s[At(n, r, k + 1)] = p - c + ((k + 1) + 1)
    BY <2>1 DEF Holds
  <2> QED
    BY <2>1, <2>2, AtShift, SMTT(30)
<1>2. At(n, At(n, r, 1), c - 1) = At(n, r, (c - 1) + 1)
  BY c - 1 \in 0 .. n - 1, AtShift
<1>3. At(n, r, 1) \in 0 .. n - 1
  BY 1 \in 0 .. n, AtRange
<1> QED
  BY <1>1, <1>2, <1>3 DEF Holds

\* The locked tail of buf_read.
LEMMA ReadCommitIInv == IInv /\ ReadCommit => IInv'
<1> SUFFICES ASSUME IInv, ReadCommit PROVE IInv'
  OBVIOUS
<1>1. /\ puts' = puts /\ ie' = TRUE /\ pc' = "idle" /\ src' = 0
      /\ got' = <<>> /\ item' = got /\ begun' = 0 /\ overtaken' = FALSE
      /\ pc = "copy" /\ Len(got) = Bytes
  BY DEF ReadCommit
<1>2. buf.size > 0 /\ buf.count > 0
  BY <1>1, SizesAssumption DEF IInv, TypeOK, NoUnderflow
<1>3. /\ buf.size \in Nat \ {0} /\ buf.count \in 1 .. buf.size
      /\ buf.wptr \in 0 .. buf.size - 1 /\ buf.rptr \in 0 .. buf.size - 1
      /\ buf.slots \in [0 .. buf.size - 1 -> 0 .. puts]
      /\ puts \in Nat
      /\ buf.wptr = At(buf.size, buf.rptr, buf.count)
      /\ Holds(buf.size, buf.rptr, buf.count, buf.slots, puts)
  BY <1>2, BufferFacts
<1>4. /\ buf' = [size |-> buf'.size, wptr |-> buf'.wptr, rptr |-> buf'.rptr,
                 count |-> buf'.count, slots |-> buf'.slots]
      /\ buf'.size = buf.size
      /\ buf'.wptr = buf.wptr
      /\ buf'.rptr = At(buf.size, buf.rptr, 1)
      /\ buf'.count = buf.count - 1
      /\ buf'.slots = buf.slots
  BY DEF ReadCommit, BufConsume, ModIncr, At
<1>5. /\ Holds(buf.size, At(buf.size, buf.rptr, 1), buf.count - 1,
               buf.slots, puts)
      /\ At(buf.size, At(buf.size, buf.rptr, 1), buf.count - 1)
           = At(buf.size, buf.rptr, buf.count)
      /\ At(buf.size, buf.rptr, 1) \in 0 .. buf.size - 1
  BY <1>3, ConsumeSlots
<1>6. TypeOK'
  <2>1. got' \in Seq(0 .. puts) /\ Len(got') <= Bytes
    BY <1>1, BytesAssumption
  <2>2. got \in [1 .. Bytes -> 0 .. puts]
    BY <1>1 DEF IInv, TypeOK
  <2>3. buf'.count \in 0 .. buf'.size /\ buf'.size \in Sizes /\ buf'.size # 0
    BY <1>3, <1>4 DEF IInv, TypeOK
  <2>4. puts \in 0 .. MaxPuts /\ 0 \in 0 .. puts
    BY <1>3 DEF IInv, TypeOK
  <2> QED
    BY <1>1, <1>3, <1>4, <1>5, <2>1, <2>2, <2>3, <2>4 DEF TypeOK
<1>7. PointersAgree'
  BY <1>3, <1>4, <1>5 DEF PointersAgree, At
<1>8. MostRecent'
  <2>1. buf'.count \in Nat /\ buf'.rptr \in Nat
    BY <1>3, <1>4, <1>5
  <2>2. Holds(buf'.size, buf'.rptr, buf'.count, buf'.slots, puts')
    BY <1>1, <1>4, <1>5
  <2> QED
    BY <2>1, <2>2, ContentsFromSlots DEF MostRecent
<1> QED
  BY <1>1, <1>6, <1>7, <1>8
     DEF IInv, NoUnderflow, CopyIntact, MaskLeftOnlyByFailure

\* Interrupts are masked around buf_set and buf_flush, so resizing is one step.
LEMMA SetupIInv ==
  ASSUME IInv, NEW n \in Sizes, Setup(n) \/ SetupFails(n)
  PROVE  IInv'
<1>1. /\ puts' = puts /\ pc' = "idle" /\ src' = src /\ got' = got
      /\ item' = item /\ begun' = begun /\ overtaken' = overtaken
  BY DEF Setup, SetupFails
<1>2. n \in Nat \ {0} /\ puts \in Nat
  BY SizesAssumption DEF IInv, TypeOK
<1>3. CASE Setup(n)
  <2>1. /\ buf' = [size |-> n, wptr |-> 0, rptr |-> 0, count |-> 0,
                   slots |-> [i \in 0 .. n - 1 |->
                                IF i < buf.size THEN buf.slots[i] ELSE 0]]
        /\ ie' = TRUE
    BY <1>3 DEF Setup, BufFlush, BufSet
  <2>2. \A i \in 0 .. n - 1 :
           (IF i < buf.size THEN buf.slots[i] ELSE 0) \in 0 .. puts
    <3> SUFFICES ASSUME NEW i \in 0 .. n - 1, i < buf.size
                 PROVE  buf.slots[i] \in 0 .. puts
      BY <1>2
    <3>1. i \in 0 .. buf.size - 1
      BY SizesAssumption DEF IInv, TypeOK
    <3> QED
      BY <3>1 DEF IInv, TypeOK
  <2>3. buf'.slots \in [0 .. n - 1 -> 0 .. puts]
    BY <2>1, <2>2
  <2>4. /\ buf' = [size |-> buf'.size, wptr |-> buf'.wptr, rptr |-> buf'.rptr,
                   count |-> buf'.count, slots |-> buf'.slots]
        /\ buf'.size = n /\ buf'.wptr = 0 /\ buf'.rptr = 0 /\ buf'.count = 0
        /\ 0 \in 0 .. n - 1 /\ 0 \in 0 .. n
    BY <1>2, <2>1
  <2>5. TypeOK'
    BY <1>1, <1>2, <2>1, <2>3, <2>4 DEF IInv, TypeOK
  <2>6. PointersAgree' /\ MostRecent'
    BY <1>2, <2>4 DEF PointersAgree, MostRecent
  <2> QED
    BY <1>1, <2>1, <2>5, <2>6
       DEF IInv, NoUnderflow, CopyIntact, MaskLeftOnlyByFailure
<1>4. CASE SetupFails(n)
  <2>1. /\ buf' = [size |-> 0, wptr |-> 0, rptr |-> 0, count |-> 0,
                   slots |-> [i \in {} |-> 0]]
        /\ ie' \in BOOLEAN
    BY <1>4 DEF SetupFails, BufSetFailed, BufUnset
  <2>2. buf'.size = 0 /\ buf'.wptr = 0 /\ buf'.rptr = 0 /\ buf'.count = 0
        /\ buf' = [size |-> buf'.size, wptr |-> buf'.wptr, rptr |-> buf'.rptr,
                   count |-> buf'.count, slots |-> buf'.slots]
        /\ buf'.slots = [i \in {} |-> 0]
    BY <2>1
  <2>3. buf'.slots \in [0 .. buf'.size - 1 -> 0 .. puts]
    <3>1. 0 .. buf'.size - 1 = {}
      BY <2>2
    <3> QED
      BY <2>2, <3>1
  <2>4. TypeOK'
    <3>1. buf'.count \in 0 .. buf'.size
      BY <2>2
    <3>3. ie' \in BOOLEAN
      BY <2>1
    <3>2. /\ src \in Nat /\ got \in Seq(0 .. puts) /\ Len(got) <= Bytes
          /\ puts \in 0 .. MaxPuts /\ item \in [1 .. Bytes -> 0 .. puts]
          /\ begun \in 0 .. puts /\ overtaken \in BOOLEAN
      BY DEF IInv, TypeOK
    <3> QED
      BY <1>1, <2>2, <2>3, <3>1, <3>2, <3>3 DEF TypeOK
  <2>5. PointersAgree' /\ MostRecent'
    BY <2>2 DEF PointersAgree, MostRecent
  <2> QED
    BY <1>1, <2>1, <2>2, <2>4, <2>5
       DEF IInv, NoUnderflow, CopyIntact, MaskLeftOnlyByFailure
<1> QED
  BY <1>3, <1>4

\* Every step keeps the invariant.
LEMMA NextIInv == IInv /\ [Next]_vars => IInv'
<1> SUFFICES ASSUME IInv, [Next]_vars PROVE IInv'
  OBVIOUS
<1>1. CASE Interrupt
  BY <1>1, InterruptIInv
<1>2. CASE ReadCheck
  BY <1>2, ReadCheckIInv
<1>3. CASE ReadAddress
  BY <1>3, ReadAddressIInv
<1>4. CASE ReadByte
  BY <1>4, ReadByteIInv
<1>5. CASE ReadCommit
  BY <1>5, ReadCommitIInv
<1>6. CASE \E n \in Sizes : Setup(n) \/ SetupFails(n)
  BY <1>6, SetupIInv
<1>7. CASE UNCHANGED vars
  BY <1>7 DEF vars, IInv, TypeOK, PointersAgree, NoUnderflow, CopyIntact,
              MostRecent, MaskLeftOnlyByFailure
<1> QED
  BY <1>1, <1>2, <1>3, <1>4, <1>5, <1>6, <1>7 DEF Next, Read

-----------------------------------------------------------------------------
\* The buffer's fields keep their types whatever the handler interrupts.
THEOREM TypeCorrect == Spec => []TypeOK
<1>1. IInv => TypeOK
  BY DEF IInv
<1> QED
  BY InitIInv, NextIInv, <1>1, PTL DEF Spec

\* Pointers and count always describe one queue, for every size.
THEOREM PointersAlwaysAgree == Spec => []PointersAgree
<1>1. IInv => PointersAgree
  BY DEF IInv
<1> QED
  BY InitIInv, NextIInv, <1>1, PTL DEF Spec

\* A read that found an element never consumes from an empty buffer.
THEOREM NeverUnderflows == Spec => []NoUnderflow
<1>1. IInv => NoUnderflow
  BY DEF IInv
<1> QED
  BY InitIInv, NextIInv, <1>1, PTL DEF Spec

\* Without an overflow the unlocked copy reads one untouched element.
THEOREM CopyTornOnlyByOverflow == Spec => []CopyIntact
<1>1. IInv => CopyIntact
  BY DEF IInv
<1> QED
  BY InitIInv, NextIInv, <1>1, PTL DEF Spec

\* The buffer always holds the most recent elements, in order, without gaps.
THEOREM HoldsMostRecent == Spec => []MostRecent
<1>1. IInv => MostRecent
  BY DEF IInv
<1> QED
  BY InitIInv, NextIInv, <1>1, PTL DEF Spec

\* Only a failed allocation leaves interrupts masked.
THEOREM MaskReleased == Spec => []MaskLeftOnlyByFailure
<1>1. IInv => MaskLeftOnlyByFailure
  BY DEF IInv
<1> QED
  BY InitIInv, NextIInv, <1>1, PTL DEF Spec

-----------------------------------------------------------------------------
(***************************************************************************)
(* The device buffer with its two unsynchronised users implements the      *)
(* queue of LossyFifo: every step of RingBuffer is a step of the queue or  *)
(* leaves it alone.                                                        *)
(***************************************************************************)
(***************************************************************************)
(* What the mapping needs beyond IInv: no more elements are stored than    *)
(* were written; a get is begun exactly while the bytes are copied; and    *)
(* what is copied is never older than the element the get began with,      *)
(* since the handler only ever puts newer ones in its place.               *)
(***************************************************************************)
GetInv ==
  /\ buf.count <= puts
  /\ begun # 0 <=> pc = "copy"
  /\ pc = "copy" => /\ begun <= buf.slots[src]
                    /\ \A i \in 1 .. Len(got) : begun <= got[i]

RInv == IInv /\ GetInv

\* The queue the buffer stands for: count consecutive numbers, up to puts.
Recent(c, p) == [i \in 1 .. c |-> p - c + i]

\* The contents are that queue, and its first element is in the slot of rptr.
LEMMA ContentsAreRecent ==
  ASSUME RInv
  PROVE  /\ buf.size \in Nat /\ buf.count \in 0 .. buf.size /\ puts \in Nat
         /\ buf.count <= puts
         /\ BufContents(buf) = Recent(buf.count, puts)
         /\ buf.count > 0 => buf.slots[buf.rptr] = puts - buf.count + 1
<1> USE SizesAssumption, PutsAssumption
<1>1. /\ buf.size \in Nat /\ buf.count \in 0 .. buf.size /\ puts \in Nat
      /\ buf.count <= puts
  BY DEF RInv, IInv, TypeOK, GetInv
<1>2. \A i \in 1 .. buf.count : BufContents(buf)[i] = puts - buf.count + i
  BY DEF RInv, IInv, MostRecent
<1>3. BufContents(buf) = Recent(buf.count, puts)
  BY <1>2 DEF BufContents, Recent
<1>4. ASSUME buf.count > 0 PROVE buf.slots[buf.rptr] = puts - buf.count + 1
  <2>1. buf.size > 0 /\ 0 \in 0 .. buf.count - 1
    BY <1>1, <1>4
  <2>2. /\ buf.size \in Nat \ {0} /\ buf.rptr \in 0 .. buf.size - 1
        /\ Holds(buf.size, buf.rptr, buf.count, buf.slots, puts)
    BY <2>1, BufferFacts DEF RInv
  <2> QED
    BY <1>1, <2>1, <2>2, AtEnds DEF Holds
<1> QED
  BY <1>1, <1>3, <1>4

-----------------------------------------------------------------------------
(***************************************************************************)
(* Queues of consecutive numbers under the three operations of the fifo.   *)
(***************************************************************************)
LEMMA RecentIsSeq ==
  ASSUME NEW c \in Nat, NEW p \in Nat, c <= p
  PROVE  /\ Recent(c, p) \in Seq(Nat)
         /\ Len(Recent(c, p)) = c
         /\ Recent(c, p) = <<>> <=> c = 0
         /\ c > 0 => Head(Recent(c, p)) = p - c + 1
<1>1. \A i \in 1 .. c : p - c + i \in Nat
  OBVIOUS
<1>2. Recent(c, p) \in [1 .. c -> Nat]
  BY <1>1 DEF Recent
<1>3. Recent(c, p) \in Seq(Nat) /\ Len(Recent(c, p)) = c
  BY <1>2
<1>4. c > 0 => Recent(c, p)[1] = p - c + 1
  BY DEF Recent
<1> QED
  BY <1>3, <1>4

\* Sequences of one length with the same items are equal.
LEMMA SameItems ==
  ASSUME NEW s \in Seq(Nat), NEW t \in Seq(Nat), Len(s) = Len(t),
         \A i \in 1 .. Len(s) : s[i] = t[i]
  PROVE  s = t
OBVIOUS

\* Taking the first of c consecutive numbers leaves c - 1 of them.
LEMMA RecentTail ==
  ASSUME NEW c \in Nat \ {0}, NEW p \in Nat, c <= p
  PROVE  Tail(Recent(c, p)) = Recent(c - 1, p)
<1>1. /\ Recent(c, p) \in Seq(Nat) /\ Len(Recent(c, p)) = c
      /\ Recent(c - 1, p) \in Seq(Nat) /\ Len(Recent(c - 1, p)) = c - 1
  BY RecentIsSeq, c - 1 \in Nat
<1>2. /\ Tail(Recent(c, p)) \in Seq(Nat) /\ Len(Tail(Recent(c, p))) = c - 1
      /\ \A i \in 1 .. c - 1 : Tail(Recent(c, p))[i] = Recent(c, p)[i + 1]
  BY <1>1
<1>3. \A i \in 1 .. c - 1 : Tail(Recent(c, p))[i] = Recent(c - 1, p)[i]
  BY <1>2 DEF Recent
<1> HIDE DEF Recent
<1> QED
  BY <1>1, <1>2, <1>3, SameItems

\* The next number goes to the end.
LEMMA RecentAppend ==
  ASSUME NEW c \in Nat, NEW p \in Nat, c <= p
  PROVE  Append(Recent(c, p), p + 1) = Recent(c + 1, p + 1)
<1>1. /\ Recent(c, p) \in Seq(Nat) /\ Len(Recent(c, p)) = c
      /\ Recent(c + 1, p + 1) \in Seq(Nat) /\ Len(Recent(c + 1, p + 1)) = c + 1
  <2>1. c + 1 \in Nat /\ p + 1 \in Nat /\ c + 1 <= p + 1
    OBVIOUS
  <2> HIDE DEF Recent
  <2>2. Recent(c + 1, p + 1) \in Seq(Nat) /\ Len(Recent(c + 1, p + 1)) = c + 1
    BY <2>1, RecentIsSeq, Zenon
  <2> QED
    BY <2>2, RecentIsSeq
<1>2. /\ Append(Recent(c, p), p + 1) \in Seq(Nat)
      /\ Len(Append(Recent(c, p), p + 1)) = c + 1
      /\ \A i \in 1 .. c : Append(Recent(c, p), p + 1)[i] = Recent(c, p)[i]
      /\ Append(Recent(c, p), p + 1)[c + 1] = p + 1
  BY <1>1
<1>3. \A i \in 1 .. c + 1 : Append(Recent(c, p), p + 1)[i] = Recent(c + 1, p + 1)[i]
  BY <1>2 DEF Recent
<1> HIDE DEF Recent
<1> QED
  BY <1>1, <1>2, <1>3, SameItems

-----------------------------------------------------------------------------
(***************************************************************************)
(* RInv is inductive.                                                      *)
(***************************************************************************)
LEMMA InitRInv == Init => RInv
<1> SUFFICES ASSUME Init PROVE RInv
  OBVIOUS
<1>1. PICK n \in Sizes : buf = BufSet(BufUnset, n)
  BY DEF Init
<1>2. buf.count = 0
  BY <1>1 DEF BufSet, BufUnset
<1> QED
  BY <1>2, InitIInv DEF Init, RInv, GetInv

\* The handler overwrites the slot being copied only with a newer element.
LEMMA InterruptGetInv ==
  ASSUME RInv, Interrupt, IInv'
  PROVE  GetInv'
<1> USE SizesAssumption, PutsAssumption
<1>1. /\ buf.size > 0 /\ puts' = puts + 1 /\ pc' = pc /\ src' = src
      /\ got' = got /\ begun' = begun
      /\ buf'.slots = [buf.slots EXCEPT ![buf.wptr] = puts + 1]
      /\ buf'.count = IF buf.count = buf.size THEN buf.count ELSE buf.count + 1
  BY DEF Interrupt, BufWrite
<1>2. /\ buf.count \in Nat /\ puts \in Nat /\ buf.count <= puts
      /\ begun \in 0 .. puts
      /\ buf.wptr \in 0 .. buf.size - 1
      /\ buf.slots \in [0 .. buf.size - 1 -> 0 .. puts]
      /\ pc = "copy" => src \in 0 .. buf.size - 1
  BY <1>1, ContentsAreRecent, SMTT(30) DEF RInv, IInv, TypeOK
<1>3. ASSUME pc = "copy" PROVE begun <= buf'.slots[src]
  <2>1. begun <= buf.slots[src]
    BY <1>3 DEF RInv, GetInv
  <2>2. buf'.slots[src] = IF src = buf.wptr THEN puts + 1 ELSE buf.slots[src]
    BY <1>1, <1>2, <1>3
  <2> QED
    BY <1>2, <2>1, <2>2
<1> QED
  BY <1>1, <1>2, <1>3 DEF RInv, GetInv

\* A get begins with an element that was put: its number is not 0.
LEMMA ReadGetInv ==
  ASSUME RInv, Read
  PROVE  GetInv'
<1> USE SizesAssumption, PutsAssumption
<1>1. /\ buf.size \in Nat /\ buf.count \in 0 .. buf.size /\ puts \in Nat
      /\ buf.count <= puts
      /\ buf.count > 0 => buf.slots[buf.rptr] = puts - buf.count + 1
  BY ContentsAreRecent
<1>2. CASE ReadCheck
  BY <1>2 DEF ReadCheck, RInv, GetInv
<1>3. CASE ReadAddress
  <2>1. buf.count > 0
    BY <1>3 DEF ReadAddress, RInv, IInv, NoUnderflow
  <2>2. /\ pc' = "copy" /\ src' = buf.rptr /\ got' = <<>> /\ Len(got') = 0
        /\ begun' = puts - buf.count + 1 /\ buf'.slots[src'] = begun'
        /\ buf' = buf /\ puts' = puts
    BY <1>1, <1>3, <2>1 DEF ReadAddress
  <2> QED
    BY <1>1, <2>1, <2>2 DEF GetInv
<1>4. CASE ReadByte
  <2>1. /\ pc = "copy" /\ pc' = pc /\ src' = src /\ begun' = begun /\ buf' = buf
        /\ puts' = puts /\ got' = Append(got, buf.slots[src])
    BY <1>4 DEF ReadByte
  <2>2. got \in Seq(0 .. puts) /\ buf.slots[src] \in 0 .. puts
    <3>1. src \in 0 .. buf.size - 1
      BY <1>1, <2>1 DEF RInv, IInv, TypeOK
    <3> QED
      BY <3>1 DEF RInv, IInv, TypeOK
  <2>3. /\ Len(got') = Len(got) + 1 /\ Len(got) \in Nat
        /\ \A i \in 1 .. Len(got) : got'[i] = got[i]
        /\ got'[Len(got) + 1] = buf.slots[src]
    BY <2>1, <2>2
  <2>4. \A i \in 1 .. Len(got') : begun <= got'[i]
    <3> SUFFICES ASSUME NEW i \in 1 .. Len(got') PROVE begun <= got'[i]
      OBVIOUS
    <3>1. i \in 1 .. Len(got) \/ i = Len(got) + 1
      BY <2>3
    <3> QED
      BY <2>1, <2>3, <3>1 DEF RInv, GetInv
  <2> QED
    BY <2>1, <2>4 DEF RInv, GetInv
<1>5. CASE ReadCommit
  <2>1. buf.count > 0
    BY <1>5, <1>1 DEF ReadCommit, RInv, IInv, NoUnderflow
  <2>2. pc' = "idle" /\ begun' = 0 /\ buf'.count = buf.count - 1 /\ puts' = puts
    BY <1>5 DEF ReadCommit, BufConsume
  <2> QED
    BY <1>1, <2>1, <2>2 DEF GetInv
<1> QED
  BY <1>2, <1>3, <1>4, <1>5 DEF Read

\* A resize comes between gets.
LEMMA SetupGetInv ==
  ASSUME RInv, NEW n \in Sizes, Setup(n) \/ SetupFails(n)
  PROVE  GetInv'
<1>1. /\ pc = "idle" /\ pc' = pc /\ begun' = begun /\ puts' = puts
      /\ buf'.count = 0
  BY DEF Setup, SetupFails, BufFlush, BufSetFailed, BufUnset
<1>2. puts \in Nat
  BY PutsAssumption DEF RInv, IInv, TypeOK
<1> QED
  BY <1>1, <1>2 DEF RInv, GetInv

\* Every step keeps the invariant.
LEMMA NextRInv == RInv /\ [Next]_vars => RInv'
<1> SUFFICES ASSUME RInv, [Next]_vars PROVE RInv'
  OBVIOUS
<1>1. IInv'
  BY NextIInv DEF RInv
<1>2. CASE Interrupt
  BY <1>1, <1>2, InterruptGetInv DEF RInv
<1>3. CASE Read
  BY <1>1, <1>3, ReadGetInv DEF RInv
<1>4. CASE \E n \in Sizes : Setup(n) \/ SetupFails(n)
  BY <1>1, <1>4, SetupGetInv DEF RInv
<1>5. CASE UNCHANGED vars
  BY <1>1, <1>5 DEF vars, RInv, GetInv
<1> QED
  BY <1>2, <1>3, <1>4, <1>5 DEF Next

-----------------------------------------------------------------------------
(***************************************************************************)
(* The refinement, step by step.                                           *)
(***************************************************************************)
LEMMA InitRefines == Init => Fifo!Init
<1> SUFFICES ASSUME Init PROVE Fifo!Init
  OBVIOUS
<1>1. PICK n \in Sizes : buf = BufSet(BufUnset, n)
  BY DEF Init
<1>2. buf.size = n /\ buf.count = 0
  BY <1>1 DEF BufSet, BufUnset
<1>3. BufContents(buf) = <<>>
  BY <1>2 DEF BufContents
<1> QED
  BY <1>2, <1>3 DEF Init, Fifo!Init

\* An interrupt is a put, which drops the oldest element of a full queue.
LEMMA InterruptRefines ==
  ASSUME RInv, RInv', Interrupt
  PROVE  Fifo!Put
<1>1. /\ buf.size > 0 /\ puts < MaxPuts /\ puts' = puts + 1
      /\ overtaken' = (overtaken \/ (buf.count = buf.size /\ pc = "copy"))
      /\ begun' = begun /\ item' = item /\ buf'.size = buf.size
      /\ buf'.count = IF buf.count = buf.size THEN buf.count ELSE buf.count + 1
  BY DEF Interrupt, BufWrite, Full
<1>2. /\ buf.size \in Nat /\ buf.count \in 0 .. buf.size /\ puts \in Nat
      /\ buf.count <= puts
      /\ BufContents(buf) = Recent(buf.count, puts)
      /\ Len(BufContents(buf)) = buf.count
  BY ContentsAreRecent, RecentIsSeq
<1>3. BufContents(buf') = Recent(buf'.count, puts')
  <2>1. \A i \in 1 .. buf'.count : BufContents(buf')[i] = puts' - buf'.count + i
    BY DEF RInv, IInv, MostRecent
  <2> QED
    BY <2>1 DEF Recent, BufContents
<1>4. BufContents(buf')
        = Append(IF buf.count = buf.size THEN Tail(BufContents(buf)) ELSE BufContents(buf),
                 puts + 1)
  <2>1. CASE buf.count = buf.size
    <3>1. Tail(BufContents(buf)) = Recent(buf.count - 1, puts)
      BY <1>1, <1>2, <2>1, RecentTail
    <3>2. Append(Recent(buf.count - 1, puts), puts + 1)
            = Recent((buf.count - 1) + 1, puts + 1)
      <4>1. buf.count - 1 \in Nat /\ buf.count - 1 <= puts
        BY <1>1, <1>2, <2>1
      <4> QED
        BY <1>2, <4>1, RecentAppend, Zenon
    <3> QED
      BY <1>1, <1>2, <1>3, <2>1, <3>1, <3>2, (buf.count - 1) + 1 = buf.count
  <2>2. CASE buf.count # buf.size
    <3>1. Append(Recent(buf.count, puts), puts + 1) = Recent(buf.count + 1, puts + 1)
      <4>1. buf.count \in Nat
        BY <1>2
      <4> QED
        BY <1>2, <4>1, RecentAppend, Zenon
    <3> QED
      BY <1>1, <1>2, <1>3, <2>2, <3>1
  <2> QED
    BY <2>1, <2>2
<1>5. pc = "copy" <=> begun # 0
  BY DEF RInv, GetInv
<1> QED
  BY <1>1, <1>2, <1>4, <1>5 DEF Fifo!Put, Fifo!Full

\* The address taken from rptr is that of the oldest element.
LEMMA ReadAddressRefines ==
  ASSUME RInv, ReadAddress
  PROVE  Fifo!BeginGet
<1>1. buf.count > 0 /\ begun = 0
  BY SizesAssumption DEF ReadAddress, RInv, IInv, TypeOK, NoUnderflow, GetInv
<1>2. /\ buf.count \in Nat /\ puts \in Nat /\ buf.count <= puts
      /\ BufContents(buf) = Recent(buf.count, puts)
      /\ buf.slots[buf.rptr] = puts - buf.count + 1
  BY <1>1, ContentsAreRecent
<1>3. BufContents(buf) # <<>> /\ Head(BufContents(buf)) = buf.slots[buf.rptr]
  <2>1. /\ Recent(buf.count, puts) = <<>> <=> buf.count = 0
        /\ buf.count > 0 => Head(Recent(buf.count, puts)) = puts - buf.count + 1
    BY <1>2, RecentIsSeq, Zenon
  <2> QED
    BY <1>1, <1>2, <2>1
<1>4. /\ begun' = buf.slots[buf.rptr] /\ buf' = buf
      /\ UNCHANGED <<puts, overtaken, item>>
  BY DEF ReadAddress
<1> QED
  BY <1>1, <1>3, <1>4 DEF Fifo!BeginGet

\* The commit ends the get, with an element no older than it began with; with
\* exactly that one unless the buffer overflowed.
LEMMA ReadCommitRefines ==
  ASSUME RInv, RInv', ReadCommit
  PROVE  Fifo!EndGet
<1>1. /\ pc = "copy" /\ Len(got) = Bytes /\ item' = got /\ begun' = 0
      /\ overtaken' = FALSE /\ puts' = puts /\ buf'.size = buf.size
      /\ buf'.count = buf.count - 1
  BY DEF ReadCommit, BufConsume
<1>2. buf.count > 0 /\ begun # 0
  BY <1>1, SizesAssumption DEF RInv, IInv, TypeOK, NoUnderflow, GetInv
<1>3. /\ buf.count \in Nat \ {0} /\ puts \in Nat /\ buf.count <= puts
      /\ BufContents(buf) = Recent(buf.count, puts)
  BY <1>2, ContentsAreRecent
<1>4. BufContents(buf') = Recent(buf'.count, puts')
  <2>1. \A i \in 1 .. buf'.count : BufContents(buf')[i] = puts' - buf'.count + i
    BY DEF RInv, IInv, MostRecent
  <2> QED
    BY <2>1 DEF Recent, BufContents
<1>5. BufContents(buf') = Tail(BufContents(buf))
  <2>1. Tail(Recent(buf.count, puts)) = Recent(buf.count - 1, puts)
    BY <1>3, RecentTail, Zenon
  <2> QED
    BY <1>1, <1>3, <1>4, <2>1
<1>6. got \in [1 .. Bytes -> begun .. puts]
  <2>1. got \in Seq(0 .. puts) /\ \A i \in 1 .. Len(got) : begun <= got[i]
    BY <1>1 DEF RInv, IInv, TypeOK, GetInv
  <2>2. begun \in 0 .. puts
    BY DEF RInv, IInv, TypeOK
  <2>3. got \in [1 .. Bytes -> 0 .. puts]
    BY <1>1 DEF RInv, IInv, TypeOK
  <2>4. \A i \in 1 .. Bytes : got[i] \in begun .. puts
    BY <1>1, <1>3, <2>1, <2>2, <2>3
  <2> QED
    BY <2>3, <2>4
<1>7. ASSUME \lnot overtaken PROVE got = [i \in 1 .. Bytes |-> begun]
  <2>1. \A i \in 1 .. Bytes : got[i] = begun
    BY <1>1, <1>7 DEF RInv, IInv, CopyIntact
  <2> QED
    BY <1>6, <2>1
<1> QED
  BY <1>1, <1>2, <1>5, <1>6, <1>7 DEF Fifo!EndGet

\* Resizing empties the queue, and without memory leaves it none.
LEMMA SetupRefines ==
  ASSUME RInv, NEW n \in Sizes, Setup(n) \/ SetupFails(n)
  PROVE  Fifo!Reset
<1>1. /\ pc = "idle" /\ buf'.count = 0 /\ buf'.size \in Sizes \cup {0}
      /\ UNCHANGED <<puts, begun, overtaken, item>>
  BY DEF Setup, SetupFails, BufSet, BufFlush, BufSetFailed, BufUnset
<1>2. begun = 0
  BY <1>1 DEF RInv, GetInv
<1>3. BufContents(buf') = <<>>
  BY <1>1 DEF BufContents
<1> QED
  BY <1>1, <1>2, <1>3 DEF Fifo!Reset

\* Every step is a step of the fifo, or none.
LEMMA NextRefines == RInv /\ RInv' /\ [Next]_vars => [Fifo!Next]_Fifo!vars
<1> SUFFICES ASSUME RInv, RInv', [Next]_vars PROVE [Fifo!Next]_Fifo!vars
  OBVIOUS
<1>1. CASE Interrupt
  BY <1>1, InterruptRefines DEF Fifo!Next
<1>2. CASE ReadAddress
  BY <1>2, ReadAddressRefines DEF Fifo!Next
<1>3. CASE ReadCommit
  BY <1>3, ReadCommitRefines DEF Fifo!Next
<1>4. CASE \E n \in Sizes : Setup(n) \/ SetupFails(n)
  BY <1>4, SetupRefines DEF Fifo!Next
<1>5. CASE ReadCheck \/ ReadByte \/ UNCHANGED vars
  BY <1>5 DEF ReadCheck, ReadByte, vars, Fifo!vars, BufContents
<1> QED
  BY <1>1, <1>2, <1>3, <1>4, <1>5 DEF Next, Read

\* Whatever the interleaving of the handler with the unlocked reader, the
\* buffer behaves as a queue that loses its oldest elements only when it is
\* full, and delivers torn elements only after it has overflowed.
THEOREM BufferIsAFifo == Spec => ImplementsFifo
<1>1. Spec => []RInv
  BY InitRInv, NextRInv, PTL DEF Spec
<1> QED
  BY <1>1, InitRefines, NextRefines, PTL DEF Spec, ImplementsFifo, Fifo!Spec
=============================================================================
