-------------------------------- MODULE Buf --------------------------------
(***************************************************************************)
(* The character device buffer of eLua (src/buf.c, inc/buf.h) as operators *)
(* on one buffer descriptor.  A descriptor is a record with                *)
(*    size           the number of elements, BUF_REALSIZE; 0 when the      *)
(*                   descriptor has no memory (logsize = BUF_SIZE_NONE)    *)
(*    wptr, rptr     the two pointers, counted in elements                 *)
(*    count          the number of elements stored                         *)
(*    slots          the memory, one value per element                     *)
(* The C pointers count bytes and are masked with the byte size; both are  *)
(* multiples of the element size, so element indexes lose nothing.         *)
(***************************************************************************)
EXTENDS Naturals

CONSTANT Junk    \* the contents of memory nobody wrote yet

\* A descriptor before buf_set: static storage, all zero.
BufUnset == [size |-> 0, wptr |-> 0, rptr |-> 0, count |-> 0,
             slots |-> [i \in {} |-> Junk]]

\* BUF_MOD_INCR: advance an index, masked with the size.
ModIncr(b, p) == (p + 1) % b.size

\* buf_set when realloc answers: the pointers stay, the old memory is kept as
\* far as the new size reaches.
BufSet(b, n) ==
  [size |-> n, wptr |-> b.wptr, rptr |-> b.rptr, count |-> b.count,
   slots |-> [i \in 0 .. n - 1 |-> IF i < b.size THEN b.slots[i] ELSE Junk]]

\* buf_set when realloc answers NULL: everything is reset.
BufSetFailed == BufUnset

\* Mutant: the read pointer is forgotten.
BufFlushKeepsRptr(b) ==
  [size |-> b.size, wptr |-> 0, rptr |-> b.rptr, count |-> 0, slots |-> b.slots]

\* buf_flush when nothing can run between its three stores.
BufFlush(b) ==
  [size |-> b.size, wptr |-> 0, rptr |-> 0, count |-> 0, slots |-> b.slots]

\* Mutants of buf_write: a full buffer that keeps its read pointer; one that drops
\* the new element; the pointer advanced first.
BufWriteKeepsRptr(b, v) ==
  [size |-> b.size, wptr |-> ModIncr(b, b.wptr), rptr |-> b.rptr,
   count |-> IF b.count = b.size THEN b.count ELSE b.count + 1,
   slots |-> [b.slots EXCEPT ![b.wptr] = v]]

BufWriteDropsNew(b, v) ==
  IF b.count = b.size
    THEN b
    ELSE [size |-> b.size, wptr |-> ModIncr(b, b.wptr), rptr |-> b.rptr,
          count |-> b.count + 1, slots |-> [b.slots EXCEPT ![b.wptr] = v]]

BufWriteAdvancesFirst(b, v) ==
  [size  |-> b.size,
   wptr  |-> ModIncr(b, b.wptr),
   rptr  |-> IF b.count = b.size THEN ModIncr(b, b.rptr) ELSE b.rptr,
   count |-> IF b.count = b.size THEN b.count ELSE b.count + 1,
   slots |-> [b.slots EXCEPT ![ModIncr(b, b.wptr)] = v]]

\* buf_write: store at wptr; a full buffer gives up its oldest element.
BufWrite(b, v) ==
  [size  |-> b.size,
   wptr  |-> ModIncr(b, b.wptr),
   rptr  |-> IF b.count = b.size THEN ModIncr(b, b.rptr) ELSE b.rptr,
   count |-> IF b.count = b.size THEN b.count ELSE b.count + 1,
   slots |-> [b.slots EXCEPT ![b.wptr] = v]]

\* Mutant: the count is not decremented.
BufConsumeKeepsCount(b) ==
  [size |-> b.size, wptr |-> b.wptr, rptr |-> ModIncr(b, b.rptr),
   count |-> b.count, slots |-> b.slots]

\* The locked tail of buf_read.
BufConsume(b) ==
  [size |-> b.size, wptr |-> b.wptr, rptr |-> ModIncr(b, b.rptr),
   count |-> b.count - 1, slots |-> b.slots]

\* The elements a reader would get, oldest first.
BufContents(b) == [i \in 1 .. b.count |-> b.slots[(b.rptr + i - 1) % b.size]]
=============================================================================
