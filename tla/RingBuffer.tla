----------------------------- MODULE RingBuffer -----------------------------
(***************************************************************************)
(* One device buffer (src/buf.c) between its two users: an interrupt       *)
(* handler that writes (UARTIntHandler, ADCIntHandler) and the main        *)
(* program that reads with buf_read and resizes with adc_setup_channel.    *)
(* The handler runs to completion between any two machine steps of the     *)
(* main program, unless interrupts are masked.  buf_read masks them only   *)
(* for its last two statements: the count test, the computation of the     *)
(* source address and the byte copy all run with interrupts on.            *)
(*                                                                         *)
(* The n-th element written is the number n; the bytes of an element are   *)
(* tagged with the element they belong to, so a torn copy shows.           *)
(***************************************************************************)
EXTENDS Naturals, Sequences

CONSTANTS Sizes,       \* the sizes a buffer can be given (powers of two in C)
          Bytes,       \* bytes per element: 1 for a UART, 2 for the ADC
          MaxPuts      \* bound on the number of elements written

ASSUME SizesAssumption == Sizes \subseteq Nat \ {0}
ASSUME BytesAssumption == Bytes \in Nat \ {0}
ASSUME PutsAssumption  == MaxPuts \in Nat

VARIABLES
  buf,         \* the descriptor
  ie,          \* interrupts are enabled
  pc,          \* where the main program is in buf_read
  src,         \* the element the local pointer s points to
  got,         \* the bytes copied so far
  puts,        \* the number of elements written
  item,        \* the last element buf_read returned
  begun,       \* history: the element s pointed to when it was computed
  overtaken    \* history: the buffer overflowed since then

vars == <<buf, ie, pc, src, got, puts, item, begun, overtaken>>

INSTANCE Buf WITH Junk <- 0

Full == buf.count = buf.size

-----------------------------------------------------------------------------
Init ==
  /\ \E n \in Sizes : buf = BufSet(BufUnset, n)
  /\ ie = TRUE
  /\ pc = "idle"
  /\ src = 0
  /\ got = <<>>
  /\ puts = 0
  /\ item = [i \in 1 .. Bytes |-> 0]
  /\ begun = 0
  /\ overtaken = FALSE

\* The handler received an element.
Interrupt ==
  /\ ie
  /\ buf.size > 0
  /\ puts < MaxPuts
  /\ puts' = puts + 1
  /\ buf' = BufWrite(buf, puts + 1)
  /\ overtaken' = (overtaken \/ (Full /\ pc = "copy"))
  /\ UNCHANGED <<ie, pc, src, got, item, begun>>

\* Mutant: no test for an empty buffer.
ReadCheckBlind ==
  /\ pc = "idle"
  /\ pc' = "address"
  /\ UNCHANGED <<buf, ie, src, got, puts, item, begun, overtaken>>

\* buf_read finds an element; on an empty buffer it returns UNDERFLOW and
\* changes nothing.
ReadCheck ==
  /\ pc = "idle"
  /\ buf.count # 0
  /\ pc' = "address"
  /\ UNCHANGED <<buf, ie, src, got, puts, item, begun, overtaken>>

\* s = pbuf->buf + pbuf->rptr
ReadAddress ==
  /\ pc = "address"
  /\ pc' = "copy"
  /\ src' = buf.rptr
  /\ got' = <<>>
  /\ begun' = buf.slots[buf.rptr]
  /\ UNCHANGED <<buf, ie, puts, item, overtaken>>

\* One byte of the Duff's device copy.
ReadByte ==
  /\ pc = "copy"
  /\ Len(got) < Bytes
  /\ got' = Append(got, buf.slots[src])
  /\ UNCHANGED <<buf, ie, pc, src, puts, item, begun, overtaken>>

\* Disable interrupts, consume, enable interrupts, return.
ReadCommit ==
  /\ pc = "copy"
  /\ Len(got) = Bytes
  /\ buf' = BufConsume(buf)
  /\ ie' = TRUE
  /\ pc' = "idle"
  /\ src' = 0
  /\ got' = <<>>
  /\ item' = got
  /\ begun' = 0
  /\ overtaken' = FALSE
  /\ UNCHANGED puts

\* adc_setup_channel wants another size: interrupts off, set, flush,
\* interrupts on.
Setup(n) ==
  /\ pc = "idle"
  /\ n # buf.size
  /\ buf' = BufFlush(BufSet(buf, n))
  /\ ie' = TRUE
  /\ UNCHANGED <<pc, src, got, puts, item, begun, overtaken>>

\* The same without memory: the early return leaves interrupts off.  For one element
\* buf_set answers that all is well, and what follows runs.
SetupFails(n) ==
  /\ pc = "idle"
  /\ n # buf.size
  /\ buf' = BufSetFailed
  /\ ie' = (n = 1)
  /\ UNCHANGED <<pc, src, got, puts, item, begun, overtaken>>

Read == ReadCheck \/ ReadAddress \/ ReadByte \/ ReadCommit

Next ==
  \/ Interrupt
  \/ Read
  \/ \E n \in Sizes : Setup(n) \/ SetupFails(n)

Spec == Init /\ [][Next]_vars

\* The main program polls the buffer forever, as the shell's and the XMODEM
\* receiver's input loops do.
FairSpec == Spec /\ WF_vars(Read)

-----------------------------------------------------------------------------
TypeOK ==
  /\ buf.size \in Sizes \cup {0}
  /\ buf = [size  |-> buf.size, wptr |-> buf.wptr, rptr |-> buf.rptr,
            count |-> buf.count, slots |-> buf.slots]
  /\ buf.slots \in [0 .. buf.size - 1 -> 0 .. puts]
  /\ buf.count \in 0 .. buf.size
  /\ IF buf.size = 0
       THEN buf.wptr = 0 /\ buf.rptr = 0
       ELSE buf.wptr \in 0 .. buf.size - 1 /\ buf.rptr \in 0 .. buf.size - 1
  /\ ie \in BOOLEAN
  /\ pc \in {"idle", "address", "copy"}
  /\ src \in Nat
  /\ pc = "copy" => src < buf.size
  /\ got \in Seq(0 .. puts)
  /\ Len(got) <= Bytes
  /\ puts \in 0 .. MaxPuts
  /\ item \in [1 .. Bytes -> 0 .. puts]
  /\ begun \in 0 .. puts
  /\ overtaken \in BOOLEAN

\* The three volatile fields that handler and reader update separately always
\* describe one queue: the write pointer is count elements ahead of the read
\* pointer, whatever the interleaving of buf_write and buf_read.
PointersAgree ==
  buf.size > 0 => buf.wptr = (buf.rptr + buf.count) % buf.size

\* A reader past its empty test never consumes from an empty buffer: the
\* handler never takes the element away that the test saw.
NoUnderflow == pc # "idle" => buf.count > 0 /\ ie

\* While a reader copies without locking and the buffer did not overflow, the
\* slot it copies from is still the oldest element, untouched: only an
\* overflow can tear the copy.
CopyIntact ==
  pc = "copy" /\ \lnot overtaken =>
    /\ src = buf.rptr
    /\ buf.slots[src] = begun
    /\ \A i \in 1 .. Len(got) : got[i] = begun

\* What the buffer holds is the most recent elements written since it was last
\* emptied, in order and without gaps.
MostRecent ==
  \A i \in 1 .. buf.count : BufContents(buf)[i] = puts - buf.count + i

\* Interrupts stay off only when a buffer could not be allocated.
MaskLeftOnlyByFailure == \lnot ie => buf.size = 0 /\ pc = "idle"

\* The buffer with its two unsynchronised users behaves as the queue promises.
Fifo == INSTANCE LossyFifo WITH queue <- BufContents(buf),
                                capacity <- buf.size, Capacities <- Sizes
ImplementsFifo == Fifo!Spec

\* A reader that keeps polling gets everything: once the device is quiet, the
\* buffer becomes empty.
Drains == (puts = MaxPuts) ~> (buf.count = 0)
=============================================================================
