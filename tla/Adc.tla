---------------------------------- MODULE Adc ----------------------------------
(***************************************************************************)
(* The analog to digital converter: the calls of the Lua module adc        *)
(* (src/modules/adc.c, src/elua_adc.c, platform_adc_op of src/common.c)    *)
(* against the interrupt handler of the LM3S (src/platform/lm3s).          *)
(*                                                                         *)
(* The handler runs to completion between any two steps of the program.    *)
(* A step of the program is one access to what the handler also uses; a    *)
(* bit field is changed by loading and storing its whole byte.             *)
(***************************************************************************)
EXTENDS Integers, Sequences, FiniteSets, SequencesExt

CONSTANTS
  NumAdc,     \* NUM_ADC
  Counts,     \* the counts sample() is called with, powers of two
  LogLens,    \* log2 of the smoothing lengths
  Habits,     \* what programs do, see HabitNames
  MaxCalls,   \* bound: calls of the program
  MaxConv     \* bound: the last conversion with a number of its own

HabitNames == {"smooth",  \* setsmoothing is called for channels that are not sampling
               "live",    \* and for channels that are
               "clock",   \* setclock is called
               "oom"}     \* memory may run out

ASSUME AdcAssumption ==
  /\ NumAdc \in Nat \ {0} /\ Counts \subseteq Nat \ {0} /\ LogLens \subseteq Nat
  /\ Habits \subseteq HabitNames /\ MaxCalls \in Nat /\ MaxConv \in Nat \ {0}

\* a ring has a number of places
ASSUME PowerAssumption == \A l \in LogLens \cup {0} : 2^l \in Nat

VARIABLES
  flags,      \* per channel, one byte: op_pending, blocking, smooth_ready, value_fresh
  chan,       \* the rest of elua_adc_ch_state, and the channel's buffer
  dev,        \* elua_adc_dev_state
  sample_buf, \* its sample_buf
  adc,        \* the converter: enabled, converting the channels of a sequence, timer on
  ie,         \* interrupts are enabled
  irq,        \* seq_ctr of the running handler, or Outside
  data,       \* tmpbuff of the handler
  conv,       \* number of the last conversion
  pc, me,     \* the program: where it is, and its local variables
  calls,      \* how many calls it has made
  out,        \* history: channel -> what the last value returned for it was made of
  due,        \* history: channels with samples asked for, which no call has called off
              \* and no store to the flags has overwritten a change of
  calm        \* history: setsmoothing was called for resting channels only, setclock
              \* never, and memory has not run out

vars == <<flags, chan, dev, sample_buf, adc, ie, irq, data, conv, pc, me, calls, out, due, calm>>
boardVars   == <<flags, chan, dev, sample_buf, adc, data, conv>>
programVars == <<pc, me, calls, out, due, calm>>

Channels == 1..NumAdc
Outside  == -1
NoSample == [of |-> 0, no |-> 0]

INSTANCE Buf WITH Junk <- NoSample

Cleared == [op_pending |-> FALSE, blocking |-> TRUE, smooth_ready |-> FALSE, value_fresh |-> FALSE]

\* adc_samples_available, and the handler's test that a request is complete; the
\* count and the flag are read in one step
Available(fl, s) == IF s.buf.count = 0 THEN (IF fl.value_fresh THEN 1 ELSE 0) ELSE s.buf.count

\* Mutants: one sample too early, and one too late.
EnoughEarly(fl, s)  == Available(fl, s) + 1 >= s.reqsamples
EnoughStrict(fl, s) == Available(fl, s) > s.reqsamples

Enough(fl, s) == Available(fl, s) >= s.reqsamples

\* the locals of the program: call and its arguments, samples left to take, the
\* word or byte it has loaded, and the bit it is about to write in that byte
Me0 == [call |-> "none", c |-> 1, todo |-> {}, n |-> 0, log |-> 0, clocked |-> FALSE, timer |-> 0,
        left |-> 0, sample |-> NoSample, byte |-> Cleared, word |-> {}, bit |-> "none",
        to |-> FALSE, then |-> "idle"]

Init ==
  /\ flags = [c \in Channels |-> Cleared]
  /\ chan = [c \in Channels |->
       [reqsamples |-> 0, logsmoothlen |-> 0, smoothidx |-> 0, smoothsum |-> 0,
        smoothbuf |-> <<>>, value_ptr |-> 1, buf |-> BufSet(BufUnset, 2)]]
  /\ dev = [ch_active |-> {}, last_ch_active |-> {}, running |-> FALSE, clocked |-> FALSE,
            timer_id |-> 0, ch_state |-> <<>>]
  /\ sample_buf = [i \in Channels |-> NoSample]
  /\ adc = [enabled |-> FALSE, busy |-> FALSE, chans |-> <<>>, timer |-> FALSE]
  /\ ie = TRUE /\ irq = Outside /\ data = <<>> /\ conv = 0
  /\ pc = "idle" /\ me = Me0 /\ calls = 0
  /\ out = [c \in Channels |-> [log |-> 0, sum |-> 0, from |-> <<>>]] /\ due = {} /\ calm = TRUE

-----------------------------------------------------------------------------
(* What both sides do                                                      *)

\* ADCProcessorTrigger: a disabled sequence is not converted.
Triggered(a, seq) == IF a.enabled THEN [a EXCEPT !.busy = TRUE, !.chans = seq] ELSE a

Sorted(S) ==
  CHOOSE s \in [1..Cardinality(S) -> S] :
    \A i, j \in 1..Cardinality(S) : i < j => s[i] < s[j]

NewSequence == Sorted(dev.ch_active)
Slot(seq, c) == CHOOSE i \in DOMAIN seq : seq[i] = c

\* The locked part of adc_update_dev_sequence, with platform_adc_update_sequence.
Resequence ==
  /\ dev' = [dev EXCEPT !.ch_state = NewSequence, !.last_ch_active = dev.ch_active]
  /\ chan' = [c \in Channels |->
       IF c \in dev.ch_active THEN [chan[c] EXCEPT !.value_ptr = Slot(NewSequence, c)] ELSE chan[c]]
  /\ flags' = [c \in Channels |->
       IF c \in dev.ch_active THEN [flags[c] EXCEPT !.value_fresh = FALSE] ELSE flags[c]]

RingSize(s) == 2^s.logsmoothlen

\* Mutant: a ring is full one sample early.
RingFullEarly(s) == s.smoothidx = RingSize(s) - 1

RingFull(s) == s.smoothidx = RingSize(s)
RingPlace(s) == IF RingFull(s) THEN 1 ELSE s.smoothidx + 1

\* Mutant: the oldest value is not subtracted.
SmoothAdds(s, v) ==
  LET i == RingPlace(s) IN
  IF i \in DOMAIN s.smoothbuf
  THEN [s EXCEPT !.smoothidx = i, !.smoothsum = @ + v.no, !.smoothbuf[i] = v]
  ELSE s

\* adc_smooth_data with its sample v; outside the ring it would hit other memory, and
\* the index, which then grows without bound, is left alone: no program is calm there
Smooth(s, v) ==
  LET i == RingPlace(s) IN
  IF i \in DOMAIN s.smoothbuf
  THEN [s EXCEPT !.smoothidx = i, !.smoothsum = @ - s.smoothbuf[i].no + v.no, !.smoothbuf[i] = v]
  ELSE s

-----------------------------------------------------------------------------
(* ADCIntHandler                                                           *)

IntEnter ==
  /\ ie /\ irq = Outside /\ adc.busy
  /\ irq' = 0
  /\ adc' = [adc EXCEPT !.busy = FALSE]
  /\ data' = adc.chans
  /\ conv' = IF conv < MaxConv THEN conv + 1 ELSE conv
  /\ UNCHANGED <<flags, chan, dev, sample_buf, ie, programVars>>

\* one round of its loop: store the sample, smooth or buffer it, and stop the
\* channel when all that was asked for is there
IntChannel ==
  /\ irq \in 0..(Len(dev.ch_state) - 1)
  /\ LET c    == dev.ch_state[irq + 1]
         v    == IF irq + 1 \in DOMAIN data THEN [of |-> data[irq + 1], no |-> conv] ELSE NoSample
         warm == chan[c].logsmoothlen > 0 /\ ~flags[c].smooth_ready
         keep == ~warm /\ chan[c].reqsamples > 1
         fl   == [flags[c] EXCEPT !.value_fresh = ~warm /\ ~keep,
                    !.smooth_ready = @ \/ (warm /\ RingFull(chan[c]))]
     IN
     /\ sample_buf' = [sample_buf EXCEPT ![irq + 1] = v]
     /\ LET val  == sample_buf'[chan[c].value_ptr]
            s    == IF warm THEN Smooth(chan[c], val)
                    ELSE IF keep /\ chan[c].buf.size > 0
                         THEN [chan[c] EXCEPT !.buf = BufWrite(@, val)]
                         ELSE chan[c]
            done == Enough(fl, s)
            left == IF done THEN dev.ch_active \ {c} ELSE dev.ch_active
        IN
        /\ chan' = [chan EXCEPT ![c] = s]
        /\ flags' = [flags EXCEPT ![c] = IF done THEN [fl EXCEPT !.op_pending = FALSE] ELSE fl]
        /\ dev' = [dev EXCEPT !.ch_active = left, !.running = @ /\ ~(done /\ left = {})]
        /\ adc' = [adc EXCEPT !.enabled = @ /\ ~(done /\ left = {})]
  /\ irq' = irq + 1
  /\ UNCHANGED <<ie, data, conv, programVars>>

\* its end: another sequence if channels have come or gone, and the next sample
IntLeave ==
  /\ irq = Len(dev.ch_state)
  /\ irq' = Outside
  /\ IF dev.running /\ dev.ch_active # dev.last_ch_active
     THEN Resequence ELSE UNCHANGED <<dev, chan, flags>>
  /\ LET a == IF dev' = dev THEN adc ELSE [adc EXCEPT !.enabled = TRUE] IN
     adc' = IF dev.running /\ ~dev.clocked THEN Triggered(a, dev'.ch_state) ELSE a
  /\ data' = <<>>
  /\ UNCHANGED <<sample_buf, ie, conv, programVars>>

\* The timer starts a conversion.
TimerFires ==
  /\ adc.timer /\ dev.clocked /\ adc.enabled /\ ~adc.busy
  /\ adc' = Triggered(adc, dev.ch_state)
  /\ UNCHANGED <<flags, chan, dev, sample_buf, ie, irq, data, conv, programVars>>

\* A conversion during which the sequence is disabled may be lost.
ConversionLost ==
  /\ adc.busy /\ ~adc.enabled
  /\ adc' = [adc EXCEPT !.busy = FALSE]
  /\ UNCHANGED <<flags, chan, dev, sample_buf, ie, irq, data, conv, programVars>>

-----------------------------------------------------------------------------
(* The program                                                             *)

At(p)   == pc = p /\ irq = Outside
Goto(p) == pc' = p
GoIdle  == pc' = "idle" /\ me' = Me0

\* a call of the module begins with its arguments
Call(p, args) ==
  /\ At("idle") /\ calls < MaxCalls
  /\ calls' = calls + 1
  /\ me' = args
  /\ Goto(p)
  /\ UNCHANGED <<boardVars, ie, irq, out>>

Flags == flags[me.c]
Chan  == chan[me.c]

\* an assignment to a bit field: the byte is loaded and stored
Assign(local, bit, to, then) ==
  me' = [local EXCEPT !.bit = bit, !.to = to, !.then = then]

LoadByte ==
  /\ At("load")
  /\ me' = [me EXCEPT !.byte = Flags]
  /\ Goto("store")
  /\ UNCHANGED <<boardVars, ie, irq, calls, out, due, calm>>

StoreByte ==
  /\ At("store")
  /\ flags' = [flags EXCEPT ![me.c] = [me.byte EXCEPT ![me.bit] = me.to]]
  /\ IF me.then = "idle" THEN GoIdle ELSE Goto(me.then) /\ UNCHANGED me
  /\ due' = IF me.byte = Flags THEN due ELSE due \ {me.c}
  /\ UNCHANGED <<chan, dev, sample_buf, adc, ie, irq, data, conv, calls, out, calm>>

\* setblocking( id, mode )
SetBlocking(c, mode) ==
  /\ Call("load", [Me0 EXCEPT !.c = c, !.bit = "blocking", !.to = mode])
  /\ UNCHANGED <<due, calm>>

\* sample( channels, count )
Sample(S, n) ==
  /\ Call("setup", [Me0 EXCEPT !.call = "sample", !.todo = S, !.n = n])
  /\ UNCHANGED <<due, calm>>

\* the end of adc_setup_channel, once the buffer is there
Enlist(c) ==
  /\ flags' = [flags EXCEPT ![c].op_pending = TRUE]
  /\ dev' = [dev EXCEPT !.ch_active = @ \cup {c}]
  /\ me' = [me EXCEPT !.todo = @ \ {c}]
  /\ Goto(IF me.todo = {c} THEN "start" ELSE "setup")
  /\ due' = due \cup {c}

\* adc_setup_channel, all of it locked
SetupChannel ==
  /\ At("setup")
  /\ \E c \in me.todo :
       /\ chan' = [chan EXCEPT ![c].reqsamples = me.n,
                               ![c].buf = IF @.size # me.n THEN BufFlush(BufSet(@, me.n)) ELSE @]
       /\ Enlist(c)
  /\ ie' = TRUE
  /\ UNCHANGED <<sample_buf, adc, irq, data, conv, calls, out, calm>>

\* without memory: the early return leaves interrupts off; for a single sample buf_set
\* answers that all is well, and the rest runs
SetupFails ==
  /\ At("setup") /\ "oom" \in Habits
  /\ \E c \in me.todo :
       /\ chan[c].buf.size # me.n
       /\ IF me.n = 1
          THEN /\ chan' = [chan EXCEPT ![c].reqsamples = me.n, ![c].buf = BufSetFailed]
               /\ ie' = TRUE
               /\ Enlist(c)
          ELSE /\ chan' = [chan EXCEPT ![c].buf = BufSetFailed]
               /\ ie' = FALSE
               /\ GoIdle
               /\ UNCHANGED <<flags, dev, due>>
  /\ calm' = FALSE
  /\ UNCHANGED <<sample_buf, adc, irq, data, conv, calls, out>>

\* Mutant: the sequence is started although it runs.
StartAlways ==
  /\ At("start") /\ Goto("compare")
  /\ UNCHANGED <<boardVars, ie, irq, me, calls, out, due, calm>>

\* platform_adc_start_sequence, access by access
StartCheck ==
  /\ At("start")
  /\ IF dev.running THEN GoIdle ELSE Goto("compare") /\ UNCHANGED me
  /\ UNCHANGED <<boardVars, ie, irq, calls, out, due, calm>>

StartCompare ==
  /\ At("compare")
  /\ Goto(IF dev.ch_active # dev.last_ch_active THEN "sequence" ELSE "enable")
  /\ UNCHANGED <<boardVars, ie, irq, me, calls, out, due, calm>>

StartSequence ==
  /\ At("sequence")
  /\ Resequence
  /\ adc' = [adc EXCEPT !.enabled = TRUE]
  /\ ie' = TRUE
  /\ Goto("enable")
  /\ UNCHANGED <<sample_buf, irq, data, conv, me, calls, out, due, calm>>

\* An empty sequence dereferences NULL: the processor may also stop there.
StartFaults ==
  /\ At("sequence") /\ dev.ch_active = {}
  /\ ie' = FALSE
  /\ Goto("fault")
  /\ UNCHANGED <<boardVars, irq, me, calls, out, due, calm>>

StartEnable ==
  /\ At("enable")
  /\ adc' = [adc EXCEPT !.enabled = TRUE]
  /\ Goto("running")
  /\ UNCHANGED <<flags, chan, dev, sample_buf, ie, irq, data, conv, me, calls, out, due, calm>>

\* Mutant: running is not set.
StartNotRunning ==
  /\ At("running") /\ Goto("trigger")
  /\ UNCHANGED <<boardVars, ie, irq, me, calls, out, due, calm>>

StartRunning ==
  /\ At("running")
  /\ dev' = [dev EXCEPT !.running = TRUE]
  /\ Goto("trigger")
  /\ UNCHANGED <<flags, chan, sample_buf, adc, ie, irq, data, conv, me, calls, out, due, calm>>

StartTrigger ==
  /\ At("trigger")
  /\ adc' = IF dev.clocked THEN [adc EXCEPT !.timer = TRUE] ELSE Triggered(adc, dev.ch_state)
  /\ GoIdle
  /\ UNCHANGED <<flags, chan, dev, sample_buf, ie, irq, data, conv, calls, out, due, calm>>

-----------------------------------------------------------------------------
\* getsample (n = 1), getsamples (n = 0 takes all) and insertsamples
GetSamples(c, n) ==
  /\ Call("wait", [Me0 EXCEPT !.call = "get", !.c = c, !.n = n])
  /\ UNCHANGED <<due, calm>>

\* adc_wait_samples waits, and then answers what is there
WaitSamples ==
  /\ At("wait")
  /\ Available(Flags, Chan) >= me.n \/ ~Flags.blocking \/ ~Flags.op_pending
  /\ Goto("waited")
  /\ UNCHANGED <<boardVars, ie, irq, me, calls, out, due, calm>>

\* no more is taken than that
WaitReturns ==
  /\ At("waited")
  /\ LET there == Available(Flags, Chan)
         left  == IF me.n = 0 \/ there < me.n THEN there ELSE me.n IN
     IF left = 0 THEN GoIdle ELSE Goto("take") /\ me' = [me EXCEPT !.left = left]
  /\ UNCHANGED <<boardVars, ie, irq, calls, out, due, calm>>

\* one value has been returned
Returned == IF me.left = 1 THEN GoIdle ELSE Goto("take") /\ me' = [me EXCEPT !.left = @ - 1]

\* adc_get_processed_sample: no sample, or a ring that is not warm, gives 0
CanTake == /\ Available(Flags, Chan) > 0
           /\ Chan.logsmoothlen = 0 \/ Flags.smooth_ready

TakeNothing ==
  /\ At("take") /\ ~CanTake
  /\ out' = [out EXCEPT ![me.c] = [log |-> 0, sum |-> 0, from |-> <<NoSample>>]]
  /\ Returned
  /\ UNCHANGED <<boardVars, ie, irq, calls, due, calm>>

\* (a full ring that starts over is marked warm again)
Take ==
  /\ At("take") /\ CanTake
  /\ IF Chan.logsmoothlen > 0 /\ RingFull(Chan)
     THEN Goto("load") /\ Assign(me, "smooth_ready", TRUE, "pick")
     ELSE Goto("pick") /\ UNCHANGED me
  /\ UNCHANGED <<boardVars, ie, irq, calls, out, due, calm>>

\* the last sample when it is fresh, else buf_read, which RingBuffer models step by step
TakeFresh ==
  /\ At("pick") /\ Flags.value_fresh
  /\ Goto("value")
  /\ UNCHANGED <<boardVars, ie, irq, me, calls, out, due, calm>>

ReadValue ==
  /\ At("value")
  /\ Assign([me EXCEPT !.sample = sample_buf[Chan.value_ptr]], "value_fresh", FALSE, "count")
  /\ Goto("load")
  /\ UNCHANGED <<boardVars, ie, irq, calls, out, due, calm>>

TakeBuffered ==
  /\ At("pick") /\ ~Flags.value_fresh
  /\ IF Chan.buf.count = 0
     THEN me' = [me EXCEPT !.sample = NoSample] /\ UNCHANGED chan
     ELSE /\ me' = [me EXCEPT !.sample = BufContents(Chan.buf)[1]]
          /\ chan' = [chan EXCEPT ![me.c].buf = BufConsume(@)]
  /\ Goto("count")
  /\ UNCHANGED <<flags, dev, sample_buf, adc, ie, irq, data, conv, calls, out, due, calm>>

\* smooth it, count it, and return it or the mean
CountSample ==
  /\ At("count")
  /\ LET s == IF Chan.logsmoothlen > 0 THEN Smooth(Chan, me.sample) ELSE Chan IN
     /\ chan' = [chan EXCEPT ![me.c] = [s EXCEPT !.reqsamples = IF @ > 0 THEN @ - 1 ELSE 0]]
     /\ out' = [out EXCEPT ![me.c] =
          IF s.logsmoothlen > 0
          THEN [log |-> s.logsmoothlen, sum |-> s.smoothsum, from |-> s.smoothbuf]
          ELSE [log |-> 0, sum |-> me.sample.no, from |-> <<me.sample>>]]
  /\ Returned
  /\ UNCHANGED <<flags, dev, sample_buf, adc, ie, irq, data, conv, calls, due, calm>>

-----------------------------------------------------------------------------
\* platform_adc_stop from the program, after op_pending = 0
InactivateLoad ==
  /\ At("inactivate")
  /\ me' = [me EXCEPT !.word = dev.ch_active]
  /\ Goto("inactive")
  /\ UNCHANGED <<boardVars, ie, irq, calls, out, due, calm>>

InactivateStore ==
  /\ At("inactive")
  /\ dev' = [dev EXCEPT !.ch_active = me.word \ {me.c}]
  /\ Goto("sequencer")
  /\ UNCHANGED <<flags, chan, sample_buf, adc, ie, irq, data, conv, me, calls, out, due, calm>>

StopSequencer ==
  /\ At("sequencer")
  /\ IF dev.ch_active = {}
     THEN /\ adc' = [adc EXCEPT !.enabled = FALSE]
          /\ dev' = [dev EXCEPT !.running = FALSE]
     ELSE UNCHANGED <<adc, dev>>
  /\ Goto(IF me.call = "smooth" THEN "length" ELSE "disable")
  /\ UNCHANGED <<flags, chan, sample_buf, ie, irq, data, conv, me, calls, out, due, calm>>

\* setsmoothing( id, 2^l ): adc_update_smoothing, which stops a pending operation
SetSmoothing(c, l) ==
  /\ "smooth" \in Habits
  /\ flags[c].op_pending => "live" \in Habits
  /\ Call(IF flags[c].op_pending THEN "load" ELSE "length",
          [Me0 EXCEPT !.call = "smooth", !.c = c, !.log = l,
                      !.bit = "op_pending", !.to = FALSE, !.then = "inactivate"])
  /\ due' = due \ {c}
  /\ calm' = (calm /\ ~flags[c].op_pending)

SetLength ==
  /\ At("length")
  /\ chan' = [chan EXCEPT ![me.c].logsmoothlen = me.log]
  /\ Goto(IF me.log = Chan.logsmoothlen THEN "flush" ELSE "allocate")
  /\ UNCHANGED <<flags, dev, sample_buf, adc, ie, irq, data, conv, me, calls, out, due, calm>>

Allocate ==
  /\ At("allocate")
  /\ chan' = [chan EXCEPT ![me.c].smoothbuf =
       [i \in 1..RingSize(Chan) |-> IF i \in DOMAIN @ THEN @[i] ELSE NoSample]]
  /\ Goto("flush")
  /\ UNCHANGED <<flags, dev, sample_buf, adc, ie, irq, data, conv, me, calls, out, due, calm>>

\* switching the filter off goes on without memory, anything else ends here
AllocateFails ==
  /\ At("allocate") /\ "oom" \in Habits
  /\ calm' = FALSE
  /\ chan' = [chan EXCEPT ![me.c].smoothbuf = <<>>, ![me.c].logsmoothlen = 0,
                          ![me.c].smoothidx = 0, ![me.c].smoothsum = 0]
  /\ Assign(me, "smooth_ready", FALSE, IF me.log = 0 THEN "flush" ELSE "idle")
  /\ Goto("load")
  /\ UNCHANGED <<flags, dev, sample_buf, adc, ie, irq, data, conv, calls, out, due>>

\* adc_flush_smoothing and buf_flush
FlushIndex ==
  /\ At("flush")
  /\ chan' = [chan EXCEPT ![me.c].smoothidx = 0]
  /\ Goto("sum")
  /\ UNCHANGED <<flags, dev, sample_buf, adc, ie, irq, data, conv, me, calls, out, due, calm>>

FlushSum ==
  /\ At("sum")
  /\ chan' = [chan EXCEPT ![me.c].smoothsum = 0]
  /\ Assign(me, "smooth_ready", FALSE, "zero")
  /\ Goto("load")
  /\ UNCHANGED <<flags, dev, sample_buf, adc, ie, irq, data, conv, calls, out, due, calm>>

FlushBuffers ==
  /\ At("zero")
  /\ chan' = [chan EXCEPT
       ![me.c].smoothbuf = IF Chan.logsmoothlen > 0 THEN [i \in DOMAIN @ |-> NoSample] ELSE @,
       ![me.c].buf = BufFlush(@)]
  /\ GoIdle
  /\ UNCHANGED <<flags, dev, sample_buf, adc, ie, irq, data, conv, calls, out, due, calm>>

\* setclock( id, clock, timer ): PLATFORM_ADC_OP_SET_TIMER, then _SET_CLOCK
SetClock(c, clocked, t) ==
  /\ "clock" \in Habits
  /\ clocked \/ t = 0
  /\ Call("timer", [Me0 EXCEPT !.call = "clock", !.c = c, !.clocked = clocked, !.timer = t,
                               !.bit = "op_pending", !.to = FALSE, !.then = "inactivate"])
  /\ due' = due \ {c}
  /\ calm' = FALSE

SetTimer ==
  /\ At("timer")
  /\ dev' = [dev EXCEPT !.running = @ /\ me.timer = dev.timer_id]
  /\ Goto("load")
  /\ UNCHANGED <<flags, chan, sample_buf, adc, ie, irq, data, conv, me, calls, out, due, calm>>

\* platform_adc_setclock disables the sequence and does not enable it again
DisableSequence ==
  /\ At("disable")
  /\ adc' = [adc EXCEPT !.enabled = FALSE]
  /\ dev' = [dev EXCEPT !.timer_id = me.timer]
  /\ Goto("clock")
  /\ UNCHANGED <<flags, chan, sample_buf, ie, irq, data, conv, me, calls, out, due, calm>>

\* the bit shares a byte with running; its load and its store are one step
ClockSet ==
  /\ At("clock")
  /\ dev' = [dev EXCEPT !.clocked = me.clocked]
  /\ GoIdle
  /\ UNCHANGED <<flags, chan, sample_buf, adc, ie, irq, data, conv, calls, out, due, calm>>

-----------------------------------------------------------------------------
ADCIntHandler == IntEnter \/ IntChannel \/ IntLeave

Calls ==
  \/ \E S \in SUBSET Channels \ {{}}, n \in Counts : Sample(S, n)
  \/ \E c \in Channels, n \in Counts \cup {0} : GetSamples(c, n)
  \/ \E c \in Channels, mode \in BOOLEAN : SetBlocking(c, mode)
  \/ \E c \in Channels, l \in LogLens : SetSmoothing(c, l)
  \/ \E c \in Channels, clocked \in BOOLEAN, t \in {0, 1} : SetClock(c, clocked, t)

Program ==
  \/ LoadByte \/ StoreByte
  \/ SetupChannel \/ SetupFails
  \/ StartCheck \/ StartCompare \/ StartSequence \/ StartFaults
  \/ StartEnable \/ StartRunning \/ StartTrigger
  \/ WaitSamples \/ WaitReturns \/ TakeNothing \/ Take \/ TakeFresh \/ ReadValue \/ TakeBuffered
  \/ CountSample
  \/ InactivateLoad \/ InactivateStore \/ StopSequencer
  \/ SetLength \/ Allocate \/ AllocateFails \/ FlushIndex \/ FlushSum \/ FlushBuffers
  \/ SetTimer \/ DisableSequence \/ ClockSet

Next == ADCIntHandler \/ TimerFires \/ ConversionLost \/ Calls \/ Program

Spec == Init /\ [][Next]_vars

\* The converter, the timer and the processor go on; the program gets its turn
\* again between interrupts, a conversion taking longer than the handler.
FairSpec == /\ Spec
            /\ WF_vars(ADCIntHandler) /\ WF_vars(TimerFires)
            /\ SF_vars(Program)

-----------------------------------------------------------------------------
(* Properties                                                              *)

In(call, c) == pc # "idle" /\ me.call = call /\ me.c = c

\* A channel that still waits for samples is never forgotten between calls: the
\* sequence runs, it is enabled, and a conversion is under way.  Nothing else
\* would start one (platform_adc_start_sequence does nothing when running is set).
Served ==
  calm /\ pc = "idle" /\ irq = Outside /\ dev.ch_active # {} =>
    dev.running /\ adc.enabled /\ adc.busy

\* The handler copies the samples by position: those it read from the converter
\* were converted with the channel table it files them under, although the
\* program may have changed the set of channels since.
Filed == calm /\ irq # Outside => data = dev.ch_state

\* smoothsum, kept by subtracting and adding in the handler and in the program,
\* is the sum of the ring it stands for.
SumOf(ring) ==
  LET sum[i \in 0..Len(ring)] == IF i = 0 THEN 0 ELSE sum[i - 1] + ring[i].no
  IN sum[Len(ring)]
SumOfRing(c) == SumOf(chan[c].smoothbuf)
SumIsRing ==
  \A c \in Channels :
    calm /\ chan[c].logsmoothlen > 0 /\ ~In("smooth", c) => chan[c].smoothsum = SumOfRing(c)

\* "averages are always over the same number of samples" (the manual of
\* adc.setsmoothing): when the filter becomes warm, every place of its ring holds
\* a conversion of its own channel.
WarmMeansFull ==
  [][\A c \in Channels : calm /\ ~flags[c].smooth_ready /\ flags'[c].smooth_ready =>
       /\ Len(chan'[c].smoothbuf) = RingSize(chan'[c])
       /\ \A v \in ToSet(chan'[c].smoothbuf) : v.of = c]_vars

\* op_pending, which isdone answers, tells whether the channel is being sampled,
\* and when it no longer is, the samples asked for and not taken yet are there.
RequestKept ==
  calm => \A c \in due :
    /\ flags[c].op_pending <=> c \in dev.ch_active
    /\ c \notin dev.ch_active /\ ~In("get", c) => Available(flags[c], chan[c]) >= chan[c].reqsamples

\* Whatever programs do: a blocked getsample of a channel being sampled ends when
\* conversions go on, interrupts are on and the channel has a buffer.
Converting == /\ dev.running /\ adc.enabled /\ ie
              /\ IF dev.clocked THEN adc.timer ELSE adc.busy \/ irq # Outside
WaitEndsIfConverting ==
  pc = "wait" /\ me.c \in dev.ch_active /\ Chan.buf.size > 0 /\ Converting ~> pc # "wait"

\* "Get a single conversion value from the buffer associated with a given
\* channel." (the manual of adc.getsample): what is returned for a channel was
\* converted from that channel.
OwnChannel == \A c \in Channels : \A v \in ToSet(out[c].from) : v.of \in {0, c}
=============================================================================
