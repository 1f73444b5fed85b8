------------------------------- MODULE AdcProofs -------------------------------
(***************************************************************************)
(* What Adc promises for every number of channels, every count and every   *)
(* number of calls and conversions, to programs that leave sampling        *)
(* channels and the clock alone and do not run out of memory (calm).       *)
(*                                                                         *)
(* No lock protects most of what the program and the handler share.  The   *)
(* invariant says why that is right for the start of a sequence: while the *)
(* program is in platform_adc_start_sequence no conversion is under way,   *)
(* so the handler does not run; and once it runs the program leaves the    *)
(* channel table alone.                                                    *)
(* The filters come after it: when a ring is full, and what its sum is.    *)
(***************************************************************************)
EXTENDS Adc, FiniteSetTheorems, WellFoundedInduction, TLAPS

ChanFields == {"reqsamples", "logsmoothlen", "smoothidx", "smoothsum", "smoothbuf", "value_ptr", "buf"}
BufFields  == {"size", "wptr", "rptr", "count", "slots"}
MeFields   == {"call", "c", "todo", "n", "log", "clocked", "timer", "left", "sample", "byte",
               "word", "bit", "to", "then"}
Flag       == [op_pending : {TRUE, FALSE}, blocking : {TRUE, FALSE},
               smooth_ready : {TRUE, FALSE}, value_fresh : {TRUE, FALSE}]

IsChan(s) == /\ DOMAIN s = ChanFields /\ s.reqsamples \in Nat
             /\ DOMAIN s.buf = BufFields /\ s.buf.count \in Nat

\* Where the program can be, having called what it calls.
Starting == {"compare", "sequence", "enable", "running"}
Sampling == {"setup", "start", "trigger", "fault"} \cup Starting
Getting  == {"wait", "waited", "take", "pick", "value", "count", "load", "store"}
Smoothing == {"length", "allocate", "flush", "sum", "zero", "load", "store"}

IsMe(m, p) ==
  /\ DOMAIN m = MeFields /\ m.c \in Channels /\ m.todo \subseteq Channels /\ m.n \in Nat
  /\ \/ p = "idle"
     \/ m.call = "none" /\ p \in {"load", "store"} /\ m.then = "idle" /\ m.bit = "blocking"
     \/ m.call = "sample" /\ p \in Sampling
     \/ m.call = "get" /\ p \in Getting
     \/ m.call = "smooth" /\ p \in Smoothing
  /\ m.call = "get" /\ p \in {"load", "store"} =>
       \/ m.then = "pick" /\ m.bit = "smooth_ready"
       \/ m.then = "count" /\ m.bit = "value_fresh"
  /\ m.call = "smooth" /\ p \in {"load", "store"} =>
       m.then = "zero" /\ m.bit = "smooth_ready"
  /\ p \in {"load", "store"} => m.to \in {TRUE, FALSE}
  /\ p = "store" => m.byte \in Flag

TypeOK ==
  /\ DOMAIN flags = Channels /\ \A c \in Channels : flags[c] \in Flag
  /\ DOMAIN chan = Channels /\ \A c \in Channels : IsChan(chan[c])
  /\ dev \in [ch_active : SUBSET Channels, last_ch_active : SUBSET Channels,
              running : {TRUE, FALSE}, clocked : {FALSE}, timer_id : {0, 1},
              ch_state : Seq(Channels)]
  /\ adc \in [enabled : {TRUE, FALSE}, busy : {TRUE, FALSE}, chans : Seq(Channels), timer : {TRUE, FALSE}]
  /\ irq = Outside \/ irq \in 0..Len(dev.ch_state)
  /\ due \subseteq Channels
  /\ IsMe(me, pc)

\* The converter and the handler: a sequence that is running is being converted, unless
\* the handler is at work or the first conversion is about to be started.
Underway ==
  /\ adc.busy => dev.running /\ irq = Outside /\ adc.chans = dev.ch_state
  /\ dev.running => adc.enabled
  /\ dev.running /\ irq = Outside /\ pc # "trigger" => adc.busy
  /\ pc \in Starting => ~dev.running /\ irq = Outside
  /\ pc = "trigger" => dev.running /\ ~adc.busy /\ irq = Outside
  /\ pc = "running" => adc.enabled
  /\ ~dev.running => dev.ch_active = {} \/ pc \in {"setup", "start"} \cup Starting
  /\ irq # Outside => data = dev.ch_state

Holds(seq, S) == {seq[i] : i \in DOMAIN seq} = S
OneToOne(seq) == \A i, j \in DOMAIN seq : seq[i] = seq[j] => i = j

\* The channel table: the handler visits each channel once, and only those that are
\* still to be sampled.
Table ==
  /\ OneToOne(dev.ch_state) /\ Holds(dev.ch_state, dev.last_ch_active)
  /\ pc \in {"enable", "running", "trigger"} => dev.ch_active = dev.last_ch_active
  /\ dev.running /\ irq = Outside => dev.last_ch_active \subseteq dev.ch_active
  /\ irq # Outside => \A i \in DOMAIN dev.ch_state : i > irq => dev.ch_state[i] \in dev.ch_active

\* Getting a sample takes it away before it is counted.
Taken(c) == IF pc = "count" /\ me.c = c THEN 1 ELSE 0

\* A request is marked, and the samples of one that has been served are there.
Marked(fl, c, active) == fl.op_pending <=> c \in active
Ready(fl, s, taken)   == Available(fl, s) + taken >= s.reqsamples

Request(c) ==
  /\ Marked(flags[c], c, dev.ch_active)
  /\ c \notin dev.ch_active => Ready(flags[c], chan[c], Taken(c))

Requests == \A c \in due : Request(c) /\ ~In("smooth", c)

CalmInv == TypeOK /\ Underway /\ Table /\ Requests
AInv    == calm => CalmInv

-----------------------------------------------------------------------------
(* The order of the channels                                               *)

\* How many channels of S come before n.
Rank(S, n) == Cardinality({m \in S : m < n})

\* Ranks run from 0 to one less than the number of elements, each once, in order.
LEMMA Ranks ==
  ASSUME NEW S \in SUBSET Nat, IsFiniteSet(S)
  PROVE  /\ Cardinality(S) \in Nat
         /\ \A n \in S : Rank(S, n) \in 0..(Cardinality(S) - 1)
         /\ \A m, n \in S : m < n => Rank(S, m) < Rank(S, n)
<1>1. ASSUME NEW n \in S
      PROVE  {m \in S : m < n} \in SUBSET S /\ {m \in S : m < n} # S
  BY <1>1
<1>2. \A n \in S : IsFiniteSet({m \in S : m < n}) /\ Rank(S, n) <= Cardinality(S)
                  /\ Rank(S, n) # Cardinality(S)
  BY <1>1, FS_Subset DEF Rank
<1>3. Cardinality(S) \in Nat /\ \A n \in S : Rank(S, n) \in Nat
  BY <1>2, FS_CardinalityType DEF Rank
<1>4. ASSUME NEW n \in S PROVE Rank(S, n) \in 0..(Cardinality(S) - 1)
  <2>1. Rank(S, n) <= Cardinality(S) /\ Rank(S, n) # Cardinality(S)  BY <1>2
  <2>2. Rank(S, n) \in Nat /\ Cardinality(S) \in Nat  BY <1>3
  <2> QED  BY <2>1, <2>2
<1>5. ASSUME NEW m \in S, NEW n \in S, m < n
      PROVE  Rank(S, m) < Rank(S, n)
  <2> DEFINE A == {x \in S : x < m}
             B == {x \in S : x < n}
  <2>1. A \in SUBSET B /\ A # B
    <3>1. m \in Nat /\ n \in Nat /\ \A x \in S : x \in Nat  OBVIOUS
    <3>2. \A x \in S : x < m => x < n  BY <1>5, <3>1
    <3>3. m \in B /\ m \notin A  BY <1>5, <3>1
    <3> QED  BY <3>2, <3>3
  <2>2. IsFiniteSet(B)  BY <1>2
  <2> HIDE DEF A, B
  <2>3. Cardinality(A) <= Cardinality(B) /\ Cardinality(A) # Cardinality(B)
    BY <2>1, <2>2, FS_Subset
  <2>4. Rank(S, m) = Cardinality(A) /\ Rank(S, n) = Cardinality(B)  BY DEF Rank, A, B
  <2> QED  BY <2>3, <2>4, <1>3
<1> QED  BY <1>3, <1>4, <1>5

\* A finite set of numbers can be put in order.
LEMMA OrderExists ==
  ASSUME NEW S \in SUBSET Nat, IsFiniteSet(S)
  PROVE  \E s \in [1..Cardinality(S) -> S] :
           \A i, j \in 1..Cardinality(S) : i < j => s[i] < s[j]
<1> DEFINE k == Cardinality(S)
           rank == [n \in S |-> Rank(S, n) + 1]
<1>1. k \in Nat /\ \A n \in S : rank[n] \in 1..k  BY Ranks
<1>2. \A m, n \in S : m < n => rank[m] < rank[n]  BY Ranks
<1>3. rank \in Injection(S, 1..k)
  <2>1. \A m, n \in S : rank[m] = rank[n] => m = n  BY <1>1, <1>2
  <2>2. rank \in [S -> 1..k]  BY <1>1
  <2> QED  BY <2>1, <2>2 DEF Injection, IsInjective
<1>4. IsFiniteSet(1..k) /\ Cardinality(1..k) = k  BY <1>1, FS_Interval
<1>5. rank \in Surjection(S, 1..k)
  <2> HIDE DEF rank, k
  <2>1. Cardinality(S) = Cardinality(1..k)  BY <1>4 DEF k
  <2> QED  BY <1>3, <1>4, <2>1, FS_Injection
<1> HIDE DEF rank
<1>6. \A i \in 1..k : \E n \in S : rank[n] = i  BY <1>5 DEF Surjection
<1> DEFINE s == [i \in 1..k |-> CHOOSE n \in S : rank[n] = i]
<1>7. \A i \in 1..k : s[i] \in S /\ rank[s[i]] = i  BY <1>6
<1>8. s \in [1..k -> S]  BY <1>7
<1> HIDE DEF s
<1>9. ASSUME NEW i \in 1..k, NEW j \in 1..k, i < j PROVE s[i] < s[j]
  <2>1. s[i] \in S /\ s[j] \in S /\ rank[s[i]] = i /\ rank[s[j]] = j  BY <1>7
  <2>2. s[i] \in Nat /\ s[j] \in Nat /\ i \in Nat /\ j \in Nat
    <3>1. s[i] \in Nat /\ s[j] \in Nat  BY <2>1
    <3>2. i \in Nat /\ j \in Nat  OBVIOUS
    <3> QED  BY <3>1, <3>2
  <2>3. s[i] # s[j]  BY <1>9, <2>1, <2>2
  <2>4. ~(s[j] < s[i])
    <3>1. s[j] < s[i] => j < i  BY <1>2, <2>1
    <3> QED  BY <1>9, <2>2, <3>1
  <2> QED  BY <2>2, <2>3, <2>4
<1> QED  BY <1>8, <1>9 DEF k

\* The channels of a sequence are those of its set, each once.
LEMMA SortedIs ==
  ASSUME NEW S \in SUBSET Channels
  PROVE  /\ Sorted(S) \in Seq(Channels)
         /\ OneToOne(Sorted(S)) /\ Holds(Sorted(S), S)
<1> DEFINE k == Cardinality(S)
           s == Sorted(S)
<1>0. S \in SUBSET Nat /\ IsFiniteSet(S)
  <2>1. IsFiniteSet(Channels)  BY AdcAssumption, FS_Interval DEF Channels
  <2>2. IsFiniteSet(S)  BY <2>1, FS_Subset
  <2>3. S \in SUBSET Nat  BY AdcAssumption DEF Channels
  <2> QED  BY <2>2, <2>3
<1>1. k \in Nat  BY <1>0, FS_CardinalityType
<1>2. s \in [1..k -> S] /\ \A i, j \in 1..k : i < j => s[i] < s[j]
  BY <1>0, OrderExists DEF Sorted
<1> HIDE DEF s
<1>3. \A i, j \in 1..k : s[i] = s[j] => i = j
  <2> SUFFICES ASSUME NEW i \in 1..k, NEW j \in 1..k, s[i] = s[j], i # j PROVE FALSE
    OBVIOUS
  <2>1. s[i] \in Nat /\ s[j] \in Nat  BY <1>0, <1>2
  <2>2. i < j \/ j < i  BY <1>1
  <2> QED  BY <1>2, <2>1, <2>2
<1>4. s \in Injection(1..k, S)  BY <1>2, <1>3 DEF Injection, IsInjective
<1>5. IsFiniteSet(1..k) /\ Cardinality(1..k) = k  BY <1>1, FS_Interval
<1>6. s \in Surjection(1..k, S)
  <2> HIDE DEF k
  <2>1. Cardinality(1..k) = Cardinality(S)  BY <1>5 DEF k
  <2> QED  BY <1>0, <1>4, <2>1, FS_Injection
<1>7. \A c \in S : \E i \in 1..k : s[i] = c  BY <1>6 DEF Surjection
<1>8. s \in Seq(Channels)
  <2>1. s \in [1..k -> Channels]  BY <1>2
  <2> HIDE DEF k
  <2> QED  BY <1>1, <2>1
<1>9. OneToOne(s)  BY <1>2, <1>3 DEF OneToOne
<1>10. Holds(s, S)  BY <1>2, <1>7 DEF Holds
<1> QED  BY <1>8, <1>9, <1>10 DEF s

-----------------------------------------------------------------------------
(* Steps of the program that touch nothing the handler uses                *)

\* A board that has just been set up samples nothing.
LEMMA InitAInv == Init => AInv
<1> SUFFICES ASSUME Init PROVE TypeOK /\ Underway /\ Table /\ Requests
  BY DEF AInv, CalmInv
<1>1. 1 \in Channels  BY AdcAssumption DEF Channels
<1>2. <<>> \in Seq(Channels) /\ Len(<<>>) = 0 /\ DOMAIN <<>> = {}  OBVIOUS
<1>3. IsMe(me, pc)  BY <1>1 DEF Init, IsMe, Me0, MeFields
<1>4. DOMAIN flags = Channels /\ \A c \in Channels : flags[c] \in Flag
  BY DEF Init, Cleared, Flag
<1>5. DOMAIN chan = Channels /\ \A c \in Channels : IsChan(chan[c])
  BY DEF Init, IsChan, ChanFields, BufFields, BufSet, BufUnset
<1>6. TypeOK  BY <1>1, <1>2, <1>3, <1>4, <1>5 DEF Init, TypeOK, Outside
<1>7. Underway  BY DEF Init, Underway, Starting, Outside
<1>8. Table  BY <1>2 DEF Init, Table, OneToOne, Holds, Outside
<1>9. Requests  BY DEF Init, Requests
<1> QED  BY <1>6, <1>7, <1>8, <1>9

\* A channel nothing has touched keeps its request.
LEMMA Untouched ==
  ASSUME NEW c, Request(c), flags'[c] = flags[c], chan'[c] = chan[c],
         c \in dev'.ch_active <=> c \in dev.ch_active, Taken(c)' = Taken(c)
  PROVE  Request(c)'
<1>1. Ready(flags[c], chan[c], Taken(c))' = Ready(flags'[c], chan'[c], Taken(c)')  OBVIOUS
<1>2. Marked(flags[c], c, dev.ch_active)'
  BY DEF Request, Marked
<1>3. c \notin dev'.ch_active => Ready(flags[c], chan[c], Taken(c))'
  BY Zenon DEF Request, Ready
<1> QED  BY <1>2, <1>3, Zenon DEF Request

\* A step of the program outside adc_sample and the counting of a sample.
LEMMA Aside ==
  ASSUME CalmInv, UNCHANGED <<boardVars, irq>>, due' \subseteq due, IsMe(me', pc'),
         pc \notin Sampling /\ pc # "count",
         pc' \notin Sampling \ {"setup"} /\ pc' # "count",
         pc' # "idle" /\ me'.call = "smooth" => me'.c \notin due'
  PROVE  CalmInv'
<1>1. TypeOK'
  <2>1. due' \subseteq Channels  BY DEF CalmInv, TypeOK
  <2> QED  BY <2>1, Zenon DEF CalmInv, TypeOK, boardVars
<1>2. Underway'
  <2>1. pc' \notin Starting /\ pc' # "trigger" /\ pc' # "running" /\ pc \notin Starting
        /\ pc # "trigger" /\ pc \notin {"setup", "start"}
    BY DEF Sampling, Starting
  <2> QED  BY <2>1 DEF CalmInv, Underway, boardVars
<1>3. Table'
  <2>1. pc' \notin {"enable", "running", "trigger"}  BY DEF Sampling, Starting
  <2> QED  BY <2>1, Zenon DEF CalmInv, Table, boardVars, OneToOne, Holds
<1>4. Requests'
  <2> SUFFICES ASSUME NEW c \in due' PROVE Request(c)' /\ ~In("smooth", c)'
    BY DEF Requests
  <2>1. Request(c)  BY DEF CalmInv, Requests
  <2>2. Taken(c) = 0 /\ Taken(c)' = 0  BY DEF Taken
  <2>3. Request(c)'  BY <2>1, <2>2, Untouched DEF boardVars
  <2> QED  BY <2>1, <2>3 DEF In
<1> QED  BY <1>1, <1>2, <1>3, <1>4 DEF CalmInv

\* At each place the program is in the call that goes through it.
LEMMA Where ==
  ASSUME NEW m, NEW p, IsMe(m, p)
  PROVE  /\ DOMAIN m = MeFields /\ m.c \in Channels /\ m.todo \subseteq Channels /\ m.n \in Nat
         /\ p \in {"wait", "waited", "take", "pick", "value", "count"} => m.call = "get"
         /\ p \in Sampling => m.call = "sample"
         /\ p \in {"length", "allocate", "flush", "sum", "zero"} => m.call = "smooth"
         /\ p \notin {"inactivate", "inactive", "sequencer", "timer", "disable", "clock"}
  BY DEF IsMe, Sampling, Starting, Getting, Smoothing

\* The program with no call to do is one the invariant allows.
LEMMA Idle ==
  ASSUME TypeOK
  PROVE  IsMe(Me0, "idle")
<1>1. 1 \in Channels  BY AdcAssumption DEF Channels
<1> QED  BY <1>1 DEF IsMe, Me0, MeFields

\* setblocking: the bit it is about to write is not op_pending.
LEMMA SetBlockingKeeps ==
  ASSUME CalmInv, NEW c \in Channels, NEW mode \in BOOLEAN, SetBlocking(c, mode)
  PROVE  CalmInv'
<1> DEFINE m == [Me0 EXCEPT !.c = c, !.bit = "blocking", !.to = mode]
<1>1. m.call = "none" /\ m.then = "idle" /\ m.bit = "blocking" /\ m.to = mode /\ m.c = c
      /\ m.todo = {} /\ m.n = 0 /\ DOMAIN m = MeFields
  BY DEF Me0, MeFields
<1>2. me' = m /\ pc = "idle" /\ pc' = "load" /\ UNCHANGED <<boardVars, irq, due>>
  BY DEF SetBlocking, Call, At, Goto
<1> HIDE DEF m
<1>3. mode \in {TRUE, FALSE}  OBVIOUS
<1>4. IsMe(m, "load")
  <2>1. m.to \in {TRUE, FALSE}  BY <1>1, <1>3, Zenon
  <2>2. m.call = "none" /\ m.then = "idle" /\ m.bit = "blocking" /\ m.c \in Channels
        /\ m.todo \subseteq Channels /\ m.n \in Nat /\ DOMAIN m = MeFields
    BY <1>1
  <2> QED  BY <2>1, <2>2 DEF IsMe
<1> QED  BY <1>1, <1>2, <1>4, Aside DEF Sampling, Starting

\* sample: the channels to set up are channels, and the call stands before them.
LEMMA SampleKeeps ==
  ASSUME CalmInv, NEW S \in SUBSET Channels, NEW n \in Counts, Sample(S, n)
  PROVE  CalmInv'
<1> DEFINE m == [Me0 EXCEPT !.call = "sample", !.todo = S, !.n = n]
<1>0. n \in Nat /\ 1 \in Channels  BY AdcAssumption DEF Channels
<1>1. m.call = "sample" /\ m.c = 1 /\ m.todo = S /\ m.n = n /\ DOMAIN m = MeFields
  BY DEF Me0, MeFields
<1>2. me' = m /\ pc = "idle" /\ pc' = "setup" /\ UNCHANGED <<boardVars, irq, due>>
  BY DEF Sample, Call, At, Goto
<1> HIDE DEF m
<1>3. IsMe(m, "setup")  BY <1>0, <1>1 DEF IsMe, Sampling
<1> QED  BY <1>1, <1>2, <1>3, Aside DEF Sampling, Starting

\* getsample, getsamples, insertsamples: nothing is taken yet.
LEMMA GetSamplesKeeps ==
  ASSUME CalmInv, NEW c \in Channels, NEW n \in Counts \cup {0}, GetSamples(c, n)
  PROVE  CalmInv'
<1> DEFINE m == [Me0 EXCEPT !.call = "get", !.c = c, !.n = n]
<1>0. n \in Nat  BY AdcAssumption
<1>1. m.call = "get" /\ m.c = c /\ m.todo = {} /\ m.n = n /\ DOMAIN m = MeFields
  BY DEF Me0, MeFields
<1>2. me' = m /\ pc = "idle" /\ pc' = "wait" /\ UNCHANGED <<boardVars, irq, due>>
  BY DEF GetSamples, Call, At, Goto
<1> HIDE DEF m
<1>3. IsMe(m, "wait")  BY <1>0, <1>1 DEF IsMe, Getting
<1> QED  BY <1>1, <1>2, <1>3, Aside DEF Sampling, Starting

\* The load of a flag byte: the copy is one the flags have had.
LEMMA LoadByteKeeps ==
  ASSUME CalmInv, LoadByte
  PROVE  CalmInv'
<1> DEFINE m == [me EXCEPT !.byte = Flags]
<1>0. IsMe(me, "load") /\ me.c \in Channels /\ Flags \in Flag
  BY Where DEF CalmInv, TypeOK, LoadByte, At, Flags
<1>1. DOMAIN m = MeFields /\ m.byte = Flags /\ m.c = me.c /\ m.todo = me.todo /\ m.n = me.n
      /\ m.call = me.call /\ m.then = me.then /\ m.bit = me.bit /\ m.to = me.to
  BY <1>0 DEF IsMe, MeFields
<1>2. me' = m /\ pc = "load" /\ pc' = "store" /\ UNCHANGED <<boardVars, irq, due>>
  BY DEF LoadByte, At, Goto
<1> HIDE DEF m
<1>3. IsMe(m, "store")  BY <1>0, <1>1 DEF IsMe, Getting, Smoothing, Sampling, Starting
<1>4. m.call = "smooth" => m.c \notin due  BY <1>1, <1>2 DEF CalmInv, Requests, In
<1> QED  BY <1>2, <1>3, <1>4, Aside DEF Sampling, Starting

\* Moving on in a call for a sample.
LEMMA MoveOn ==
  ASSUME CalmInv, UNCHANGED <<boardVars, irq, due>>, NEW m, NEW p,
         pc \in Getting \ {"count", "load", "store"}, me' = m, pc' = p,
         \/ p = "idle" /\ m = Me0
         \/ /\ DOMAIN m = MeFields /\ m.c = me.c /\ m.todo = me.todo /\ m.n = me.n /\ m.call = me.call
            /\ \/ p \in {"wait", "waited", "take", "pick", "value"}
               \/ /\ p = "load" /\ m.to \in {TRUE, FALSE}
                  /\ \/ m.then = "pick" /\ m.bit = "smooth_ready"
                     \/ m.then = "count" /\ m.bit = "value_fresh"
  PROVE  CalmInv'
<1>1. IsMe(me, pc) /\ me.c \in Channels /\ me.todo \subseteq Channels /\ me.n \in Nat /\ me.call = "get"
  BY Where DEF CalmInv, TypeOK, Getting
<1>2. IsMe(m, p)
  <2>1. CASE p = "idle"  BY <2>1, Idle DEF CalmInv
  <2>2. CASE p # "idle"  BY <2>2, <1>1 DEF IsMe, Getting
  <2> QED  BY <2>1, <2>2
<1> QED  BY <1>1, <1>2, Aside DEF Sampling, Starting, Getting

\* me is a record with all its fields.
LEMMA MeNow ==
  ASSUME CalmInv
  PROVE  DOMAIN me = MeFields
BY Where DEF CalmInv, TypeOK

\* adc_wait_samples goes on waiting or goes on.
LEMMA WaitSamplesKeeps ==
  ASSUME CalmInv, WaitSamples
  PROVE  CalmInv'
<1>1. pc = "wait" /\ pc' = "waited" /\ me' = me /\ UNCHANGED <<boardVars, irq, due>>
  BY DEF WaitSamples, At, Goto
<1> QED  BY <1>1, MoveOn, MeNow DEF Getting

\* adc_wait_samples answers how many samples there are, at most those asked for.
LEMMA WaitReturnsKeeps ==
  ASSUME CalmInv, WaitReturns
  PROVE  CalmInv'
<1>1. pc = "waited" /\ UNCHANGED <<boardVars, irq, due>>
  BY DEF WaitReturns, At
<1>2. \/ pc' = "idle" /\ me' = Me0
      \/ pc' = "take" /\ \E left : me' = [me EXCEPT !.left = left]
  BY DEF WaitReturns, GoIdle, Goto
<1>3. CASE pc' = "idle" /\ me' = Me0  BY <1>1, <1>3, MoveOn DEF Getting
<1>4. ASSUME NEW left, pc' = "take", me' = [me EXCEPT !.left = left]
      PROVE  CalmInv'
  <2> DEFINE m == [me EXCEPT !.left = left]
  <2>1. DOMAIN m = MeFields /\ m.c = me.c /\ m.todo = me.todo /\ m.n = me.n /\ m.call = me.call
    BY MeNow DEF MeFields
  <2>2. me' = m  BY <1>4
  <2> HIDE DEF m
  <2> QED  BY <1>1, <1>4, <2>1, <2>2, MoveOn DEF Getting
<1> QED  BY <1>2, <1>3, <1>4

\* No sample to give: the call ends or goes on to the next.
LEMMA TakeNothingKeeps ==
  ASSUME CalmInv, TakeNothing
  PROVE  CalmInv'
<1>1. pc = "take" /\ UNCHANGED <<boardVars, irq, due>>
  BY DEF TakeNothing, At
<1>2. \/ pc' = "idle" /\ me' = Me0
      \/ pc' = "take" /\ me' = [me EXCEPT !.left = @ - 1]
  BY DEF TakeNothing, Returned, GoIdle, Goto
<1>3. CASE pc' = "idle" /\ me' = Me0  BY <1>1, <1>3, MoveOn DEF Getting
<1>4. CASE pc' = "take" /\ me' = [me EXCEPT !.left = @ - 1]
  <2> DEFINE m == [me EXCEPT !.left = @ - 1]
  <2>1. DOMAIN m = MeFields /\ m.c = me.c /\ m.todo = me.todo /\ m.n = me.n /\ m.call = me.call
    BY MeNow DEF MeFields
  <2>2. me' = m  BY <1>4
  <2> HIDE DEF m
  <2> QED  BY <1>1, <1>4, <2>1, <2>2, MoveOn DEF Getting
<1> QED  BY <1>2, <1>3, <1>4

\* A sample is there: it is read from the fresh value or from the buffer.
LEMMA TakeKeeps ==
  ASSUME CalmInv, Take
  PROVE  CalmInv'
<1>1. pc = "take" /\ UNCHANGED <<boardVars, irq, due>>
  BY DEF Take, At
<1> DEFINE m == [me EXCEPT !.bit = "smooth_ready", !.to = TRUE, !.then = "pick"]
<1>2. (pc' = "load" /\ me' = m) \/ (pc' = "pick" /\ me' = me)
  BY DEF Take, Assign, Goto
<1>3. DOMAIN m = MeFields /\ m.c = me.c /\ m.todo = me.todo /\ m.n = me.n /\ m.call = me.call
      /\ m.then = "pick" /\ m.to = TRUE /\ m.bit = "smooth_ready"
  BY MeNow DEF MeFields
<1> HIDE DEF m
<1>4. CASE pc' = "load" /\ me' = m  BY <1>1, <1>3, <1>4, MoveOn DEF Getting
<1>5. CASE pc' = "pick" /\ me' = me  BY <1>1, <1>5, MoveOn, MeNow DEF Getting
<1> QED  BY <1>2, <1>4, <1>5

\* The fresh value is chosen; value_fresh still says it is there.
LEMMA TakeFreshKeeps ==
  ASSUME CalmInv, TakeFresh
  PROVE  CalmInv'
<1>1. pc = "pick" /\ pc' = "value" /\ me' = me /\ UNCHANGED <<boardVars, irq, due>>
  BY DEF TakeFresh, At, Goto
<1> QED  BY <1>1, MoveOn, MeNow DEF Getting

\* The fresh value is read, and its flag is next to be cleared.
LEMMA ReadValueKeeps ==
  ASSUME CalmInv, ReadValue
  PROVE  CalmInv'
<1> DEFINE k == [me EXCEPT !.sample = sample_buf[Chan.value_ptr]]
           m == [k EXCEPT !.bit = "value_fresh", !.to = FALSE, !.then = "count"]
<1>1. pc = "value" /\ pc' = "load" /\ me' = m /\ UNCHANGED <<boardVars, irq, due>>
  BY DEF ReadValue, At, Goto, Assign
<1>2. DOMAIN m = MeFields /\ m.c = me.c /\ m.todo = me.todo /\ m.n = me.n /\ m.call = me.call
      /\ m.then = "count" /\ m.to = FALSE /\ m.bit = "value_fresh"
  BY MeNow DEF MeFields
<1> HIDE DEF m
<1> QED  BY <1>1, <1>2, MoveOn DEF Getting

-----------------------------------------------------------------------------
(* Steps of adc_sample                                                     *)

DevType == [ch_active : SUBSET Channels, last_ch_active : SUBSET Channels,
            running : {TRUE, FALSE}, clocked : {FALSE}, timer_id : {0, 1},
            ch_state : Seq(Channels)]
AdcType == [enabled : {TRUE, FALSE}, busy : {TRUE, FALSE}, chans : Seq(Channels),
            timer : {TRUE, FALSE}]

\* A new sequence deals out the slots, and asks for nothing else.
LEMMA ResequenceIs ==
  ASSUME TypeOK, Resequence
  PROVE  /\ dev' \in DevType
         /\ dev'.ch_active = dev.ch_active /\ dev'.last_ch_active = dev.ch_active
         /\ dev'.running = dev.running
         /\ OneToOne(dev'.ch_state) /\ Holds(dev'.ch_state, dev.ch_active)
         /\ DOMAIN flags' = Channels /\ DOMAIN chan' = Channels
         /\ \A c \in Channels :
              /\ flags'[c] \in Flag /\ IsChan(chan'[c])
              /\ flags'[c].op_pending = flags[c].op_pending
              /\ c \notin dev.ch_active => flags'[c] = flags[c] /\ chan'[c] = chan[c]
<1> DEFINE seq == NewSequence
<1>1. seq \in Seq(Channels) /\ OneToOne(seq) /\ Holds(seq, dev.ch_active)
  BY SortedIs DEF TypeOK, NewSequence
<1>2. dev' = [dev EXCEPT !.ch_state = seq, !.last_ch_active = dev.ch_active]
  BY DEF Resequence
<1> HIDE DEF seq
<1>3. /\ dev' \in DevType
      /\ dev'.ch_active = dev.ch_active /\ dev'.last_ch_active = dev.ch_active
      /\ dev'.running = dev.running /\ dev'.ch_state = seq
  BY <1>1, <1>2 DEF TypeOK, DevType
<1>4. DOMAIN flags' = Channels /\ DOMAIN chan' = Channels  BY DEF Resequence
<1>5. ASSUME NEW c \in Channels
      PROVE  /\ flags'[c] \in Flag
             /\ flags'[c].op_pending = flags[c].op_pending
             /\ c \notin dev.ch_active => flags'[c] = flags[c]
  <2>1. flags'[c] = IF c \in dev.ch_active THEN [flags[c] EXCEPT !.value_fresh = FALSE]
                                           ELSE flags[c]
    BY DEF Resequence
  <2>2. flags[c] \in Flag  BY DEF TypeOK
  <2> QED  BY <2>1, <2>2 DEF Flag
<1>6. ASSUME NEW c \in Channels
      PROVE  IsChan(chan'[c]) /\ (c \notin dev.ch_active => chan'[c] = chan[c])
  <2>1. \E v : chan'[c] = IF c \in dev.ch_active THEN [chan[c] EXCEPT !.value_ptr = v] ELSE chan[c]
    BY DEF Resequence
  <2>2. IsChan(chan[c])  BY DEF TypeOK
  <2> QED  BY <2>1, <2>2 DEF IsChan, ChanFields
<1> QED  BY <1>1, <1>3, <1>4, <1>5, <1>6

\* adc_setup_channel, with interrupts off, marks the channel and makes it active in one
\* step; its new request is due from here on.
LEMMA SetupChannelKeeps ==
  ASSUME CalmInv, SetupChannel
  PROVE  CalmInv'
<1>0. TypeOK /\ Underway /\ Table /\ Requests  BY DEF CalmInv
<1>1. pc = "setup" /\ irq = Outside /\ UNCHANGED <<adc, irq, data>>
  BY DEF SetupChannel, At
<1> DEFINE New(c, s) == [s EXCEPT !.reqsamples = me.n,
             !.buf = IF s.buf.size # me.n THEN BufFlush(BufSet(s.buf, me.n)) ELSE s.buf]
<1>2. PICK c \in me.todo :
        /\ chan' = [chan EXCEPT ![c].reqsamples = me.n,
                      ![c].buf = IF @.size # me.n THEN BufFlush(BufSet(@, me.n)) ELSE @]
        /\ flags' = [flags EXCEPT ![c].op_pending = TRUE]
        /\ dev' = [dev EXCEPT !.ch_active = @ \cup {c}]
        /\ me' = [me EXCEPT !.todo = @ \ {c}]
        /\ pc' = IF me.todo = {c} THEN "start" ELSE "setup"
        /\ due' = due \cup {c}
  BY <1>1, Zenon DEF SetupChannel, Enlist, Goto
<1>3. IsMe(me, pc) /\ DOMAIN me = MeFields /\ me.todo \subseteq Channels /\ me.n \in Nat /\ me.c \in Channels
      /\ me.call = "sample"
  BY <1>0, <1>1, Where DEF TypeOK, Sampling
<1>4. c \in Channels  BY <1>3
<1>5. IsChan(New(c, chan[c])) /\ New(c, chan[c]).reqsamples = me.n
  <2>1. IsChan(chan[c])  BY <1>0, <1>4 DEF TypeOK
  <2> QED  BY <1>3, <2>1 DEF IsChan, ChanFields, BufFields, BufFlush, BufSet
<1> HIDE DEF New
<1>6. DOMAIN chan' = Channels /\ \A d \in Channels : chan'[d] = IF d = c THEN New(c, chan[c]) ELSE chan[d]
  <2>1. DOMAIN chan = Channels /\ IsChan(chan[c])  BY <1>0, <1>4 DEF TypeOK
  <2> QED  BY <1>2, <1>4, <2>1 DEF New, IsChan, ChanFields
<1>7. DOMAIN flags' = Channels
      /\ \A d \in Channels : /\ flags'[d] \in Flag
                             /\ d # c => flags'[d] = flags[d]
                             /\ d = c => flags'[d].op_pending
  BY <1>0, <1>2, <1>4 DEF TypeOK, Flag
<1>8. /\ dev' \in DevType /\ dev'.ch_active = dev.ch_active \cup {c}
      /\ dev'.last_ch_active = dev.last_ch_active /\ dev'.running = dev.running
      /\ dev'.ch_state = dev.ch_state
  BY <1>0, <1>2, <1>4 DEF TypeOK, DevType
<1>9. IsMe(me', pc')
  <2>1. /\ DOMAIN me' = MeFields /\ me'.todo \subseteq Channels /\ me'.n \in Nat /\ me'.c \in Channels
        /\ me'.call = "sample"
    BY <1>2, <1>3 DEF MeFields
  <2>2. pc' \in {"start", "setup"}  BY <1>2
  <2> QED  BY <2>1, <2>2 DEF IsMe, Sampling
<1>10. TypeOK'
  <2>1. due' \subseteq Channels  BY <1>0, <1>2, <1>4 DEF TypeOK
  <2>2. \A d \in Channels : IsChan(chan'[d])  BY <1>0, <1>5, <1>6 DEF TypeOK
  <2> QED  BY <1>0, <1>1, <1>6, <1>7, <1>8, <1>9, <2>1, <2>2 DEF TypeOK, DevType
<1>11. Underway'
  BY <1>0, <1>1, <1>2, <1>8 DEF Underway, Starting
<1>12. Table'
  <2>1. pc' \notin {"enable", "running", "trigger"}  BY <1>2
  <2> QED  BY <1>0, <1>1, <1>8, <2>1 DEF Table
<1>13. Requests'
  <2> SUFFICES ASSUME NEW d \in due' PROVE Request(d)' /\ ~In("smooth", d)'
    BY DEF Requests
  <2>1. d \in Channels  BY <1>0, <1>2, <1>4 DEF TypeOK
  <2>2. ~In("smooth", d)'
    <3>1. me'.call = "sample"  BY <1>2, <1>3 DEF MeFields
    <3> QED  BY <3>1 DEF In
  <2>3. ASSUME d = c PROVE Request(d)'
    <3>1. flags'[d].op_pending /\ d \in dev'.ch_active  BY <2>1, <2>3, <1>7, <1>8
    <3> QED  BY <3>1, Zenon DEF Request, Marked
  <2>4. ASSUME d # c PROVE Request(d)'
    <3>1. Request(d)  BY <1>0, <1>2, <2>4 DEF Requests
    <3>2. Taken(d) = 0 /\ Taken(d)' = 0  BY <1>1, <1>2 DEF Taken
    <3>3. flags'[d] = flags[d] /\ chan'[d] = chan[d]
          /\ (d \in dev'.ch_active <=> d \in dev.ch_active)
      BY <2>1, <2>4, <1>6, <1>7, <1>8
    <3>4. Taken(d)' = Taken(d)  BY <3>2
    <3> QED  BY <3>1, <3>3, <3>4, Untouched, Zenon
  <2> QED  BY <2>2, <2>3, <2>4
<1> QED  BY <1>10, <1>11, <1>12, <1>13 DEF CalmInv

\* The requests are the same when no channel starts or stops.
LEMMA SameRequests ==
  ASSUME CalmInv, due' = due, dev'.ch_active = dev.ch_active,
         \A c \in Channels : /\ flags'[c].op_pending = flags[c].op_pending
                             /\ c \notin dev.ch_active => flags'[c] = flags[c] /\ chan'[c] = chan[c],
         \/ pc # "count" /\ pc' # "count" /\ (pc' = "idle" \/ me'.call # "smooth")
         \/ pc' = pc /\ me' = me
  PROVE  Requests'
<1> SUFFICES ASSUME NEW c \in due PROVE Request(c)' /\ ~In("smooth", c)'
  BY DEF Requests
<1>1. c \in Channels /\ Request(c) /\ ~In("smooth", c)  BY DEF CalmInv, TypeOK, Requests
<1>2. Taken(c)' = Taken(c)  BY DEF Taken
<1>3. Request(c)'
  <2>1. Marked(flags[c], c, dev.ch_active)'  BY <1>1 DEF Request, Marked
  <2>2. c \notin dev.ch_active => Ready(flags[c], chan[c], Taken(c))'
    BY <1>1, <1>2, Zenon DEF Request
  <2> QED  BY <2>1, <2>2, Zenon DEF Request
<1> QED  BY <1>1, <1>3 DEF In

\* Steps that start a sequence and touch neither flags nor buffers.
LEMMA StartStep ==
  ASSUME CalmInv, UNCHANGED <<flags, chan, irq, data, due>>, irq = Outside,
         pc \in Sampling, (pc' \in Sampling /\ me' = me) \/ (pc' = "idle" /\ me' = Me0),
         dev' \in DevType, adc' \in AdcType,
         dev'.ch_active = dev.ch_active /\ dev'.last_ch_active = dev.last_ch_active
           /\ dev'.ch_state = dev.ch_state,
         Underway',
         pc' \in {"enable", "running", "trigger"} => dev.ch_active = dev.last_ch_active,
         dev'.running => dev.running \/ dev.ch_active = dev.last_ch_active
  PROVE  CalmInv'
<1>0. TypeOK /\ Underway /\ Table /\ Requests  BY DEF CalmInv
<1>1. me.call = "sample" /\ me.c \in Channels /\ me.todo \subseteq Channels /\ me.n \in Nat
      /\ DOMAIN me = MeFields
  BY <1>0, Where DEF TypeOK
<1>2. IsMe(me', pc')
  <2>1. CASE pc' = "idle"  BY <2>1, <1>0, Idle DEF Sampling, Starting
  <2>2. CASE pc' # "idle"
    <3>1. pc' \in Sampling /\ me' = me  BY <2>2
    <3>2. pc' \notin {"load", "store"}  BY <3>1 DEF Sampling, Starting
    <3> QED  BY <1>1, <3>1, <3>2 DEF IsMe
  <2> QED  BY <2>1, <2>2
<1>3. TypeOK'
  <2>1. due \subseteq Channels /\ DOMAIN flags = Channels /\ DOMAIN chan = Channels
        /\ (\A c \in Channels : flags[c] \in Flag) /\ (\A c \in Channels : IsChan(chan[c]))
    BY <1>0 DEF TypeOK
  <2> QED  BY <1>2, <2>1 DEF TypeOK, DevType, AdcType
<1>4. Table'  BY <1>0 DEF Table
<1>5. Requests'
  <2>1. pc # "count" /\ pc' # "count"  BY DEF Sampling, Starting
  <2>2. pc' = "idle" \/ me'.call # "smooth"  BY <1>1
  <2> QED  BY <2>1, <2>2, SameRequests
<1> QED  BY <1>3, <1>4, <1>5 DEF CalmInv

\* dev and adc are records of the types named.
LEMMA Devices ==
  ASSUME CalmInv
  PROVE  dev \in DevType /\ adc \in AdcType
BY DEF CalmInv, TypeOK, DevType, AdcType

\* platform_adc_start_sequence goes on only when no sequence runs.
LEMMA StartCheckKeeps ==
  ASSUME CalmInv, StartCheck
  PROVE  CalmInv'
<1>1. pc = "start" /\ irq = Outside /\ UNCHANGED <<flags, chan, dev, adc, irq, data, due>>
  BY DEF StartCheck, At, boardVars
<1>2. IF dev.running THEN pc' = "idle" /\ me' = Me0 ELSE pc' = "compare" /\ me' = me
  BY DEF StartCheck, GoIdle, Goto
<1>3. Underway'  BY <1>1, <1>2 DEF CalmInv, Underway, Starting
<1>4. pc' \notin {"enable", "running", "trigger"}  BY <1>2
<1>5. pc \in Sampling /\ ((pc' \in Sampling /\ me' = me) \/ (pc' = "idle" /\ me' = Me0))
  BY <1>1, <1>2 DEF Sampling, Starting
<1> QED  BY <1>1, <1>3, <1>4, <1>5, Devices, StartStep

\* The sequence is made anew when its channels have changed.
LEMMA StartCompareKeeps ==
  ASSUME CalmInv, StartCompare
  PROVE  CalmInv'
<1>1. /\ pc = "compare" /\ irq = Outside /\ me' = me
      /\ UNCHANGED <<flags, chan, dev, adc, irq, data, due>>
  BY DEF StartCompare, At, boardVars
<1>2. pc' = IF dev.ch_active # dev.last_ch_active THEN "sequence" ELSE "enable"
  BY DEF StartCompare, Goto
<1>3. Underway'  BY <1>1, <1>2 DEF CalmInv, Underway, Starting
<1>5. pc \in Sampling /\ pc' \in Sampling
  BY <1>1, <1>2 DEF Sampling, Starting
<1>6. pc' \in {"enable", "running", "trigger"} => dev.ch_active = dev.last_ch_active
  BY <1>2
<1> QED  BY <1>1, <1>3, <1>5, <1>6, Devices, StartStep

\* An empty sequence, where the processor need not stop.
LEMMA StartFaultsKeeps ==
  ASSUME CalmInv, StartFaults
  PROVE  CalmInv'
<1>1. /\ pc = "sequence" /\ pc' = "fault" /\ irq = Outside /\ me' = me /\ dev.ch_active = {}
      /\ UNCHANGED <<flags, chan, dev, adc, irq, data, due>>
  BY DEF StartFaults, At, Goto, boardVars
<1>3. Underway'  BY <1>1 DEF CalmInv, Underway, Starting
<1>5. pc \in Sampling /\ pc' \in Sampling  BY <1>1 DEF Sampling, Starting
<1> QED  BY <1>1, <1>3, <1>5, Devices, StartStep

\* The sequence is enabled before it runs.
LEMMA StartEnableKeeps ==
  ASSUME CalmInv, StartEnable
  PROVE  CalmInv'
<1>1. /\ pc = "enable" /\ pc' = "running" /\ irq = Outside /\ me' = me
      /\ adc' = [adc EXCEPT !.enabled = TRUE]
      /\ UNCHANGED <<flags, chan, dev, irq, data, due>>
  BY DEF StartEnable, At, Goto
<1>2. adc' \in AdcType /\ adc'.enabled /\ adc'.busy = adc.busy /\ adc'.chans = adc.chans
  BY <1>1, Devices DEF AdcType
<1>3. Underway'  BY <1>1, <1>2 DEF CalmInv, Underway, Starting
<1>5. pc \in Sampling /\ pc' \in Sampling  BY <1>1 DEF Sampling, Starting
<1>6. dev.ch_active = dev.last_ch_active  BY <1>1 DEF CalmInv, Table
<1> QED  BY <1>1, <1>2, <1>3, <1>5, <1>6, Devices, StartStep

\* running is set before the first conversion is triggered.
LEMMA StartRunningKeeps ==
  ASSUME CalmInv, StartRunning
  PROVE  CalmInv'
<1>1. /\ pc = "running" /\ pc' = "trigger" /\ irq = Outside /\ me' = me
      /\ dev' = [dev EXCEPT !.running = TRUE]
      /\ UNCHANGED <<flags, chan, adc, irq, data, due>>
  BY DEF StartRunning, At, Goto
<1>2. dev' \in DevType /\ dev'.running /\ dev'.ch_active = dev.ch_active
      /\ dev'.last_ch_active = dev.last_ch_active /\ dev'.ch_state = dev.ch_state
  BY <1>1, Devices DEF DevType
<1>3. Underway'  BY <1>1, <1>2 DEF CalmInv, Underway, Starting
<1>5. pc \in Sampling /\ pc' \in Sampling  BY <1>1 DEF Sampling, Starting
<1>6. dev.ch_active = dev.last_ch_active  BY <1>1 DEF CalmInv, Table
<1> QED  BY <1>1, <1>2, <1>3, <1>5, <1>6, Devices, StartStep

\* The first conversion is under way; the handler can come from here on.
LEMMA StartTriggerKeeps ==
  ASSUME CalmInv, StartTrigger
  PROVE  CalmInv'
<1>0. TypeOK /\ Underway /\ Table  BY DEF CalmInv
<1>1. /\ pc = "trigger" /\ pc' = "idle" /\ irq = Outside /\ me' = Me0
      /\ UNCHANGED <<flags, chan, dev, irq, data, due>>
  BY DEF StartTrigger, At, GoIdle
<1>2. adc.enabled /\ dev.running /\ ~dev.clocked
  BY <1>0, <1>1 DEF Underway, TypeOK
<1>3. adc' = [adc EXCEPT !.busy = TRUE, !.chans = dev.ch_state]
  BY <1>2 DEF StartTrigger, Triggered
<1>4. dev \in DevType /\ adc \in AdcType  BY Devices
<1>5. adc' \in AdcType /\ adc'.busy /\ adc'.enabled /\ adc'.chans = dev.ch_state
  BY <1>2, <1>3, <1>4 DEF AdcType, DevType
<1>6. Underway'  BY <1>0, <1>1, <1>2, <1>5 DEF Underway, Starting
<1>7. pc \in Sampling  BY <1>1 DEF Sampling
<1> QED  BY <1>1, <1>2, <1>4, <1>5, <1>6, <1>7, StartStep

\* The channel table is written while no conversion is under way.
LEMMA StartSequenceKeeps ==
  ASSUME CalmInv, StartSequence
  PROVE  CalmInv'
<1>0. TypeOK /\ Underway /\ Table /\ Requests  BY DEF CalmInv
<1>1. /\ pc = "sequence" /\ pc' = "enable" /\ irq = Outside /\ me' = me /\ Resequence
      /\ adc' = [adc EXCEPT !.enabled = TRUE]
      /\ UNCHANGED <<irq, data, due>>
  BY DEF StartSequence, At, Goto
<1>2. /\ dev' \in DevType
      /\ dev'.ch_active = dev.ch_active /\ dev'.last_ch_active = dev.ch_active
      /\ dev'.running = dev.running
      /\ OneToOne(dev'.ch_state) /\ Holds(dev'.ch_state, dev.ch_active)
      /\ DOMAIN flags' = Channels /\ DOMAIN chan' = Channels
      /\ \A c \in Channels :
           /\ flags'[c] \in Flag /\ IsChan(chan'[c])
           /\ flags'[c].op_pending = flags[c].op_pending
           /\ c \notin dev.ch_active => flags'[c] = flags[c] /\ chan'[c] = chan[c]
  BY <1>0, <1>1, ResequenceIs
<1>3. ~dev.running /\ ~adc.busy  BY <1>0, <1>1 DEF Underway, Starting
<1>4. adc' \in AdcType /\ adc'.enabled /\ ~adc'.busy  BY <1>1, <1>3, Devices DEF AdcType
<1>5. me.call = "sample" /\ me.c \in Channels /\ me.todo \subseteq Channels /\ me.n \in Nat
      /\ DOMAIN me = MeFields
  BY <1>0, <1>1, Where DEF TypeOK, Sampling, Starting
<1>6. IsMe(me', pc')  BY <1>1, <1>5 DEF IsMe, Sampling, Starting
<1>7. TypeOK'
  <2>1. due' \subseteq Channels  BY <1>0, <1>1 DEF TypeOK
  <2> QED  BY <1>1, <1>2, <1>4, <1>6, <2>1 DEF TypeOK, DevType, AdcType
<1>8. Underway'  BY <1>1, <1>2, <1>3, <1>4 DEF Underway, Starting
<1>9. Table'  BY <1>1, <1>2, <1>3 DEF Table
<1>10. Requests'
  <2>1. pc # "count" /\ pc' # "count" /\ me'.call # "smooth"  BY <1>1, <1>5
  <2> QED  BY <1>1, <1>2, <2>1, SameRequests
<1> QED  BY <1>7, <1>8, <1>9, <1>10 DEF CalmInv

-----------------------------------------------------------------------------
(* Taking a sample, and storing a flag                                     *)

\* A fresh sample counts for one more than the buffer holds (adc_samples_available).
LEMMA AvailableIs ==
  ASSUME NEW fl \in Flag, NEW s, IsChan(s)
  PROVE  /\ Available(fl, s) \in Nat
         /\ s.buf.count <= Available(fl, s) /\ Available(fl, s) <= s.buf.count + 1
         /\ ~fl.value_fresh => Available(fl, s) = s.buf.count
BY DEF Flag, IsChan, Available

\* The same flags and elements are as many samples.
LEMMA AvailableSame ==
  ASSUME NEW fl, NEW gl, NEW s, NEW t,
         fl.value_fresh = gl.value_fresh, s.buf.count = t.buf.count
  PROVE  Available(fl, s) = Available(gl, t)
BY DEF Available

\* The store of a flag byte: when it overwrites a change of the handler's the request of
\* the channel is due no more, otherwise op_pending stays as it was.
LEMMA StoreByteKeeps ==
  ASSUME CalmInv, StoreByte
  PROVE  CalmInv'
<1>0. TypeOK /\ Underway /\ Table /\ Requests  BY DEF CalmInv
<1> DEFINE b == [me.byte EXCEPT ![me.bit] = me.to]
<1>1. /\ pc = "store" /\ irq = Outside /\ flags' = [flags EXCEPT ![me.c] = b]
      /\ due' = (IF me.byte = Flags THEN due ELSE due \ {me.c})
      /\ UNCHANGED <<chan, dev, adc, irq, data>>
  BY DEF StoreByte, At
<1>2. (pc' = "idle" /\ me' = Me0) \/ (me.then # "idle" /\ pc' = me.then /\ me' = me)
  BY DEF StoreByte, GoIdle, Goto
<1>3. /\ IsMe(me, "store") /\ me.c \in Channels /\ me.byte \in Flag /\ me.to \in {TRUE, FALSE}
      /\ DOMAIN me = MeFields /\ me.todo \subseteq Channels /\ me.n \in Nat
  BY <1>0, <1>1 DEF TypeOK, IsMe
<1>4. \/ me.call = "none" /\ me.then = "idle" /\ me.bit = "blocking"
      \/ me.call = "get" /\ me.then = "pick" /\ me.bit = "smooth_ready"
      \/ me.call = "get" /\ me.then = "count" /\ me.bit = "value_fresh"
      \/ me.call = "smooth" /\ me.then = "zero" /\ me.bit = "smooth_ready"
  BY <1>3 DEF IsMe, Sampling, Starting, Getting, Smoothing
<1>5. /\ b \in Flag /\ b.op_pending = me.byte.op_pending
      /\ me.bit # "value_fresh" => b.value_fresh = me.byte.value_fresh
  <2>1. CASE me.bit = "blocking"  BY <1>3, <2>1 DEF Flag
  <2>2. CASE me.bit = "smooth_ready"  BY <1>3, <2>2 DEF Flag
  <2>3. CASE me.bit = "value_fresh"  BY <1>3, <2>3 DEF Flag
  <2> QED  BY <1>4, <2>1, <2>2, <2>3
<1> HIDE DEF b
<1>6. DOMAIN flags' = Channels /\ \A d \in Channels : flags'[d] = IF d = me.c THEN b ELSE flags[d]
  BY <1>0, <1>1, <1>3 DEF TypeOK
<1>7. IsMe(me', pc')
  <2>1. CASE pc' = "idle" /\ me' = Me0  BY <1>0, <2>1, Idle
  <2>2. CASE me.then # "idle" /\ pc' = me.then /\ me' = me
    BY <1>3, <1>4, <2>2 DEF IsMe, Getting, Smoothing
  <2> QED  BY <1>2, <2>1, <2>2
<1>8. TypeOK'
  <2>1. \A d \in Channels : flags'[d] \in Flag  BY <1>0, <1>5, <1>6 DEF TypeOK
  <2>2. due' \subseteq Channels  BY <1>0, <1>1 DEF TypeOK
  <2> QED  BY <1>0, <1>1, <1>6, <1>7, <2>1, <2>2 DEF TypeOK
<1>9. pc' \in {"idle", "pick", "count", "zero"}  BY <1>2, <1>4
<1>10. Underway'  BY <1>0, <1>1, <1>9 DEF Underway, Starting
<1>11. Table'  BY <1>0, <1>1, <1>9 DEF Table
<1>12. Requests'
  <2> SUFFICES ASSUME NEW d \in due' PROVE Request(d)' /\ ~In("smooth", d)'
    BY DEF Requests
  <2>1. d \in Channels /\ Request(d) /\ ~In("smooth", d)  BY <1>0, <1>1 DEF TypeOK, Requests
  <2>2. ~In("smooth", d)'  BY <1>1, <1>2, <2>1 DEF In
  <2>3. Taken(d) = 0  BY <1>1 DEF Taken
  <2>4. ASSUME d # me.c PROVE Request(d)'
    <3>1. Taken(d)' = 0  BY <1>2, <2>4 DEF Taken
    <3>2. flags'[d] = flags[d] /\ chan'[d] = chan[d] /\ dev'.ch_active = dev.ch_active
      BY <1>1, <1>6, <2>1, <2>4
    <3>3. Taken(d)' = Taken(d)  BY <2>3, <3>1
    <3>4. d \in dev'.ch_active <=> d \in dev.ch_active  BY <3>2, Zenon
    <3> QED  BY <2>1, <3>2, <3>3, <3>4, Untouched, Zenon
  <2>5. ASSUME d = me.c PROVE Request(d)'
    <3>1. me.byte = flags[d]  BY <1>1, <2>5 DEF Flags
    <3>2. flags'[d] = b /\ b.op_pending = flags[d].op_pending  BY <1>5, <1>6, <2>1, <2>5, <3>1
    <3>3. IsChan(chan[d]) /\ flags[d] \in Flag /\ chan[d].reqsamples \in Nat
      BY <1>0, <2>1 DEF TypeOK, IsChan
    <3>4. Available(b, chan[d]) \in Nat /\ chan[d].buf.count <= Available(b, chan[d])
      BY <1>5, <3>3, AvailableIs
    <3>5. Available(flags[d], chan[d]) \in Nat /\ Available(flags[d], chan[d]) <= chan[d].buf.count + 1
          /\ chan[d].buf.count \in Nat
      BY <3>3, AvailableIs DEF IsChan
    <3>6. CASE me.bit = "value_fresh"
      <4>1. Taken(d)' = 1
        <5>1. pc' = "count" /\ me' = me
          <6>1. me.then = "count"  BY <1>4, <3>6
          <6>2. CASE pc' = "idle" /\ me' = Me0
            <7>1. me.then = "idle"  BY <1>1, <6>2 DEF StoreByte, Goto
            <7> QED  BY <6>1, <7>1
          <6> QED  BY <1>2, <6>1, <6>2
        <5> QED  BY <2>5, <5>1 DEF Taken
      <4>2. Marked(b, d, dev.ch_active)  BY <2>1, <3>2 DEF Request, Marked
      <4>3. d \notin dev.ch_active => Ready(b, chan[d], 1)
        BY <2>1, <2>3, <3>3, <3>4, <3>5 DEF Request, Ready
      <4>4. chan' = chan /\ dev' = dev  BY <1>1, Zenon
      <4> QED  BY <3>2, <4>1, <4>2, <4>3, <4>4, Zenon DEF Request
    <3>7. CASE me.bit # "value_fresh"
      <4>1. Available(b, chan[d]) = Available(flags[d], chan[d])
        BY <1>5, <3>1, <3>7, AvailableSame
      <4>2. Taken(d)' = 0
        <5>1. pc' # "count"  BY <1>2, <1>4, <3>7
        <5> QED  BY <5>1 DEF Taken
      <4>3. Marked(b, d, dev.ch_active)  BY <2>1, <3>2 DEF Request, Marked
      <4>4. d \notin dev.ch_active => Ready(b, chan[d], 0)
        BY <2>1, <2>3, <4>1 DEF Request, Ready
      <4>5. chan' = chan /\ dev' = dev  BY <1>1, Zenon
      <4> QED  BY <3>2, <4>2, <4>3, <4>4, <4>5, Zenon DEF Request
    <3> QED  BY <3>6, <3>7
  <2> QED  BY <2>2, <2>4, <2>5
<1> QED  BY <1>8, <1>10, <1>11, <1>12 DEF CalmInv

\* adc_smooth_data touches the ring only.
LEMMA SmoothIs ==
  ASSUME NEW s, NEW v, IsChan(s)
  PROVE  /\ IsChan(Smooth(s, v)) /\ Smooth(s, v).reqsamples = s.reqsamples
         /\ Smooth(s, v).buf = s.buf /\ Smooth(s, v).logsmoothlen = s.logsmoothlen
<1> DEFINE i == RingPlace(s)
           sum == s.smoothsum - s.smoothbuf[i].no + v.no
           ring == [s.smoothbuf EXCEPT ![i] = v]
<1>1. Smooth(s, v) = IF i \in DOMAIN s.smoothbuf
                     THEN [s EXCEPT !.smoothidx = i, !.smoothsum = sum, !.smoothbuf = ring]
                     ELSE s
  BY DEF Smooth, IsChan, ChanFields
<1> HIDE DEF i, sum, ring
<1> QED  BY <1>1 DEF IsChan, ChanFields

\* One channel changes.
Becomes(c, s) ==
  /\ DOMAIN chan' = Channels
  /\ chan'[c] = s
  /\ \A d \in Channels : d # c => chan'[d] = chan[d]

\* Writing one channel's state leaves the others alone.
LEMMA OneChannel ==
  ASSUME CalmInv, NEW c \in Channels, NEW s, chan' = [chan EXCEPT ![c] = s]
  PROVE  Becomes(c, s)
BY DEF CalmInv, TypeOK, Becomes

\* A step of the program that changes the channel it works on, and no flag.
LEMMA ChannelStep ==
  ASSUME CalmInv, UNCHANGED <<flags, dev, adc, irq, data, due>>, IsMe(me', pc'),
         NEW s, IsChan(s), me.c \in Channels, Becomes(me.c, s),
         pc \notin Sampling, pc' \notin Sampling,
         pc' # "idle" => me'.c = me.c /\ me'.call = me.call, pc # "idle",
         me.c \notin due \/ (me.c \notin dev.ch_active =>
                               Ready(flags[me.c], s, IF pc' = "count" THEN 1 ELSE 0))
  PROVE  CalmInv'
<1>0. TypeOK /\ Underway /\ Table /\ Requests  BY DEF CalmInv
<1>1. /\ DOMAIN chan' = Channels /\ \A d \in Channels : IsChan(chan'[d])
      /\ chan'[me.c] = s /\ \A d \in Channels : d # me.c => chan'[d] = chan[d]
  BY <1>0 DEF TypeOK, Becomes
<1>2. TypeOK'  BY <1>0, <1>1 DEF TypeOK
<1>3. pc' \notin Starting /\ pc' # "trigger" /\ pc \notin {"setup", "start"} /\ pc \notin Starting
      /\ pc # "trigger"
  BY DEF Sampling, Starting
<1>4. Underway'  BY <1>0, <1>3 DEF Underway, Starting
<1>5. Table'  BY <1>0, <1>3 DEF Table, Starting
<1>6. Requests'
  <2> SUFFICES ASSUME NEW d \in due PROVE Request(d)' /\ ~In("smooth", d)'
    BY DEF Requests
  <2>1. d \in Channels /\ Request(d) /\ ~In("smooth", d)  BY <1>0 DEF TypeOK, Requests
  <2>2. ~In("smooth", d)'  BY <2>1 DEF In
  <2>3. ASSUME d # me.c PROVE Request(d)'
    <3>1. Taken(d)' = Taken(d)  BY <2>3 DEF Taken
    <3>2. flags'[d] = flags[d] /\ chan'[d] = chan[d]  BY <1>1, <2>1, <2>3
    <3>3. d \in dev'.ch_active <=> d \in dev.ch_active  OBVIOUS
    <3>4. Request(d)  BY <2>1
    <3> QED  BY <3>1, <3>2, <3>3, <3>4, Untouched, Zenon
  <2>4. ASSUME d = me.c PROVE Request(d)'
    <3>1. Taken(d)' = IF pc' = "count" THEN 1 ELSE 0  BY <2>4 DEF Taken
    <3>2. chan'[d] = s /\ flags'[d] = flags[d] /\ dev' = dev  BY <1>1, <2>4
    <3>3. d \notin dev.ch_active => Ready(flags[d], s, Taken(d)')  BY <2>4, <3>1
    <3>4. Marked(flags[d], d, dev.ch_active)  BY <2>1 DEF Request
    <3> QED  BY <3>2, <3>3, <3>4, Zenon DEF Request
  <2> QED  BY <2>2, <2>3, <2>4
<1> QED  BY <1>2, <1>4, <1>5, <1>6 DEF CalmInv

\* A buffered sample is taken: one element fewer, one sample taken and not counted.
LEMMA TakeBufferedKeeps ==
  ASSUME CalmInv, TakeBuffered
  PROVE  CalmInv'
<1>0. TypeOK /\ Requests  BY DEF CalmInv
<1>1. /\ pc = "pick" /\ pc' = "count" /\ irq = Outside /\ ~Flags.value_fresh
      /\ UNCHANGED <<flags, dev, adc, irq, data, due>>
  BY DEF TakeBuffered, At, Goto
<1>2. /\ DOMAIN me = MeFields /\ me.c \in Channels /\ me.todo \subseteq Channels /\ me.n \in Nat
      /\ me.call = "get"
  BY <1>0, <1>1, Where DEF TypeOK
<1>3. PICK v : me' = [me EXCEPT !.sample = v]  BY DEF TakeBuffered
<1>4. DOMAIN me' = MeFields /\ me'.c = me.c /\ me'.todo = me.todo /\ me'.n = me.n /\ me'.call = "get"
  BY <1>2, <1>3 DEF MeFields
<1>5. IsMe(me', pc')  BY <1>1, <1>2, <1>4 DEF IsMe, Getting
<1> DEFINE s == IF Chan.buf.count = 0 THEN Chan ELSE [Chan EXCEPT !.buf = BufConsume(@)]
<1>6. Chan = chan[me.c] /\ IsChan(Chan) /\ Flags = flags[me.c] /\ Flags \in Flag
  BY <1>0, <1>2 DEF TypeOK, Chan, Flags
<1>7. Becomes(me.c, s)
  <2>1. DOMAIN chan = Channels  BY <1>0 DEF TypeOK
  <2>2. CASE Chan.buf.count = 0  BY <1>6, <2>1, <2>2 DEF TakeBuffered, Becomes
  <2>3. CASE Chan.buf.count # 0
    <3>1. chan' = [chan EXCEPT ![me.c].buf = BufConsume(@)]  BY <2>3 DEF TakeBuffered
    <3>2. chan' = [chan EXCEPT ![me.c] = s]  BY <1>2, <1>6, <2>1, <2>3, <3>1
    <3> HIDE DEF s
    <3> QED  BY <1>2, <3>2, OneChannel
  <2> QED  BY <2>2, <2>3
<1>8. IsChan(s) /\ s.reqsamples = Chan.reqsamples /\ s.buf.count \in Nat
      /\ Chan.buf.count <= s.buf.count + 1
  BY <1>6 DEF IsChan, ChanFields, BufFields, BufConsume
<1> HIDE DEF s
<1>9. me.c \in due /\ me.c \notin dev.ch_active => Ready(Flags, s, 1)
  <2> SUFFICES ASSUME me.c \in due, me.c \notin dev.ch_active PROVE Ready(Flags, s, 1)
    OBVIOUS
  <2>1. Ready(Flags, Chan, Taken(me.c))  BY <1>0, <1>6 DEF Requests, Request
  <2>2. Taken(me.c) = 0  BY <1>1 DEF Taken
  <2>3. Available(Flags, Chan) = Chan.buf.count /\ Available(Flags, s) = s.buf.count
    BY <1>1, <1>6, <1>8, AvailableIs
  <2>4. Chan.buf.count >= Chan.reqsamples
    BY <1>6, <2>1, <2>2, <2>3 DEF Ready, IsChan
  <2> QED  BY <1>6, <1>8, <2>3, <2>4 DEF Ready, IsChan
<1>10. pc \notin Sampling /\ pc' \notin Sampling  BY <1>1 DEF Sampling, Starting
<1> QED  BY <1>1, <1>2, <1>4, <1>5, <1>6, <1>7, <1>8, <1>9, <1>10, ChannelStep

\* The sample is counted: reqsamples is one less, and nothing is taken any more.
LEMMA CountSampleKeeps ==
  ASSUME CalmInv, CountSample
  PROVE  CalmInv'
<1>0. TypeOK /\ Requests  BY DEF CalmInv
<1>1. pc = "count" /\ irq = Outside /\ UNCHANGED <<flags, dev, adc, irq, data, due>>
  BY DEF CountSample, At
<1>2. /\ DOMAIN me = MeFields /\ me.c \in Channels /\ me.todo \subseteq Channels /\ me.n \in Nat
      /\ me.call = "get"
  BY <1>0, <1>1, Where DEF TypeOK
<1>3. \/ pc' = "idle" /\ me' = Me0
      \/ pc' = "take" /\ me' = [me EXCEPT !.left = @ - 1]
  BY DEF CountSample, Returned, GoIdle, Goto
<1>4. IsMe(me', pc') /\ (pc' # "idle" => me'.c = me.c /\ me'.call = me.call)
  <2>1. CASE pc' = "idle" /\ me' = Me0  BY <1>0, <2>1, Idle
  <2>2. CASE pc' = "take" /\ me' = [me EXCEPT !.left = @ - 1]
    <3>1. DOMAIN me' = MeFields /\ me'.c = me.c /\ me'.todo = me.todo /\ me'.n = me.n
          /\ me'.call = me.call
      BY <1>2, <2>2 DEF MeFields
    <3> QED  BY <1>2, <2>2, <3>1 DEF IsMe, Getting
  <2> QED  BY <1>3, <2>1, <2>2
<1> DEFINE t == IF Chan.logsmoothlen > 0 THEN Smooth(Chan, me.sample) ELSE Chan
           s == [t EXCEPT !.reqsamples = IF @ > 0 THEN @ - 1 ELSE 0]
<1>5. Becomes(me.c, s)
  <2>1. chan' = [chan EXCEPT ![me.c] = s]  BY DEF CountSample
  <2> HIDE DEF s
  <2> QED  BY <1>2, <2>1, OneChannel
<1>6. Chan = chan[me.c] /\ IsChan(Chan) /\ Flags = flags[me.c] /\ Flags \in Flag
  BY <1>0, <1>2 DEF TypeOK, Chan, Flags
<1>7. IsChan(t) /\ t.reqsamples = Chan.reqsamples /\ t.buf = Chan.buf
  BY <1>6, SmoothIs
<1> HIDE DEF t
<1>8. IsChan(s) /\ s.buf = Chan.buf
      /\ s.reqsamples = IF Chan.reqsamples > 0 THEN Chan.reqsamples - 1 ELSE 0
  BY <1>7 DEF IsChan, ChanFields
<1> HIDE DEF s
<1>9. me.c \in due /\ me.c \notin dev.ch_active => Ready(Flags, s, 0)
  <2> SUFFICES ASSUME me.c \in due, me.c \notin dev.ch_active PROVE Ready(Flags, s, 0)
    OBVIOUS
  <2>1. Ready(Flags, Chan, Taken(me.c))  BY <1>0, <1>6 DEF Requests, Request
  <2>2. Taken(me.c) = 1  BY <1>1 DEF Taken
  <2>3. Available(Flags, s) = Available(Flags, Chan)
    BY <1>8, AvailableSame
  <2>4. Available(Flags, Chan) \in Nat  BY <1>6, AvailableIs
  <2> QED  BY <1>6, <1>8, <2>1, <2>2, <2>3, <2>4 DEF Ready, IsChan
<1>10. pc \notin Sampling /\ pc' \notin Sampling /\ pc' # "count" /\ pc # "idle"
  BY <1>1, <1>3 DEF Sampling, Starting
<1> QED  BY <1>1, <1>2, <1>4, <1>5, <1>6, <1>8, <1>9, <1>10, ChannelStep

-----------------------------------------------------------------------------
(* Setting the smoothing of a channel that rests                           *)

\* setsmoothing of a channel that is not being sampled starts the change of its ring.
LEMMA SetSmoothingKeeps ==
  ASSUME CalmInv, NEW c \in Channels, NEW l \in LogLens, SetSmoothing(c, l), calm'
  PROVE  CalmInv'
<1> DEFINE m == [Me0 EXCEPT !.call = "smooth", !.c = c, !.log = l,
                            !.bit = "op_pending", !.to = FALSE, !.then = "inactivate"]
<1>1. m.call = "smooth" /\ m.c = c /\ m.todo = {} /\ m.n = 0 /\ DOMAIN m = MeFields
  BY DEF Me0, MeFields
<1>2. ~flags[c].op_pending  BY DEF SetSmoothing
<1>3. /\ me' = m /\ pc = "idle" /\ pc' = "length" /\ due' = due \ {c}
      /\ UNCHANGED <<boardVars, irq>>
  BY <1>2 DEF SetSmoothing, Call, At, Goto
<1> HIDE DEF m
<1>4. IsMe(m, "length")  BY <1>1 DEF IsMe, Smoothing
<1>5. m.c \notin due'  BY <1>1, <1>3
<1> QED  BY <1>3, <1>4, <1>5, Aside DEF Sampling, Starting

\* A step of adc_update_smoothing.
LEMMA RingStep ==
  ASSUME CalmInv, UNCHANGED <<flags, dev, adc, irq, data, due>>, NEW m, me' = m,
         NEW s, IsChan(s), chan' = [chan EXCEPT ![me.c] = s],
         pc \in {"length", "allocate", "flush", "sum", "zero"},
         \/ pc' = "idle" /\ m = Me0
         \/ pc' \in {"length", "allocate", "flush", "sum", "zero"} /\ m = me
         \/ /\ pc' = "load"
            /\ m = [me EXCEPT !.bit = "smooth_ready", !.to = FALSE, !.then = "zero"]
  PROVE  CalmInv'
<1>0. TypeOK /\ Requests  BY DEF CalmInv
<1>1. /\ DOMAIN me = MeFields /\ me.c \in Channels /\ me.todo \subseteq Channels /\ me.n \in Nat
      /\ me.call = "smooth"
  BY <1>0, Where DEF TypeOK
<1>2. IsMe(m, pc') /\ (pc' # "idle" => m.c = me.c /\ m.call = me.call)
  <2>1. CASE pc' = "idle" /\ m = Me0  BY <1>0, <2>1, Idle
  <2>2. CASE pc' \in {"length", "allocate", "flush", "sum", "zero"} /\ m = me
    BY <1>1, <2>2 DEF IsMe, Smoothing
  <2>3. CASE pc' = "load" /\ m = [me EXCEPT !.bit = "smooth_ready", !.to = FALSE, !.then = "zero"]
    <3>1. /\ DOMAIN m = MeFields /\ m.c = me.c /\ m.todo = me.todo /\ m.n = me.n
          /\ m.call = me.call /\ m.bit = "smooth_ready" /\ m.to = FALSE /\ m.then = "zero"
      BY <1>1, <2>3 DEF MeFields
    <3> QED  BY <1>1, <2>3, <3>1 DEF IsMe, Smoothing
  <2> QED  BY <2>1, <2>2, <2>3
<1>3. me.c \notin due  BY <1>0, <1>1 DEF Requests, In
<1>4. pc \notin Sampling /\ pc' \notin Sampling /\ pc # "idle"
  BY DEF Sampling, Starting
<1>5. Becomes(me.c, s)  BY <1>1, OneChannel
<1> QED  BY <1>1, <1>2, <1>3, <1>4, <1>5, ChannelStep

\* What those steps write.
LEMMA RingFields ==
  ASSUME CalmInv, pc \in {"length", "allocate", "flush", "sum", "zero"}, NEW x, NEW y
  PROVE  /\ me.c \in Channels /\ DOMAIN chan = Channels /\ Chan = chan[me.c]
         /\ IsChan([Chan EXCEPT !.logsmoothlen = x])
         /\ IsChan([Chan EXCEPT !.smoothbuf = x])
         /\ IsChan([Chan EXCEPT !.smoothidx = x])
         /\ IsChan([Chan EXCEPT !.smoothsum = x])
         /\ IsChan([Chan EXCEPT !.smoothbuf = x, !.buf = BufFlush(Chan.buf)])
<1>1. me.c \in Channels /\ DOMAIN chan = Channels  BY Where DEF CalmInv, TypeOK
<1>2. Chan = chan[me.c] /\ IsChan(Chan)  BY <1>1 DEF CalmInv, TypeOK, Chan
<1> QED  BY <1>1, <1>2 DEF IsChan, ChanFields, BufFields, BufFlush

\* adc_update_smoothing writes the length.
LEMMA SetLengthKeeps ==
  ASSUME CalmInv, SetLength
  PROVE  CalmInv'
<1> DEFINE s == [Chan EXCEPT !.logsmoothlen = me.log]
<1>1. pc = "length" /\ irq = Outside /\ UNCHANGED <<flags, dev, adc, irq, data, due, me>>
  BY DEF SetLength, At
<1>2. me.c \in Channels /\ DOMAIN chan = Channels /\ Chan = chan[me.c] /\ IsChan(s)
  BY <1>1, RingFields
<1>3. chan' = [chan EXCEPT ![me.c] = s]  BY <1>2 DEF SetLength
<1>4. pc' \in {"flush", "allocate"}  BY DEF SetLength, Goto
<1> HIDE DEF s
<1> QED  BY <1>1, <1>2, <1>3, <1>4, RingStep

\* adc_update_smoothing gets its ring, of a power of two places.
LEMMA AllocateKeeps ==
  ASSUME CalmInv, Allocate
  PROVE  CalmInv'
<1> DEFINE ring == [i \in 1..RingSize(Chan) |->
                     IF i \in DOMAIN Chan.smoothbuf THEN Chan.smoothbuf[i] ELSE NoSample]
           s == [Chan EXCEPT !.smoothbuf = ring]
<1>1. pc = "allocate" /\ pc' = "flush" /\ irq = Outside
      /\ UNCHANGED <<flags, dev, adc, irq, data, due, me>>
  BY DEF Allocate, At, Goto
<1>2. me.c \in Channels /\ DOMAIN chan = Channels /\ Chan = chan[me.c] /\ IsChan(s)
  BY <1>1, RingFields
<1>3. chan' = [chan EXCEPT ![me.c] = s]
  <2>1. chan' = [chan EXCEPT ![me.c].smoothbuf =
          [i \in 1..RingSize(Chan) |-> IF i \in DOMAIN @ THEN @[i] ELSE NoSample]]
    BY DEF Allocate
  <2>2. chan' = [chan EXCEPT ![me.c].smoothbuf = ring]  BY <1>2, <2>1
  <2> HIDE DEF ring
  <2> QED  BY <1>2, <2>2
<1> HIDE DEF s
<1> QED  BY <1>1, <1>2, <1>3, RingStep

\* adc_flush_smoothing starts the ring over.
LEMMA FlushIndexKeeps ==
  ASSUME CalmInv, FlushIndex
  PROVE  CalmInv'
<1> DEFINE s == [Chan EXCEPT !.smoothidx = 0]
<1>1. pc = "flush" /\ pc' = "sum" /\ irq = Outside
      /\ UNCHANGED <<flags, dev, adc, irq, data, due, me>>
  BY DEF FlushIndex, At, Goto
<1>2. me.c \in Channels /\ DOMAIN chan = Channels /\ Chan = chan[me.c] /\ IsChan(s)
  BY <1>1, RingFields
<1>3. chan' = [chan EXCEPT ![me.c] = s]  BY <1>2 DEF FlushIndex
<1> HIDE DEF s
<1> QED  BY <1>1, <1>2, <1>3, RingStep

\* adc_flush_smoothing forgets the sum.
LEMMA FlushSumKeeps ==
  ASSUME CalmInv, FlushSum
  PROVE  CalmInv'
<1> DEFINE s == [Chan EXCEPT !.smoothsum = 0]
           m == [me EXCEPT !.bit = "smooth_ready", !.to = FALSE, !.then = "zero"]
<1>1. pc = "sum" /\ pc' = "load" /\ irq = Outside /\ me' = m
      /\ UNCHANGED <<flags, dev, adc, irq, data, due>>
  BY DEF FlushSum, At, Goto, Assign
<1>2. me.c \in Channels /\ DOMAIN chan = Channels /\ Chan = chan[me.c] /\ IsChan(s)
  BY <1>1, RingFields
<1>3. chan' = [chan EXCEPT ![me.c] = s]  BY <1>2 DEF FlushSum
<1> HIDE DEF s
<1> QED  BY <1>1, <1>2, <1>3, RingStep

\* buf_flush empties a buffer that no request is about.
LEMMA FlushBuffersKeeps ==
  ASSUME CalmInv, FlushBuffers
  PROVE  CalmInv'
<1> DEFINE ring == IF Chan.logsmoothlen > 0 THEN [i \in DOMAIN Chan.smoothbuf |-> NoSample]
                                            ELSE Chan.smoothbuf
           s == [Chan EXCEPT !.smoothbuf = ring, !.buf = BufFlush(Chan.buf)]
<1>1. pc = "zero" /\ pc' = "idle" /\ me' = Me0 /\ irq = Outside
      /\ UNCHANGED <<flags, dev, adc, irq, data, due>>
  BY DEF FlushBuffers, At, GoIdle
<1>2. me.c \in Channels /\ DOMAIN chan = Channels /\ Chan = chan[me.c] /\ IsChan(s)
  BY <1>1, RingFields
<1>3. chan' = [chan EXCEPT ![me.c] = s]
  <2>1. chan' = [chan EXCEPT
          ![me.c].smoothbuf = IF Chan.logsmoothlen > 0 THEN [i \in DOMAIN @ |-> NoSample] ELSE @,
          ![me.c].buf = BufFlush(@)]
    BY DEF FlushBuffers
  <2>2. IsChan(Chan)  BY <1>2 DEF CalmInv, TypeOK
  <2>3. chan' = [chan EXCEPT ![me.c].smoothbuf = ring, ![me.c].buf = BufFlush(@)]
    BY <1>2, <2>1
  <2> HIDE DEF ring
  <2> QED  BY <1>2, <2>2, <2>3 DEF IsChan, ChanFields
<1> HIDE DEF s
<1> QED  BY <1>1, <1>2, <1>3, RingStep

-----------------------------------------------------------------------------
(* The handler                                                             *)

\* The handler reads the converter: what it reads was converted with the table it has.
LEMMA IntEnterKeeps ==
  ASSUME CalmInv, IntEnter
  PROVE  CalmInv'
<1>0. TypeOK /\ Underway /\ Table /\ Requests  BY DEF CalmInv
<1>1. /\ irq = Outside /\ adc.busy /\ irq' = 0 /\ data' = adc.chans
      /\ adc' = [adc EXCEPT !.busy = FALSE]
      /\ UNCHANGED <<flags, chan, dev, pc, me, due>>
  BY DEF IntEnter, programVars
<1>2. adc' \in AdcType /\ ~adc'.busy /\ adc'.enabled = adc.enabled /\ adc'.chans = adc.chans
  BY <1>1, Devices DEF AdcType
<1>3. dev.running /\ adc.chans = dev.ch_state /\ pc # "trigger"  BY <1>0, <1>1 DEF Underway
<1>4. irq' # Outside /\ irq' \in 0..Len(dev.ch_state)
  <2>1. dev.ch_state \in Seq(Channels)  BY <1>0 DEF TypeOK
  <2> QED  BY <1>1, <2>1 DEF Outside
<1>5. TypeOK'
  <2>1. /\ DOMAIN flags = Channels /\ \A c \in Channels : flags[c] \in Flag
        /\ DOMAIN chan = Channels /\ \A c \in Channels : IsChan(chan[c])
        /\ due \subseteq Channels /\ IsMe(me, pc)
    BY <1>0 DEF TypeOK
  <2> QED  BY <1>1, <1>2, <1>4, <2>1, Devices DEF TypeOK, DevType, AdcType
<1>6. Underway'  BY <1>0, <1>1, <1>2, <1>3, <1>4 DEF Underway
<1>7. Table'
  <2>1. \A i \in DOMAIN dev.ch_state : dev.ch_state[i] \in dev.ch_active
    BY <1>0, <1>1, <1>3 DEF Table, Holds
  <2> QED  BY <1>0, <1>1, <1>4, <2>1 DEF Table
<1>8. Requests'  BY <1>1, SameRequests
<1> QED  BY <1>5, <1>6, <1>7, <1>8 DEF CalmInv

\* The handler ends: a sequence that goes on has its table made anew when a channel has
\* left it, and its next conversion started.
LEMMA IntLeaveKeeps ==
  ASSUME CalmInv, IntLeave
  PROVE  CalmInv'
<1>0. TypeOK /\ Underway /\ Table /\ Requests  BY DEF CalmInv
<1>1. /\ irq = Len(dev.ch_state) /\ irq' = Outside
      /\ IF dev.running /\ dev.ch_active # dev.last_ch_active
         THEN Resequence ELSE UNCHANGED <<dev, chan, flags>>
      /\ UNCHANGED <<pc, me, due>>
  BY DEF IntLeave, programVars
<1>2. irq # Outside /\ ~adc.busy
  <2>1. dev.ch_state \in Seq(Channels)  BY <1>0 DEF TypeOK
  <2>2. irq # Outside  BY <1>1, <2>1 DEF Outside
  <2> QED  BY <1>0, <2>2 DEF Underway
<1>3. pc \notin Starting /\ pc # "trigger" /\ pc \notin {"enable", "running", "trigger"}
  BY <1>0, <1>2 DEF Underway, Starting
<1>4. /\ dev' \in DevType /\ dev'.ch_active = dev.ch_active /\ dev'.running = dev.running
      /\ dev.running => dev'.last_ch_active = dev.ch_active
      /\ OneToOne(dev'.ch_state) /\ Holds(dev'.ch_state, dev'.last_ch_active)
      /\ DOMAIN flags' = Channels /\ DOMAIN chan' = Channels
      /\ \A c \in Channels :
           /\ flags'[c] \in Flag /\ IsChan(chan'[c])
           /\ flags'[c].op_pending = flags[c].op_pending
           /\ c \notin dev.ch_active => flags'[c] = flags[c] /\ chan'[c] = chan[c]
  <2>1. CASE dev.running /\ dev.ch_active # dev.last_ch_active
    BY <1>0, <1>1, <2>1, ResequenceIs
  <2>2. CASE ~(dev.running /\ dev.ch_active # dev.last_ch_active)
    BY <1>0, <1>1, <2>2, Devices DEF TypeOK, Table
  <2> QED  BY <2>1, <2>2
<1>5. /\ adc' \in AdcType
      /\ adc'.busy <=> dev.running
      /\ dev.running => adc'.enabled /\ adc'.chans = dev'.ch_state
  <2> DEFINE a == IF dev' = dev THEN adc ELSE [adc EXCEPT !.enabled = TRUE]
  <2>1. adc' = IF dev.running /\ ~dev.clocked THEN Triggered(a, dev'.ch_state) ELSE a
    BY DEF IntLeave
  <2>2. dev.clocked = FALSE  BY <1>0 DEF TypeOK
  <2>3. adc \in AdcType /\ adc.busy = FALSE  BY <1>2, Devices DEF AdcType
  <2>4. CASE dev.running
    <3>1. adc.enabled  BY <1>0, <2>4 DEF Underway
    <3>2. a \in AdcType /\ a.enabled  BY <2>3, <3>1 DEF AdcType
    <3> HIDE DEF a
    <3>3. adc' = [a EXCEPT !.busy = TRUE, !.chans = dev'.ch_state]
      BY <2>1, <2>2, <2>4, <3>2 DEF Triggered
    <3>4. dev'.ch_state \in Seq(Channels)  BY <1>4 DEF DevType
    <3>5. dev.running = TRUE  BY <1>0, <2>4 DEF TypeOK
    <3> QED  BY <3>2, <3>3, <3>4, <3>5 DEF AdcType
  <2>5. CASE ~dev.running
    <3>1. dev' = dev  BY <1>1, <2>5
    <3>2. adc' = adc  BY <2>1, <2>5, <3>1
    <3>3. dev.running = FALSE  BY <1>0, <2>5 DEF TypeOK
    <3> QED  BY <2>3, <3>2, <3>3
  <2> QED  BY <2>4, <2>5
<1>6. TypeOK'
  <2>1. due' \subseteq Channels /\ IsMe(me', pc')  BY <1>0, <1>1 DEF TypeOK
  <2>2. dev' \in DevType /\ adc' \in AdcType  BY <1>4, <1>5
  <2>3. /\ DOMAIN flags' = Channels /\ DOMAIN chan' = Channels
        /\ (\A c \in Channels : flags'[c] \in Flag) /\ (\A c \in Channels : IsChan(chan'[c]))
    BY <1>4
  <2> QED  BY <1>1, <2>1, <2>2, <2>3 DEF TypeOK, DevType, AdcType
<1>7. Underway'
  <2>1. dev'.ch_active = dev.ch_active /\ (dev'.running <=> dev.running)  BY <1>4
  <2>2. ~dev.running => dev.ch_active = {} \/ pc \in {"setup", "start"} \cup Starting
    BY <1>0 DEF Underway
  <2> QED  BY <1>1, <1>3, <1>5, <2>1, <2>2 DEF Underway
<1>8. Table'  BY <1>1, <1>3, <1>4 DEF Table
<1>9. Requests'  BY <1>1, <1>4, SameRequests
<1> QED  BY <1>6, <1>7, <1>8, <1>9 DEF CalmInv

\* The handler files one sample: a request that is served with it has its samples there
\* when op_pending is cleared and the channel is made inactive.
LEMMA IntChannelKeeps ==
  ASSUME CalmInv, IntChannel
  PROVE  CalmInv'
<1>0. TypeOK /\ Underway /\ Table /\ Requests  BY DEF CalmInv
<1> DEFINE c == dev.ch_state[irq + 1]
           v == IF irq + 1 \in DOMAIN data THEN [of |-> data[irq + 1], no |-> conv] ELSE NoSample
           warm == chan[c].logsmoothlen > 0 /\ ~flags[c].smooth_ready
           keep == ~warm /\ chan[c].reqsamples > 1
           fl   == [flags[c] EXCEPT !.value_fresh = ~warm /\ ~keep,
                      !.smooth_ready = @ \/ (warm /\ RingFull(chan[c]))]
           val  == sample_buf'[chan[c].value_ptr]
           s    == IF warm THEN Smooth(chan[c], val)
                   ELSE IF keep /\ chan[c].buf.size > 0
                        THEN [chan[c] EXCEPT !.buf = BufWrite(@, val)]
                        ELSE chan[c]
           done == Enough(fl, s)
           left == IF done THEN dev.ch_active \ {c} ELSE dev.ch_active
           gl   == IF done THEN [fl EXCEPT !.op_pending = FALSE] ELSE fl
<1>1. /\ irq \in 0..(Len(dev.ch_state) - 1)
      /\ chan' = [chan EXCEPT ![c] = s]
      /\ flags' = [flags EXCEPT ![c] = gl]
      /\ dev' = [dev EXCEPT !.ch_active = left, !.running = @ /\ ~(done /\ left = {})]
      /\ adc' = [adc EXCEPT !.enabled = @ /\ ~(done /\ left = {})]
      /\ irq' = irq + 1
      /\ UNCHANGED <<data, pc, me, due>>
  BY DEF IntChannel, programVars
<1>2. /\ dev.ch_state \in Seq(Channels) /\ irq + 1 \in DOMAIN dev.ch_state /\ c \in Channels
      /\ irq # Outside /\ irq' # Outside /\ irq' \in 0..Len(dev.ch_state)
      /\ irq \in Nat
  <2>1. dev.ch_state \in Seq(Channels)  BY <1>0 DEF TypeOK
  <2>2. irq \in 0..(Len(dev.ch_state) - 1) /\ irq' = irq + 1  BY <1>1
  <2> HIDE DEF c, s, gl, left, done
  <2>3. Len(dev.ch_state) \in Nat /\ DOMAIN dev.ch_state = 1..Len(dev.ch_state)  BY <2>1
  <2>4. irq \in Nat /\ irq + 1 \in 1..Len(dev.ch_state) /\ irq' \in 0..Len(dev.ch_state)
        /\ irq # Outside /\ irq' # Outside
    BY <2>2, <2>3 DEF Outside
  <2>5. c \in Channels  BY <2>1, <2>3, <2>4 DEF c
  <2> QED  BY <2>1, <2>3, <2>4, <2>5
<1>3. c \in dev.ch_active /\ \A i \in DOMAIN dev.ch_state : i > irq + 1 =>
        dev.ch_state[i] \in dev.ch_active /\ dev.ch_state[i] # c
  BY <1>0, <1>2 DEF Table, OneToOne
<1>4. flags[c] \in Flag /\ IsChan(chan[c])  BY <1>0, <1>2 DEF TypeOK
<1>5. fl \in Flag /\ fl.op_pending = flags[c].op_pending
  <2> HIDE DEF warm, keep
  <2> DEFINE x == (~warm /\ ~keep)
             y == (flags[c].smooth_ready \/ (warm /\ RingFull(chan[c])))
  <2>1. fl = [flags[c] EXCEPT !.value_fresh = x, !.smooth_ready = y]
    BY <1>4 DEF Flag
  <2>2. x \in {TRUE, FALSE} /\ y \in {TRUE, FALSE}  BY Zenon
  <2> HIDE DEF x, y, fl
  <2> QED  BY <1>4, <2>1, <2>2 DEF Flag
<1>6. IsChan(s)
  <2>1. CASE warm  BY <1>4, <2>1, SmoothIs
  <2>2. CASE ~warm
    <3> DEFINE b == BufWrite(chan[c].buf, val)
    <3>1. DOMAIN b = BufFields /\ b.count \in Nat
      BY <1>4 DEF IsChan, BufFields, BufWrite
    <3>2. s = chan[c] \/ s = [chan[c] EXCEPT !.buf = b]  BY <2>2
    <3> HIDE DEF b, s, c
    <3> QED  BY <1>4, <3>1, <3>2 DEF IsChan, ChanFields
  <2> QED  BY <2>1, <2>2
<1> HIDE DEF c, fl, s
<1>7. /\ gl \in Flag
      /\ done => ~gl.op_pending /\ Available(gl, s) >= s.reqsamples
      /\ ~done => gl.op_pending = flags[c].op_pending
  <2>1. CASE done
    <3>1. gl = [fl EXCEPT !.op_pending = FALSE]  BY <2>1
    <3>2. gl \in Flag /\ ~gl.op_pending /\ gl.value_fresh = fl.value_fresh
      BY <1>5, <3>1 DEF Flag
    <3>3. Available(gl, s) = Available(fl, s)  BY <3>2 DEF Available
    <3> QED  BY <2>1, <3>2, <3>3 DEF Enough
  <2>2. CASE ~done  BY <1>5, <2>2
  <2> QED  BY <2>1, <2>2
<1>8. left \subseteq dev.ch_active /\ (~done => left = dev.ch_active)
      /\ (done => left = dev.ch_active \ {c})
  OBVIOUS
<1> HIDE DEF done, left, gl
<1> DEFINE go == ~(done /\ left = {})
<1>9. /\ dev' \in DevType /\ dev'.ch_active = left /\ dev'.ch_state = dev.ch_state
      /\ dev'.last_ch_active = dev.last_ch_active
      /\ dev'.running <=> dev.running /\ go
  <2> DEFINE x == (dev.running /\ go)
  <2>1. dev' = [dev EXCEPT !.ch_active = left, !.running = x]
    BY <1>1, Devices DEF DevType
  <2>2. x \in {TRUE, FALSE}  BY Zenon
  <2>3. dev \in DevType /\ left \in SUBSET Channels  BY <1>8, Devices DEF DevType
  <2>4. x <=> dev.running /\ go  OBVIOUS
  <2> HIDE DEF x, go
  <2>5. /\ dev' \in DevType /\ dev'.ch_active = left /\ dev'.ch_state = dev.ch_state
        /\ dev'.last_ch_active = dev.last_ch_active /\ dev'.running = x
    BY <2>1, <2>2, <2>3 DEF DevType
  <2> QED  BY <2>4, <2>5
<1>10. /\ adc' \in AdcType /\ adc'.busy = adc.busy /\ adc'.chans = adc.chans
       /\ adc'.enabled <=> adc.enabled /\ go
  <2> DEFINE x == (adc.enabled /\ go)
  <2>1. adc' = [adc EXCEPT !.enabled = x]  BY <1>1, Devices DEF AdcType
  <2>2. x \in {TRUE, FALSE}  BY Zenon
  <2>3. x <=> adc.enabled /\ go  OBVIOUS
  <2> HIDE DEF x, go
  <2>4. /\ adc' \in AdcType /\ adc'.busy = adc.busy /\ adc'.chans = adc.chans
        /\ adc'.enabled = x
    BY <2>1, <2>2, Devices DEF AdcType
  <2> QED  BY <2>3, <2>4
<1>11. go \/ left = {}  OBVIOUS
<1> HIDE DEF go
<1>12. /\ DOMAIN flags' = Channels /\ DOMAIN chan' = Channels
       /\ flags'[c] = gl /\ chan'[c] = s
       /\ \A d \in Channels : d # c => flags'[d] = flags[d] /\ chan'[d] = chan[d]
  BY <1>0, <1>1, <1>2 DEF TypeOK
<1>13. TypeOK'
  <2>1. /\ \A d \in Channels : flags'[d] \in Flag /\ IsChan(chan'[d])
        /\ due' \subseteq Channels /\ IsMe(me', pc')
    BY <1>0, <1>1, <1>6, <1>7, <1>12 DEF TypeOK
  <2> QED  BY <1>2, <1>9, <1>10, <1>12, <2>1 DEF TypeOK, DevType, AdcType
<1>14. Underway'
  <2>1. ~adc.busy /\ pc \notin Starting /\ pc # "trigger" /\ pc # "running"
        /\ (dev.running => adc.enabled) /\ data = dev.ch_state
        /\ (~dev.running => dev.ch_active = {} \/ pc \in {"setup", "start"})
    BY <1>0, <1>2 DEF Underway, Starting
  <2>2. ~dev'.running => dev'.ch_active = {} \/ pc \in {"setup", "start"}
    BY <1>8, <1>9, <1>11, <2>1
  <2> QED  BY <1>1, <1>2, <1>9, <1>10, <2>1, <2>2 DEF Underway
<1>15. Table'
  <2>1. pc \notin {"enable", "running", "trigger"}  BY <1>0, <1>2 DEF Underway, Starting
  <2>2. \A i \in DOMAIN dev.ch_state : i > irq + 1 => dev.ch_state[i] \in left
    BY <1>3, <1>8
  <2> QED  BY <1>0, <1>1, <1>2, <1>9, <2>1, <2>2 DEF Table
<1>16. Requests'
  <2> SUFFICES ASSUME NEW d \in due PROVE Request(d)' /\ ~In("smooth", d)'
    BY <1>1 DEF Requests
  <2>1. d \in Channels /\ Request(d) /\ ~In("smooth", d)  BY <1>0 DEF TypeOK, Requests
  <2>2. ~In("smooth", d)'  BY <1>1, <2>1 DEF In
  <2>3. Taken(d)' = Taken(d) /\ Taken(d) \in {0, 1}  BY <1>1 DEF Taken
  <2>4. ASSUME d # c PROVE Request(d)'
    <3>1. d \in dev'.ch_active <=> d \in dev.ch_active  BY <1>8, <1>9, <2>4
    <3>2. flags'[d] = flags[d] /\ chan'[d] = chan[d]  BY <1>12, <2>1, <2>4
    <3> QED  BY <2>1, <2>3, <3>1, <3>2, Untouched, Zenon
  <2>5. ASSUME d = c PROVE Request(d)'
    <3>1. Marked(gl, d, left)
      <4>1. CASE done  BY <1>7, <1>8, <2>5, <4>1 DEF Marked
      <4>2. CASE ~done  BY <1>7, <1>8, <2>1, <2>5, <4>2 DEF Marked, Request
      <4> QED  BY <4>1, <4>2
    <3>2. d \notin left => Ready(gl, s, Taken(d)')
      <4> SUFFICES ASSUME d \notin left PROVE Ready(gl, s, Taken(d)')  OBVIOUS
      <4>1. done  BY <1>3, <1>8, <2>5
      <4>2. Available(gl, s) \in Nat /\ s.reqsamples \in Nat
        BY <1>6, <1>7, AvailableIs DEF IsChan
      <4> QED  BY <1>7, <2>3, <4>1, <4>2 DEF Ready
    <3>3. flags'[d] = gl /\ chan'[d] = s /\ dev'.ch_active = left  BY <1>9, <1>12, <2>5
    <3> QED  BY <3>1, <3>2, <3>3, Zenon DEF Request
  <2> QED  BY <2>2, <2>4, <2>5
<1> QED  BY <1>13, <1>14, <1>15, <1>16 DEF CalmInv

-----------------------------------------------------------------------------
(* The invariant                                                           *)

\* calm ends with these.
LEMMA NotCalm ==
  ASSUME CalmInv, calm'
  PROVE  /\ ~SetupFails /\ ~AllocateFails /\ ~TimerFires /\ ~ConversionLost
         /\ ~InactivateLoad /\ ~InactivateStore /\ ~StopSequencer /\ ~SetTimer
         /\ ~DisableSequence /\ ~ClockSet
         /\ \A c, clocked, t : ~SetClock(c, clocked, t)
<1>1. dev.clocked = FALSE /\ IsMe(me, pc)  BY DEF CalmInv, TypeOK
<1>2. pc \notin {"inactivate", "inactive", "sequencer", "timer", "disable", "clock"}
  BY <1>1, Where
<1>3. ~SetupFails /\ ~AllocateFails /\ \A c, clocked, t : ~SetClock(c, clocked, t)
  BY DEF SetupFails, AllocateFails, SetClock
<1>4. ~TimerFires  BY <1>1 DEF TimerFires
<1>5. ~ConversionLost
  <2>1. adc.busy => adc.enabled  BY DEF CalmInv, Underway
  <2> QED  BY <2>1 DEF ConversionLost
<1>6. /\ ~InactivateLoad /\ ~InactivateStore /\ ~StopSequencer /\ ~SetTimer
      /\ ~DisableSequence /\ ~ClockSet
  BY <1>2 DEF InactivateLoad, InactivateStore, StopSequencer, SetTimer, DisableSequence,
     ClockSet, At
<1> QED  BY <1>3, <1>4, <1>5, <1>6

\* calm never begins again.
LEMMA CalmEnds ==
  ASSUME Next, calm'
  PROVE  calm
<1>1. CASE ADCIntHandler
  BY <1>1 DEF ADCIntHandler, IntEnter, IntChannel, IntLeave, programVars
<1>2. CASE TimerFires \/ ConversionLost  BY <1>2 DEF TimerFires, ConversionLost, programVars
<1>3. CASE Calls
  BY <1>3 DEF Calls, Sample, GetSamples, SetBlocking, SetSmoothing, SetClock
<1>4. CASE Program
  BY <1>4 DEF Program, LoadByte, StoreByte, SetupChannel, Enlist, SetupFails, StartCheck, StartCompare,
     StartSequence, StartFaults, StartEnable, StartRunning, StartTrigger, WaitSamples,
     WaitReturns, TakeNothing, Take, TakeFresh, ReadValue, TakeBuffered, CountSample,
     InactivateLoad, InactivateStore, StopSequencer, SetLength, Allocate, AllocateFails,
     FlushIndex, FlushSum, FlushBuffers, SetTimer, DisableSequence, ClockSet
<1> QED  BY <1>1, <1>2, <1>3, <1>4 DEF Next

\* Every call of a program that is calm keeps the invariant.
LEMMA CallsKeep ==
  ASSUME CalmInv, Calls, calm'
  PROVE  CalmInv'
<1>1. ASSUME NEW S \in SUBSET Channels \ {{}}, NEW n \in Counts, Sample(S, n) PROVE CalmInv'
  BY <1>1, SampleKeeps
<1>2. ASSUME NEW c \in Channels, NEW n \in Counts \cup {0}, GetSamples(c, n) PROVE CalmInv'
  BY <1>2, GetSamplesKeeps
<1>3. ASSUME NEW c \in Channels, NEW mode \in BOOLEAN, SetBlocking(c, mode) PROVE CalmInv'
  BY <1>3, SetBlockingKeeps
<1>4. ASSUME NEW c \in Channels, NEW l \in LogLens, SetSmoothing(c, l) PROVE CalmInv'
  BY <1>4, SetSmoothingKeeps
<1>5. ASSUME NEW c \in Channels, NEW clocked \in BOOLEAN, NEW t \in {0, 1}, SetClock(c, clocked, t)
      PROVE  CalmInv'
  BY <1>5, NotCalm
<1> QED  BY <1>1, <1>2, <1>3, <1>4, <1>5, Zenon DEF Calls

\* Every step of a call in a program that is calm keeps the invariant.
LEMMA ProgramKeeps ==
  ASSUME CalmInv, Program, calm'
  PROVE  CalmInv'
BY NotCalm, LoadByteKeeps, StoreByteKeeps, SetupChannelKeeps, StartCheckKeeps,
   StartCompareKeeps, StartSequenceKeeps, StartFaultsKeeps, StartEnableKeeps,
   StartRunningKeeps, StartTriggerKeeps, WaitSamplesKeeps, WaitReturnsKeeps,
   TakeNothingKeeps, TakeKeeps, TakeFreshKeeps, ReadValueKeeps, TakeBufferedKeeps,
   CountSampleKeeps, SetLengthKeeps, AllocateKeeps, FlushIndexKeeps, FlushSumKeeps,
   FlushBuffersKeeps, Zenon
   DEF Program

\* Every step keeps the invariant.
LEMMA NextAInv ==
  ASSUME AInv, [Next]_vars
  PROVE  AInv'
<1> SUFFICES ASSUME calm' PROVE CalmInv'  BY DEF AInv
<1>1. CASE Next
  <2>1. CalmInv  BY <1>1, CalmEnds DEF AInv
  <2>2. CASE ADCIntHandler
    BY <2>1, <2>2, IntEnterKeeps, IntChannelKeeps, IntLeaveKeeps DEF ADCIntHandler
  <2>3. CASE TimerFires \/ ConversionLost  BY <2>1, <2>3, NotCalm
  <2>4. CASE Calls  BY <2>1, <2>4, CallsKeep
  <2>5. CASE Program  BY <2>1, <2>5, ProgramKeeps
  <2> QED  BY <1>1, <2>2, <2>3, <2>4, <2>5 DEF Next
<1>2. CASE UNCHANGED vars
  <2>1. CalmInv /\ UNCHANGED vars  BY <1>2, Zenon DEF vars, AInv
  <2>2. TypeOK'  BY <2>1, Zenon DEF vars, CalmInv, TypeOK
  <2>3. Underway'  BY <2>1, Zenon DEF vars, CalmInv, Underway
  <2>4. Table'  BY <2>1, Zenon DEF vars, CalmInv, Table
  <2>5. Requests'
    BY <2>1, Zenon DEF vars, CalmInv, Requests, Request, Taken, In
  <2> QED  BY <2>2, <2>3, <2>4, <2>5 DEF CalmInv
<1> QED  BY <1>1, <1>2

-----------------------------------------------------------------------------
(* The theorems                                                            *)

\* Where the converter, the handler and the program can be at the same time, and what
\* the flags and the channel table hold there, as long as programs are calm.
THEOREM Invariant == Spec => []AInv
<1>1. Init => AInv  BY InitAInv
<1>2. AInv /\ [Next]_vars => AInv'  BY NextAInv
<1> QED  BY <1>1, <1>2, PTL DEF Spec

\* The handler files the samples under the channels they were converted from: no step
\* of adc_sample changes the channel table between a conversion and its handler.
THEOREM FiledRight == Spec => []Filed
<1>1. AInv => Filed  BY DEF AInv, CalmInv, Underway, Filed
<1> QED  BY <1>1, Invariant, PTL

\* Between calls a channel that still waits for samples is being converted, although
\* running is tested, set and cleared by the program and the handler without a lock.
THEOREM NeverForgotten == Spec => []Served
<1>1. AInv => Served  BY DEF AInv, CalmInv, Underway, Starting, Served
<1> QED  BY <1>1, Invariant, PTL

\* op_pending tells whether a channel is being sampled, and what was asked for is there
\* when it no longer is, unless an unlocked store to the flags has lost a change.
THEOREM RequestsKept == Spec => []RequestKept
<1>1. AInv => RequestKept
  <2> SUFFICES ASSUME AInv, calm, NEW c \in due
               PROVE  /\ flags[c].op_pending <=> c \in dev.ch_active
                      /\ c \notin dev.ch_active /\ ~In("get", c) =>
                           Available(flags[c], chan[c]) >= chan[c].reqsamples
    BY DEF RequestKept
  <2>1. Request(c) /\ c \in Channels /\ IsMe(me, pc)
    BY DEF AInv, CalmInv, Requests, TypeOK
  <2>2. flags[c].op_pending <=> c \in dev.ch_active  BY <2>1 DEF Request, Marked
  <2>3. ASSUME c \notin dev.ch_active, ~In("get", c)
        PROVE  Available(flags[c], chan[c]) >= chan[c].reqsamples
    <3>1. Taken(c) = 0
      <4>1. pc = "count" => me.call = "get"  BY <2>1, Where
      <4> QED  BY <2>3, <4>1 DEF Taken, In
    <3>2. flags[c] \in Flag /\ IsChan(chan[c])  BY <2>1 DEF AInv, CalmInv, TypeOK
    <3>3. Available(flags[c], chan[c]) \in Nat /\ chan[c].reqsamples \in Nat
      BY <3>2, AvailableIs DEF IsChan
    <3> QED  BY <2>1, <2>3, <3>1, <3>3 DEF Request, Ready
  <2> QED  BY <2>2, <2>3
<1> QED  BY <1>1, Invariant, PTL

-----------------------------------------------------------------------------
(* The smoothing filters                                                   *)

\* Where the handler finds the sample it has just stored.
Pointed == /\ DOMAIN sample_buf = Channels
           /\ \A i \in DOMAIN dev.ch_state : chan[dev.ch_state[i]].value_ptr = i

\* A channel whose filter is being set is not sampled: its op_pending was clear.
Kept(c) == pc = "store" /\ me.c = c => me.byte.op_pending
Busy    == \A c \in dev.ch_active : flags[c].op_pending /\ Kept(c) /\ ~In("smooth", c)

\* Only the program clears smooth_ready, so what it has loaded may be too early, never
\* too late; and it takes samples from warm filters only.
Filters == Chan.logsmoothlen > 0
Stored ==
  /\ pc = "store" => (me.byte.smooth_ready => Flags.smooth_ready)
  /\ me.call = "get" /\ pc \in {"pick", "value", "count", "load", "store"} /\ Filters =>
       Flags.smooth_ready
  /\ me.call = "get" /\ pc = "store" /\ Filters => me.byte.smooth_ready
  /\ me.call = "get" /\ pc \in {"load", "store"} /\ me.bit = "smooth_ready" =>
       Flags.smooth_ready /\ me.to = TRUE
  /\ me.call = "smooth" /\ pc \in {"load", "store"} => me.to = FALSE

\* The ring of a channel, and how far one that is not warm, or is about to lose the
\* mark of it, has been filled.
Sized(s)     == /\ s.smoothbuf = [i \in DOMAIN s.smoothbuf |-> s.smoothbuf[i]]
                /\ s.logsmoothlen > 0 => DOMAIN s.smoothbuf = 1..RingSize(s)
Filled(s, c) == /\ s.smoothidx \in Nat
                /\ \A i \in 1..s.smoothidx : i \in DOMAIN s.smoothbuf /\ s.smoothbuf[i].of = c
Cold(c)      == ~flags[c].smooth_ready \/ (pc = "store" /\ me.c = c /\ ~me.byte.smooth_ready)
Flushed      == pc \in {"sum", "zero", "load", "store"}

Ring(c) ==
  /\ ~(pc = "allocate" /\ me.c = c) => Sized(chan[c])
  /\ In("smooth", c) /\ Flushed => chan[c].smoothidx = 0
  /\ ~In("smooth", c) /\ chan[c].logsmoothlen > 0 /\ Cold(c) => Filled(chan[c], c)
Rings == \A c \in Channels : Ring(c)

WarmInv == Pointed /\ Busy /\ Stored /\ Rings

\* Steps that leave the ring of a channel alone.
SameRing(s, t) == /\ t.logsmoothlen = s.logsmoothlen /\ t.smoothidx = s.smoothidx
                  /\ t.smoothbuf = s.smoothbuf

\* The same ring is as large and as full.
LEMMA RingSame ==
  ASSUME NEW s, NEW t, SameRing(s, t), NEW c
  PROVE  (Sized(s) => Sized(t)) /\ (Filled(s, c) => Filled(t, c))
BY DEF SameRing, Sized, Filled, RingSize

\* A sample of the channel goes into its ring; a full ring starts over with it.
LEMMA SmoothFills ==
  ASSUME NEW s, NEW v, NEW c, IsChan(s), Sized(s), s.logsmoothlen > 0, Filled(s, c), v.of = c
  PROVE  /\ Sized(Smooth(s, v)) /\ Filled(Smooth(s, v), c)
         /\ RingFull(s) => /\ RingSize(s) \in Nat
                           /\ \A i \in 1..RingSize(s) : Smooth(s, v).smoothbuf[i].of = c
<1> DEFINE k == RingPlace(s)
           sum == s.smoothsum - s.smoothbuf[k].no + v.no
           ring == [s.smoothbuf EXCEPT ![k] = v]
           t == [s EXCEPT !.smoothidx = k, !.smoothsum = sum, !.smoothbuf = ring]
<1>1. Smooth(s, v) = IF k \in DOMAIN s.smoothbuf THEN t ELSE s
  BY DEF Smooth, IsChan, ChanFields
<1>2. k = (IF s.smoothidx = RingSize(s) THEN 1 ELSE s.smoothidx + 1)
  BY DEF RingPlace, RingFull
<1>3. s.smoothidx \in Nat /\ \A i \in 1..s.smoothidx : i \in DOMAIN s.smoothbuf /\ s.smoothbuf[i].of = c
  BY DEF Filled
<1>4. k \in Nat
  BY <1>2, <1>3
<1> HIDE DEF k, sum
<1>5. CASE k \in DOMAIN s.smoothbuf
  <2>1. /\ ring = [i \in DOMAIN ring |-> ring[i]] /\ DOMAIN ring = DOMAIN s.smoothbuf
        /\ ring[k] = v /\ \A i \in DOMAIN s.smoothbuf : i # k => ring[i] = s.smoothbuf[i]
    BY <1>5
  <2> HIDE DEF ring
  <2>2. t.smoothidx = k /\ t.smoothbuf = ring /\ t.logsmoothlen = s.logsmoothlen
    BY DEF IsChan, ChanFields
  <2> HIDE DEF t
  <2>3. Sized(t)
    BY <2>1, <2>2 DEF Sized, RingSize
  <2>4. DOMAIN s.smoothbuf = 1..RingSize(s)
    BY DEF Sized
  <2>5. \A i \in 1..s.smoothidx : i # k /\ i \in DOMAIN s.smoothbuf => ring[i].of = c
    BY <1>3, <2>1
  <2>6. CASE s.smoothidx = RingSize(s)
    <3>1. k = 1 /\ RingSize(s) \in Nat /\ \A i \in 1..RingSize(s) : ring[i].of = c
      BY <1>2, <1>3, <2>1, <2>4, <2>5, <2>6
    <3>2. 1 \in 1..RingSize(s)
      BY <1>5, <2>4, <3>1
    <3>3. Filled(t, c)
      BY <1>5, <2>1, <2>2, <3>1, <3>2 DEF Filled
    <3> QED
      BY <1>1, <1>5, <2>2, <2>3, <3>1, <3>3
  <2>7. CASE s.smoothidx # RingSize(s)
    <3>1. k = s.smoothidx + 1
      BY <1>2, <2>7
    <3>2. \A i \in 1..k : i \in DOMAIN s.smoothbuf
      BY <1>3, <1>5, <3>1
    <3>3. \A i \in 1..k : ring[i].of = c
      BY <1>3, <2>1, <2>5, <3>1, <3>2
    <3>4. Filled(t, c)
      BY <1>4, <2>1, <2>2, <3>2, <3>3 DEF Filled
    <3> QED
      BY <1>1, <1>5, <2>3, <2>7, <3>4 DEF RingFull
  <2> QED
    BY <2>6, <2>7
<1>6. CASE k \notin DOMAIN s.smoothbuf
  <2>1. Smooth(s, v) = s
    BY <1>1, <1>6
  <2> QED
    BY <1>3, <2>1 DEF RingFull
<1> QED
  BY <1>5, <1>6

\* A step of the program outside adc_update_smoothing.
LEMMA Plain ==
  ASSUME CalmInv, CalmInv', WarmInv,
         pc = "idle" \/ me.call # "smooth", pc' = "idle" \/ me'.call # "smooth", pc' # "store",
         \A c \in Channels : /\ flags'[c].smooth_ready = flags[c].smooth_ready
                             /\ \/ SameRing(chan[c], chan'[c])
                                \/ Sized(chan'[c]) /\ flags'[c].smooth_ready,
         \A c \in dev'.ch_active : flags'[c].op_pending,
         Pointed', Stored'
  PROVE  WarmInv'
<1>1. pc # "allocate" /\ pc' # "allocate"
  BY Where DEF CalmInv, TypeOK
<1>2. Busy'
  BY DEF Busy, Kept, In
<1>3. ASSUME NEW c \in Channels PROVE Ring(c)'
  <2>1. ~In("smooth", c) /\ ~In("smooth", c)'
    BY DEF In
  <2>2. Ring(c)
    BY DEF WarmInv, Rings
  <2>3. CASE SameRing(chan[c], chan'[c])
    <3>1. Sized(chan'[c]) /\ (Filled(chan[c], c) => Filled(chan'[c], c))
          /\ chan'[c].logsmoothlen = chan[c].logsmoothlen
      BY <1>1, <2>2, <2>3, RingSame DEF Ring, SameRing
    <3>2. Cold(c)' => Cold(c)
      BY DEF Cold
    <3>3. chan'[c].logsmoothlen > 0 /\ Cold(c)' => Filled(chan'[c], c)
      BY <2>1, <2>2, <3>1, <3>2 DEF Ring
    <3>4. (Sized(chan[c]))' /\ ((Filled(chan[c], c))' <=> Filled(chan'[c], c))
      BY <3>1 DEF Sized, Filled, RingSize
    <3> QED
      BY <2>1, <3>3, <3>4 DEF Ring
  <2>4. CASE Sized(chan'[c]) /\ flags'[c].smooth_ready
    <3>1. ~Cold(c)'
      BY <2>4 DEF Cold
    <3>2. (Sized(chan[c]))'
      BY <2>4 DEF Sized, RingSize
    <3> QED
      BY <2>1, <3>1, <3>2 DEF Ring
  <2> QED
    BY <2>3, <2>4
<1> QED
  BY <1>2, <1>3 DEF WarmInv, Rings

\* A step of adc_update_smoothing.
LEMMA SettingStep ==
  ASSUME CalmInv, CalmInv', WarmInv, UNCHANGED <<flags, dev, sample_buf>>,
         pc \in {"length", "allocate", "flush", "sum", "zero"},
         NEW s, chan' = [chan EXCEPT ![me.c] = s], s.value_ptr = Chan.value_ptr,
         pc' # "allocate" => Sized(s), pc' \in {"idle", "sum", "load", "zero"} => s.smoothidx = 0,
         pc' # "store", pc' # "idle" => me'.c = me.c /\ me'.call = "smooth",
         pc' = "load" => me'.to = FALSE
  PROVE  WarmInv'
<1>1. me.call = "smooth" /\ me.c \in Channels /\ DOMAIN chan = Channels /\ Chan = chan[me.c]
  BY Where DEF CalmInv, TypeOK, Chan
<1>2. In("smooth", me.c)
  BY <1>1 DEF In
<1>3. /\ chan'[me.c] = s
      /\ \A c \in Channels : c # me.c => chan'[c] = chan[c] /\ ~In("smooth", c) /\ ~In("smooth", c)'
  BY <1>1 DEF In
<1>4. Pointed'
  BY <1>1, <1>3 DEF WarmInv, Pointed
<1>5. Busy'
  <2>1. \A c \in dev.ch_active : c \in Channels /\ flags[c].op_pending /\ c # me.c
    BY <1>2 DEF CalmInv, TypeOK, WarmInv, Busy
  <2> QED
    BY <1>3, <2>1 DEF Busy, Kept
<1>6. Stored'
  <2>1. pc' = "idle" \/ me'.call = "smooth"
    OBVIOUS
  <2> QED
    BY <2>1 DEF Stored
<1>7. ASSUME NEW c \in Channels PROVE Ring(c)'
  <2>1. CASE c # me.c
    <3>1. Ring(c) /\ chan'[c] = chan[c] /\ flags' = flags
      BY <1>3, <2>1 DEF WarmInv, Rings
    <3>2. Sized(chan[c]) /\ (chan[c].logsmoothlen > 0 /\ ~flags[c].smooth_ready => Filled(chan[c], c))
      BY <1>3, <2>1, <3>1 DEF Ring, Cold
    <3>3. /\ (Sized(chan[c]))' <=> Sized(chan[c])
          /\ (Filled(chan[c], c))' <=> Filled(chan[c], c)
      BY <3>1, Zenon DEF Sized, Filled, RingSize
    <3>4. Cold(c)' => ~flags[c].smooth_ready
      BY DEF Cold
    <3> QED
      BY <1>3, <2>1, <3>1, <3>2, <3>3, <3>4 DEF Ring
  <2>2. CASE c = me.c
    <3>1. pc' # "allocate" => (Sized(chan[c]))'
      <4>1. (Sized(chan[c]))' <=> Sized(s)
        BY <1>3, <2>2, Zenon DEF Sized, RingSize
      <4> QED
        BY <4>1
    <3>2. CASE pc' = "idle"
      <4>1. (Filled(chan[c], c))'
        BY <1>3, <2>2, <3>2 DEF Filled
      <4> QED
        BY <3>1, <3>2, <4>1 DEF Ring, In
    <3>3. CASE pc' # "idle"
      <4>1. In("smooth", c)' /\ me'.c = c
        BY <2>2, <3>3 DEF In
      <4>2. Flushed' => chan'[c].smoothidx = 0
        BY <1>3, <2>2 DEF Flushed
      <4> QED
        BY <3>1, <4>1, <4>2 DEF Ring
    <3> QED
      BY <3>2, <3>3
  <2> QED
    BY <2>1, <2>2
<1> QED
  BY <1>4, <1>5, <1>6, <1>7 DEF WarmInv, Rings

\* A step of the handler.
LEMMA HandlerStep ==
  ASSUME CalmInv, WarmInv, UNCHANGED <<pc, me>>, Pointed',
         \A c \in Channels :
           /\ flags[c].smooth_ready => flags'[c].smooth_ready
           /\ chan'[c].logsmoothlen = chan[c].logsmoothlen
           /\ \/ SameRing(chan[c], chan'[c])
              \/ ~In("smooth", c) /\ Sized(chan'[c]) /\ Filled(chan'[c], c),
         dev'.ch_active \subseteq dev.ch_active,
         \A c \in dev'.ch_active : flags'[c].op_pending = flags[c].op_pending
  PROVE  WarmInv'
<1>1. me.c \in Channels
  BY Where DEF CalmInv, TypeOK
<1>2. Busy'
  <2>1. Busy /\ \A c \in dev'.ch_active : c \in dev.ch_active
    BY DEF WarmInv
  <2> QED
    BY <2>1 DEF Busy, Kept, In
<1>3. Stored'
  <2>1. Stored
    BY DEF WarmInv
  <2>2. Filters' <=> Filters
    BY <1>1 DEF Filters, Chan
  <2>3. Flags.smooth_ready => Flags'.smooth_ready
    BY <1>1 DEF Flags
  <2> QED
    BY <2>1, <2>2, <2>3 DEF Stored
<1>4. ASSUME NEW c \in Channels PROVE Ring(c)'
  <2>1. Ring(c)
    BY DEF WarmInv, Rings
  <2>2. (In("smooth", c)' <=> In("smooth", c)) /\ (Flushed' <=> Flushed) /\ (Cold(c)' => Cold(c))
    BY DEF In, Flushed, Cold
  <2>3. (Sized(chan[c]))' <=> Sized(chan'[c])
    BY Zenon DEF Sized, RingSize
  <2>4. (Filled(chan[c], c))' <=> Filled(chan'[c], c)
    BY Zenon DEF Filled
  <2>5. CASE SameRing(chan[c], chan'[c])
    <3>1. (Sized(chan[c]) => Sized(chan'[c])) /\ (Filled(chan[c], c) => Filled(chan'[c], c))
      BY <2>5, RingSame
    <3>2. chan'[c].smoothidx = chan[c].smoothidx
      BY <2>5 DEF SameRing
    <3> QED
      BY <2>1, <2>2, <2>3, <2>4, <3>1, <3>2 DEF Ring
  <2>6. CASE ~In("smooth", c) /\ Sized(chan'[c]) /\ Filled(chan'[c], c)
    BY <2>2, <2>3, <2>4, <2>6 DEF Ring
  <2> QED
    BY <2>5, <2>6
<1> QED
  BY <1>2, <1>3, <1>4 DEF WarmInv, Rings

\* A new sequence points every channel in it at its slot.
LEMMA Repointed ==
  ASSUME CalmInv, WarmInv, Resequence, sample_buf' = sample_buf
  PROVE  /\ Pointed'
         /\ \A c \in Channels : /\ SameRing(chan[c], chan'[c])
                                /\ flags'[c].smooth_ready = flags[c].smooth_ready
<1> DEFINE seq == NewSequence
<1>1. TypeOK
  BY DEF CalmInv
<1>2. seq \in Seq(Channels) /\ OneToOne(seq) /\ Holds(seq, dev.ch_active)
  BY <1>1, SortedIs DEF TypeOK, NewSequence
<1>3. dev' = [dev EXCEPT !.ch_state = seq, !.last_ch_active = dev.ch_active]
  BY DEF Resequence
<1>4. \A c \in Channels : chan'[c] = IF c \in dev.ch_active
                                     THEN [chan[c] EXCEPT !.value_ptr = Slot(seq, c)] ELSE chan[c]
  BY DEF Resequence
<1> HIDE DEF seq
<1>5. dev'.ch_state = seq
  BY <1>1, <1>3 DEF TypeOK
<1>6. ASSUME NEW i \in DOMAIN seq PROVE chan'[seq[i]].value_ptr = i
  <2>1. seq[i] \in dev.ch_active /\ seq[i] \in Channels
    BY <1>2 DEF Holds
  <2>2. Slot(seq, seq[i]) = i
    BY <1>2 DEF Slot, OneToOne
  <2>3. chan'[seq[i]] = [chan[seq[i]] EXCEPT !.value_ptr = i]
    BY <1>4, <2>1, <2>2
  <2>4. DOMAIN chan[seq[i]] = ChanFields
    BY <1>1, <2>1 DEF TypeOK, IsChan
  <2> QED
    BY <2>3, <2>4 DEF ChanFields
<1>7. Pointed'
  BY <1>5, <1>6 DEF WarmInv, Pointed
<1>8. ASSUME NEW c \in Channels PROVE SameRing(chan[c], chan'[c])
  <2>1. DOMAIN chan[c] = ChanFields
    BY <1>1 DEF TypeOK, IsChan
  <2>2. \E v : chan'[c] = IF c \in dev.ch_active THEN [chan[c] EXCEPT !.value_ptr = v] ELSE chan[c]
    BY <1>4
  <2> QED
    BY <2>1, <2>2 DEF SameRing, ChanFields
<1>9. ASSUME NEW c \in Channels PROVE flags'[c].smooth_ready = flags[c].smooth_ready
  <2>1. flags'[c] = IF c \in dev.ch_active THEN [flags[c] EXCEPT !.value_fresh = FALSE]
                                           ELSE flags[c]
    BY DEF Resequence
  <2>2. flags[c] \in Flag
    BY <1>1 DEF TypeOK
  <2> QED
    BY <2>1, <2>2 DEF Flag
<1> QED
  BY <1>7, <1>8, <1>9

\* A step that leaves the channels and the flags alone.
LEMMA PlainStep ==
  ASSUME CalmInv, CalmInv', WarmInv, UNCHANGED <<flags, chan, sample_buf>>,
         dev'.ch_state = dev.ch_state, dev'.ch_active = dev.ch_active,
         pc = "idle" \/ me.call # "smooth", pc' = "idle" \/ me'.call # "smooth", pc' # "store",
         Stored'
  PROVE  WarmInv'
<1>1. \A c \in Channels : SameRing(chan[c], chan'[c])
  BY DEF SameRing
<1>2. \A c \in dev'.ch_active : flags'[c].op_pending
  BY DEF WarmInv, Busy
<1>3. Pointed'
  BY DEF WarmInv, Pointed
<1> QED
  BY <1>1, <1>2, <1>3, Plain

\* Calls begin with nothing loaded.
LEMMA CallsWarm ==
  ASSUME CalmInv, CalmInv', WarmInv, Calls, calm'
  PROVE  WarmInv'
<1>1. ASSUME NEW S \in SUBSET Channels \ {{}}, NEW n \in Counts, Sample(S, n) PROVE WarmInv'
  <2>1. /\ pc = "idle" /\ pc' = "setup" /\ me' = [Me0 EXCEPT !.call = "sample", !.todo = S, !.n = n]
        /\ UNCHANGED <<flags, chan, sample_buf, dev>>
    BY <1>1 DEF Sample, Call, At, Goto, boardVars
  <2>2. me'.call = "sample"
    BY <2>1 DEF Me0
  <2> QED
    BY <2>1, <2>2, PlainStep DEF Stored
<1>2. ASSUME NEW c \in Channels, NEW n \in Counts \cup {0}, GetSamples(c, n) PROVE WarmInv'
  <2>1. /\ pc = "idle" /\ pc' = "wait" /\ me' = [Me0 EXCEPT !.call = "get", !.c = c, !.n = n]
        /\ UNCHANGED <<flags, chan, sample_buf, dev>>
    BY <1>2 DEF GetSamples, Call, At, Goto, boardVars
  <2>2. me'.call = "get"
    BY <2>1 DEF Me0
  <2> QED
    BY <2>1, <2>2, PlainStep DEF Stored
<1>3. ASSUME NEW c \in Channels, NEW mode \in BOOLEAN, SetBlocking(c, mode) PROVE WarmInv'
  <2>1. /\ pc = "idle" /\ pc' = "load" /\ me' = [Me0 EXCEPT !.c = c, !.bit = "blocking", !.to = mode]
        /\ UNCHANGED <<flags, chan, sample_buf, dev>>
    BY <1>3 DEF SetBlocking, Call, At, Goto, boardVars
  <2>2. me'.call = "none"
    BY <2>1 DEF Me0
  <2> QED
    BY <2>1, <2>2, PlainStep DEF Stored
<1>4. ASSUME NEW c \in Channels, NEW l \in LogLens, SetSmoothing(c, l) PROVE WarmInv'
  <2>1. ~flags[c].op_pending
    BY <1>4 DEF SetSmoothing
  <2>2. /\ pc = "idle" /\ pc' = "length"
        /\ me' = [Me0 EXCEPT !.call = "smooth", !.c = c, !.log = l,
                             !.bit = "op_pending", !.to = FALSE, !.then = "inactivate"]
        /\ UNCHANGED <<flags, chan, sample_buf, dev>>
    BY <1>4, <2>1 DEF SetSmoothing, Call, At, Goto, boardVars
  <2>3. me'.call = "smooth" /\ me'.c = c
    BY <2>2 DEF Me0
  <2>4. Busy' /\ Pointed' /\ Stored'
    BY <2>1, <2>2, <2>3 DEF WarmInv, Busy, Kept, In, Pointed, Stored
  <2>5. ASSUME NEW d \in Channels PROVE Ring(d)'
    <3>1. Ring(d) /\ ~In("smooth", d)
      BY <2>2 DEF WarmInv, Rings, In
    <3>2. ((Sized(chan[d]))' <=> Sized(chan[d])) /\ ((Filled(chan[d], d))' <=> Filled(chan[d], d))
      BY <2>2, Zenon DEF Sized, Filled, RingSize
    <3>3. ~Flushed' /\ (Cold(d)' => Cold(d))
      BY <2>2 DEF Flushed, Cold
    <3> QED
      BY <2>2, <3>1, <3>2, <3>3 DEF Ring
  <2> QED
    BY <2>4, <2>5 DEF WarmInv, Rings
<1>5. ASSUME NEW c \in Channels, NEW clocked \in BOOLEAN, NEW t \in {0, 1}, SetClock(c, clocked, t)
      PROVE  WarmInv'
  BY <1>5, NotCalm
<1> QED
  BY <1>1, <1>2, <1>3, <1>4, <1>5, Zenon DEF Calls

\* The steps of sample() leave the rings alone.
LEMMA SamplingWarm ==
  ASSUME CalmInv, CalmInv', WarmInv,
         \/ StartCheck \/ StartCompare \/ StartSequence \/ StartFaults
         \/ StartEnable \/ StartRunning \/ StartTrigger
  PROVE  WarmInv'
<1>1. pc \in Starting \cup {"start", "trigger"} /\ (pc' = "idle" \/ me' = me)
      /\ pc' \in Starting \cup {"trigger", "fault", "idle"}
  BY DEF StartCheck, StartCompare, StartSequence, StartFaults, StartEnable, StartRunning,
     StartTrigger, At, Goto, GoIdle, Starting
<1>2. me.call = "sample"
  BY <1>1, Where DEF CalmInv, TypeOK, Sampling, Starting
<1>3. /\ pc' # "store" /\ Stored' /\ pc # "idle"
      /\ pc' = "idle" \/ me'.call # "smooth"
  BY <1>1, <1>2 DEF Stored, Starting
<1>4. CASE StartSequence
  <2>1. Resequence /\ sample_buf' = sample_buf
    BY <1>4 DEF StartSequence
  <2>2. /\ dev'.ch_active = dev.ch_active /\ dev.ch_active \subseteq Channels
        /\ \A c \in Channels : flags'[c].op_pending = flags[c].op_pending
    BY <2>1, ResequenceIs DEF CalmInv, TypeOK
  <2>3. \A c \in dev'.ch_active : flags'[c].op_pending
    BY <2>2 DEF WarmInv, Busy
  <2> QED
    BY <1>2, <1>3, <2>1, <2>3, Repointed, Plain
<1>5. CASE StartRunning
  <2>1. /\ UNCHANGED <<flags, chan, sample_buf>> /\ dev' = [dev EXCEPT !.running = TRUE]
    BY <1>5 DEF StartRunning
  <2>2. dev'.ch_state = dev.ch_state /\ dev'.ch_active = dev.ch_active
    BY <2>1 DEF CalmInv, TypeOK
  <2> QED
    BY <1>2, <1>3, <2>1, <2>2, PlainStep
<1>6. CASE StartCheck \/ StartCompare \/ StartFaults \/ StartEnable \/ StartTrigger
  <2>1. UNCHANGED <<flags, chan, sample_buf, dev>>
    BY <1>6 DEF StartCheck, StartCompare, StartFaults, StartEnable, StartTrigger, boardVars
  <2> QED
    BY <1>2, <1>3, <2>1, PlainStep
<1> QED
  BY <1>4, <1>5, <1>6

\* A channel is made active with op_pending, and its ring stays.
LEMMA SetupChannelWarm ==
  ASSUME CalmInv, CalmInv', WarmInv, SetupChannel
  PROVE  WarmInv'
<1>1. pc = "setup" /\ sample_buf' = sample_buf
  BY DEF SetupChannel, At
<1>2. PICK c \in me.todo :
        /\ chan' = [chan EXCEPT ![c].reqsamples = me.n,
                      ![c].buf = IF @.size # me.n THEN BufFlush(BufSet(@, me.n)) ELSE @]
        /\ flags' = [flags EXCEPT ![c].op_pending = TRUE]
        /\ dev' = [dev EXCEPT !.ch_active = @ \cup {c}]
        /\ me' = [me EXCEPT !.todo = @ \ {c}]
        /\ pc' = IF me.todo = {c} THEN "start" ELSE "setup"
  BY <1>1, Zenon DEF SetupChannel, Enlist, Goto
<1>3. /\ DOMAIN me = MeFields /\ c \in Channels /\ me.call = "sample"
  BY <1>1, <1>2, Where DEF CalmInv, TypeOK, Sampling
<1>4. me'.call = "sample" /\ pc' \in {"start", "setup"}
  BY <1>2, <1>3 DEF MeFields
<1>5. \A d \in Channels : /\ flags'[d].smooth_ready = flags[d].smooth_ready
                          /\ flags'[d].op_pending = IF d = c THEN TRUE ELSE flags[d].op_pending
  BY <1>2, <1>3 DEF CalmInv, TypeOK, Flag
<1>6. dev'.ch_active = dev.ch_active \cup {c} /\ dev'.ch_state = dev.ch_state
      /\ dev.ch_active \subseteq Channels /\ dev.ch_state \in Seq(Channels)
  BY <1>2 DEF CalmInv, TypeOK
<1>7. \A d \in Channels : SameRing(chan[d], chan'[d]) /\ chan'[d].value_ptr = chan[d].value_ptr
  <2>1. DOMAIN chan = Channels /\ \A d \in Channels : DOMAIN chan[d] = ChanFields
    BY DEF CalmInv, TypeOK, IsChan
  <2>2. PICK b : chan' = [chan EXCEPT ![c].reqsamples = me.n, ![c].buf = b]
    BY <1>2, <1>3, <2>1
  <2> QED
    BY <1>3, <2>1, <2>2 DEF SameRing, ChanFields
<1>8. Pointed'
  BY <1>1, <1>6, <1>7 DEF WarmInv, Pointed
<1>9. \A d \in dev'.ch_active : flags'[d].op_pending
  BY <1>3, <1>5, <1>6 DEF WarmInv, Busy
<1>10. Stored' /\ pc' # "store"
  BY <1>4 DEF Stored
<1> QED
  BY <1>1, <1>3, <1>4, <1>5, <1>7, <1>8, <1>9, <1>10, Plain

\* Until a sample is taken from it, a channel that filters is warm.
LEMMA GettingWarm ==
  ASSUME CalmInv, CalmInv', WarmInv,
         \/ WaitSamples \/ WaitReturns \/ TakeNothing \/ Take \/ TakeFresh \/ ReadValue
  PROVE  WarmInv'
<1>1. UNCHANGED <<flags, chan, sample_buf, dev>>
  BY DEF WaitSamples, WaitReturns, TakeNothing, Take, TakeFresh, ReadValue, boardVars
<1>2. pc \in {"wait", "waited", "take", "pick", "value"}
  BY DEF WaitSamples, WaitReturns, TakeNothing, Take, TakeFresh, ReadValue, At
<1>3. DOMAIN me = MeFields /\ me.call = "get"
  BY <1>2, Where DEF CalmInv, TypeOK
<1>4. \/ pc' = "idle"
      \/ pc' \in {"waited", "take"} /\ me'.call = "get"
      \/ pc' = "pick" /\ me' = me /\ (~Filters \/ Flags.smooth_ready)
      \/ pc' = "value" /\ me' = me /\ pc = "pick"
      \/ /\ pc' = "load" /\ me'.call = "get" /\ me'.c = me.c
         /\ \/ me'.bit = "smooth_ready" /\ me'.to = TRUE /\ Flags.smooth_ready
            \/ me'.bit = "value_fresh" /\ pc = "value"
  <2>1. CASE WaitSamples \/ WaitReturns \/ TakeNothing
    BY <1>3, <2>1 DEF WaitSamples, WaitReturns, TakeNothing, Returned, GoIdle, Goto, MeFields
  <2>2. CASE TakeFresh
    BY <2>2 DEF TakeFresh, Goto, At
  <2>3. CASE ReadValue
    <3>1. me' = [[me EXCEPT !.sample = sample_buf[Chan.value_ptr]]
                   EXCEPT !.bit = "value_fresh", !.to = FALSE, !.then = "count"]
          /\ pc' = "load" /\ pc = "value"
      BY <2>3 DEF ReadValue, Assign, Goto, At
    <3> QED
      BY <1>3, <3>1 DEF MeFields
  <2>4. CASE Take
    <3>1. Chan.logsmoothlen = 0 \/ Flags.smooth_ready
      BY <2>4 DEF Take, CanTake
    <3>2. ~Filters \/ Flags.smooth_ready
      BY <3>1 DEF Filters
    <3>3. CASE Chan.logsmoothlen > 0 /\ RingFull(Chan)
      <4>1. pc' = "load" /\ me' = [me EXCEPT !.bit = "smooth_ready", !.to = TRUE, !.then = "pick"]
        BY <2>4, <3>3 DEF Take, Assign, Goto
      <4> QED
        BY <1>3, <3>2, <3>3, <4>1 DEF MeFields, Filters
    <3>4. CASE ~(Chan.logsmoothlen > 0 /\ RingFull(Chan))
      BY <2>4, <3>2, <3>4 DEF Take, Goto
    <3> QED
      BY <3>3, <3>4
  <2> QED
    BY <2>1, <2>2, <2>3, <2>4
<1>5. Stored'
  <2>1. me'.c = me.c => (Filters' <=> Filters) /\ Flags' = Flags
    BY <1>1 DEF Filters, Chan, Flags
  <2>2. pc \in {"pick", "value"} /\ Filters => Flags.smooth_ready
    BY <1>3 DEF WarmInv, Stored
  <2> QED
    BY <1>4, <2>1, <2>2 DEF Stored
<1>6. pc' = "idle" \/ me'.call # "smooth"
  BY <1>3, <1>4
<1> QED
  BY <1>1, <1>3, <1>4, <1>5, <1>6, PlainStep

\* Taking a buffered sample leaves the ring alone.
LEMMA TakeBufferedWarm ==
  ASSUME CalmInv, CalmInv', WarmInv, TakeBuffered
  PROVE  WarmInv'
<1>1. pc = "pick" /\ pc' = "count" /\ UNCHANGED <<flags, dev, sample_buf>>
  BY DEF TakeBuffered, At, Goto
<1>2. DOMAIN me = MeFields /\ me.c \in Channels /\ me.call = "get"
  BY <1>1, Where DEF CalmInv, TypeOK
<1>3. PICK v : me' = [me EXCEPT !.sample = v]
  BY DEF TakeBuffered
<1>4. me'.c = me.c /\ me'.call = "get"
  BY <1>2, <1>3 DEF MeFields
<1>5. \A d \in Channels : SameRing(chan[d], chan'[d]) /\ chan'[d].value_ptr = chan[d].value_ptr
  <2>1. DOMAIN chan = Channels /\ \A d \in Channels : DOMAIN chan[d] = ChanFields
    BY DEF CalmInv, TypeOK, IsChan
  <2>2. chan' = chan \/ \E b : chan' = [chan EXCEPT ![me.c].buf = b]
    BY <1>2, <2>1 DEF TakeBuffered
  <2>3. ASSUME NEW b, chan' = [chan EXCEPT ![me.c].buf = b], NEW d \in Channels
        PROVE  SameRing(chan[d], chan'[d]) /\ chan'[d].value_ptr = chan[d].value_ptr
    BY <1>2, <2>1, <2>3 DEF SameRing, ChanFields
  <2> QED
    BY <2>2, <2>3 DEF SameRing
<1>6. Stored'
  <2>1. (Filters' <=> Filters) /\ Flags' = Flags
    BY <1>1, <1>2, <1>4, <1>5 DEF Filters, Chan, Flags, SameRing
  <2>2. Filters => Flags.smooth_ready
    BY <1>1, <1>2 DEF WarmInv, Stored
  <2> QED
    BY <1>1, <1>4, <2>1, <2>2 DEF Stored
<1>7. Pointed'
  <2>1. dev.ch_state \in Seq(Channels)
    BY DEF CalmInv, TypeOK
  <2> QED
    BY <1>1, <1>5, <2>1 DEF WarmInv, Pointed
<1>8. \A d \in dev'.ch_active : flags'[d].op_pending
  BY <1>1 DEF WarmInv, Busy
<1> QED
  BY <1>1, <1>2, <1>4, <1>5, <1>6, <1>7, <1>8, Plain

\* A sample goes through the ring of a channel only when it is warm.
LEMMA CountSampleWarm ==
  ASSUME CalmInv, CalmInv', WarmInv, CountSample
  PROVE  WarmInv'
<1> DEFINE t == IF Chan.logsmoothlen > 0 THEN Smooth(Chan, me.sample) ELSE Chan
           s == [t EXCEPT !.reqsamples = IF @ > 0 THEN @ - 1 ELSE 0]
<1>1. /\ pc = "count" /\ UNCHANGED <<flags, dev, sample_buf>>
      /\ chan' = [chan EXCEPT ![me.c] = s]
  BY DEF CountSample, At
<1>2. DOMAIN me = MeFields /\ me.c \in Channels /\ me.call = "get"
  BY <1>1, Where DEF CalmInv, TypeOK
<1>3. pc' = "idle" \/ (pc' = "take" /\ me'.call = "get")
  BY <1>2 DEF CountSample, Returned, GoIdle, Goto, MeFields
<1>4. Chan = chan[me.c] /\ IsChan(Chan) /\ Flags = flags[me.c] /\ DOMAIN chan = Channels
  BY <1>2 DEF CalmInv, TypeOK, Chan, Flags
<1>5. Sized(Chan) /\ (Filters => Flags.smooth_ready)
  <2>1. Ring(me.c)
    BY <1>2 DEF WarmInv, Rings
  <2> QED
    BY <1>1, <1>2, <1>4, <2>1 DEF WarmInv, Stored, Ring
<1>6. /\ Sized(t) /\ IsChan(t) /\ t.value_ptr = Chan.value_ptr
      /\ ~Filters => t = Chan
  <2>1. CASE Filters
    <3> DEFINE k == RingPlace(Chan)
               sum == Chan.smoothsum - Chan.smoothbuf[k].no + me.sample.no
               ring == [Chan.smoothbuf EXCEPT ![k] = me.sample]
    <3>1. t = IF k \in DOMAIN Chan.smoothbuf
              THEN [Chan EXCEPT !.smoothidx = k, !.smoothsum = sum, !.smoothbuf = ring]
              ELSE Chan
      BY <1>4, <2>1 DEF Smooth, IsChan, ChanFields, Filters
    <3>2. /\ ring = [i \in DOMAIN ring |-> ring[i]] /\ DOMAIN ring = DOMAIN Chan.smoothbuf
      OBVIOUS
    <3> HIDE DEF k, sum, ring, t
    <3>3. /\ IsChan(t) /\ t.value_ptr = Chan.value_ptr /\ t.logsmoothlen = Chan.logsmoothlen
          /\ t.smoothbuf = ring \/ t = Chan
      BY <1>4, <3>1 DEF IsChan, ChanFields
    <3> QED
      BY <1>5, <2>1, <3>2, <3>3 DEF Sized, RingSize
  <2>2. CASE ~Filters
    <3>1. t = Chan
      BY <2>2 DEF Filters
    <3> QED
      BY <1>4, <1>5, <3>1
  <2> QED
    BY <2>1, <2>2
<1> HIDE DEF t
<1>7. SameRing(t, s) /\ s.value_ptr = t.value_ptr
  BY <1>6 DEF SameRing, IsChan, ChanFields
<1> HIDE DEF s
<1>8. Sized(s)
  BY <1>6, <1>7, RingSame
<1>9. chan'[me.c] = s /\ \A d \in Channels : d # me.c => chan'[d] = chan[d]
  BY <1>1, <1>2, <1>4
<1>10. \A d \in Channels : \/ SameRing(chan[d], chan'[d])
                           \/ Sized(chan'[d]) /\ flags'[d].smooth_ready
  <2>1. ASSUME NEW d \in Channels, d # me.c PROVE SameRing(chan[d], chan'[d])
    BY <1>9, <2>1 DEF SameRing
  <2>2. CASE Filters
    BY <1>1, <1>4, <1>5, <1>8, <1>9, <2>1, <2>2
  <2>3. CASE ~Filters
    <3>1. SameRing(chan[me.c], chan'[me.c])
      BY <1>4, <1>6, <1>7, <1>9, <2>3
    <3> QED
      BY <2>1, <3>1
  <2> QED
    BY <2>2, <2>3
<1>11. Pointed'
  <2>1. dev.ch_state \in Seq(Channels)
    BY DEF CalmInv, TypeOK
  <2> QED
    BY <1>1, <1>4, <1>6, <1>7, <1>9, <2>1 DEF WarmInv, Pointed
<1>12. \A d \in dev'.ch_active : flags'[d].op_pending
  BY <1>1 DEF WarmInv, Busy
<1>13. Stored' /\ pc' # "store" /\ (pc' = "idle" \/ me'.call # "smooth")
  BY <1>3 DEF Stored
<1>14. me.call # "smooth"
  BY <1>2
<1>15. \A d \in Channels : flags'[d].smooth_ready = flags[d].smooth_ready
  BY <1>1
<1> QED
  BY <1>10, <1>11, <1>12, <1>13, <1>14, <1>15, Plain

\* What is loaded is what is there.
LEMMA LoadByteWarm ==
  ASSUME CalmInv, CalmInv', WarmInv, LoadByte
  PROVE  WarmInv'
<1>1. pc = "load" /\ pc' = "store" /\ UNCHANGED <<flags, chan, sample_buf, dev>>
      /\ me' = [me EXCEPT !.byte = Flags]
  BY DEF LoadByte, At, Goto, boardVars
<1>2. DOMAIN me = MeFields /\ me.c \in Channels
  BY Where DEF CalmInv, TypeOK
<1>3. me'.byte = flags[me.c] /\ me'.c = me.c /\ me'.call = me.call /\ me'.bit = me.bit
      /\ me'.to = me.to
  BY <1>1, <1>2 DEF MeFields, Flags
<1>4. Pointed'
  BY <1>1 DEF WarmInv, Pointed
<1>5. Busy'
  BY <1>1, <1>3 DEF WarmInv, Busy, Kept, In
<1>6. Stored'
  <2>1. (Filters' <=> Filters) /\ Flags' = Flags /\ me'.byte = Flags
    BY <1>1, <1>3 DEF Filters, Chan, Flags
  <2> QED
    BY <1>1, <1>3, <2>1 DEF WarmInv, Stored
<1>7. ASSUME NEW c \in Channels PROVE Ring(c)'
  <2>1. Ring(c)
    BY DEF WarmInv, Rings
  <2>2. (In("smooth", c)' <=> In("smooth", c)) /\ Flushed
    BY <1>1, <1>3 DEF In, Flushed
  <2>3. Cold(c)' => Cold(c)
    BY <1>1, <1>3 DEF Cold
  <2>4. ((Sized(chan[c]))' <=> Sized(chan[c])) /\ ((Filled(chan[c], c))' <=> Filled(chan[c], c))
    BY <1>1, Zenon DEF Sized, Filled, RingSize
  <2> QED
    BY <1>1, <2>1, <2>2, <2>3, <2>4 DEF Ring
<1> QED
  BY <1>4, <1>5, <1>6, <1>7 DEF WarmInv, Rings

\* A store never marks a ring warm that is not: it clears smooth_ready, or writes it
\* where it is set.
LEMMA StoreByteMarks ==
  ASSUME CalmInv, WarmInv, StoreByte
  PROVE  /\ \A c \in Channels : flags'[c].smooth_ready => flags[c].smooth_ready
         /\ flags'[me.c].smooth_ready = IF me.bit = "smooth_ready" THEN me.to ELSE me.byte.smooth_ready
         /\ flags'[me.c].op_pending = me.byte.op_pending
         /\ \A c \in Channels : c # me.c => flags'[c] = flags[c]
         /\ me.bit \in {"blocking", "smooth_ready", "value_fresh"}
<1> DEFINE b == [me.byte EXCEPT ![me.bit] = me.to]
<1>1. pc = "store" /\ flags' = [flags EXCEPT ![me.c] = b]
  BY DEF StoreByte, At
<1>2. /\ IsMe(me, "store") /\ me.c \in Channels /\ me.byte \in Flag /\ me.to \in {TRUE, FALSE}
      /\ DOMAIN flags = Channels /\ \A c \in Channels : flags[c] \in Flag
  BY <1>1 DEF CalmInv, TypeOK, IsMe
<1>3. \/ me.call = "none" /\ me.then = "idle" /\ me.bit = "blocking"
      \/ me.call = "get" /\ me.then = "pick" /\ me.bit = "smooth_ready"
      \/ me.call = "get" /\ me.then = "count" /\ me.bit = "value_fresh"
      \/ me.call = "smooth" /\ me.then = "zero" /\ me.bit = "smooth_ready"
  BY <1>2 DEF IsMe, Sampling, Starting, Getting, Smoothing
<1>4. /\ b.smooth_ready = IF me.bit = "smooth_ready" THEN me.to ELSE me.byte.smooth_ready
      /\ b.op_pending = me.byte.op_pending
  <2>1. CASE me.bit = "blocking"  BY <1>2, <2>1 DEF Flag
  <2>2. CASE me.bit = "smooth_ready"  BY <1>2, <2>2 DEF Flag
  <2>3. CASE me.bit = "value_fresh"  BY <1>2, <2>3 DEF Flag
  <2> QED  BY <1>3, <2>1, <2>2, <2>3
<1> HIDE DEF b
<1>5. flags'[me.c] = b /\ \A c \in Channels : c # me.c => flags'[c] = flags[c]
  BY <1>1, <1>2
<1>6. b.smooth_ready => flags[me.c].smooth_ready
  BY <1>1, <1>3, <1>4 DEF WarmInv, Stored, Flags
<1> QED
  BY <1>3, <1>4, <1>5, <1>6

LEMMA StoreByteWarm ==
  ASSUME CalmInv, CalmInv', WarmInv, StoreByte
  PROVE  WarmInv'
<1>1. pc = "store" /\ UNCHANGED <<chan, dev, sample_buf>>
  BY DEF StoreByte, At
<1>2. (me.then = "idle" /\ pc' = "idle" /\ me' = Me0) \/ (me.then # "idle" /\ pc' = me.then /\ me' = me)
  BY DEF StoreByte, GoIdle, Goto
<1>3. IsMe(me, "store") /\ me.c \in Channels
  BY <1>1 DEF CalmInv, TypeOK, IsMe
<1>4. \/ me.call = "none" /\ me.then = "idle" /\ me.bit = "blocking"
      \/ me.call = "get" /\ me.then = "pick" /\ me.bit = "smooth_ready"
      \/ me.call = "get" /\ me.then = "count" /\ me.bit = "value_fresh"
      \/ me.call = "smooth" /\ me.then = "zero" /\ me.bit = "smooth_ready"
  BY <1>3 DEF IsMe, Sampling, Starting, Getting, Smoothing
<1>5. pc' \in {"idle", "pick", "count", "zero"} /\ (pc' # "idle" => me' = me)
  BY <1>2, <1>4
<1>6. /\ flags'[me.c].smooth_ready = IF me.bit = "smooth_ready" THEN me.to ELSE me.byte.smooth_ready
      /\ flags'[me.c].op_pending = me.byte.op_pending
      /\ \A c \in Channels : c # me.c => flags'[c] = flags[c]
  BY StoreByteMarks
<1>7. Pointed'
  BY <1>1 DEF WarmInv, Pointed
<1>8. Busy'
  <2>1. \A c \in dev.ch_active : c \in Channels /\ flags[c].op_pending /\ Kept(c) /\ ~In("smooth", c)
    BY DEF CalmInv, TypeOK, WarmInv, Busy
  <2> QED
    BY <1>1, <1>5, <1>6, <2>1 DEF Busy, Kept, In
<1>9. Stored'
  <2>1. me.call = "get" => me.c = me.c /\ (Filters => flags'[me.c].smooth_ready)
    BY <1>1, <1>4, <1>6 DEF WarmInv, Stored
  <2>2. pc' # "idle" => (Filters' <=> Filters) /\ Flags' = flags'[me.c] /\ me' = me
    BY <1>1, <1>5 DEF Filters, Chan, Flags
  <2> QED
    BY <1>5, <2>1, <2>2 DEF Stored
<1>10. ASSUME NEW c \in Channels PROVE Ring(c)'
  <2>1. Ring(c)
    BY DEF WarmInv, Rings
  <2>2. ((Sized(chan[c]))' <=> Sized(chan[c])) /\ ((Filled(chan[c], c))' <=> Filled(chan[c], c))
    BY <1>1, Zenon DEF Sized, Filled, RingSize
  <2>3. Sized(chan[c])
    BY <1>1, <2>1 DEF Ring
  <2>4. In("smooth", c)' /\ Flushed' => In("smooth", c) /\ Flushed
    BY <1>1, <1>5 DEF In, Flushed
  <2>5. CASE c = me.c /\ me.call = "smooth"
    <3>1. pc' = "zero" /\ me' = me
      BY <1>2, <1>4, <2>5
    <3> QED
      BY <1>1, <2>1, <2>2, <2>3, <2>4, <2>5, <3>1 DEF Ring, In
  <2>6. CASE ~(c = me.c /\ me.call = "smooth")
    <3>1. ~In("smooth", c)
      BY <2>6 DEF In
    <3>2. Cold(c)' /\ chan[c].logsmoothlen > 0 => Cold(c)
      <4>1. CASE c # me.c
        BY <1>5, <1>6, <4>1 DEF Cold
      <4>2. CASE c = me.c
        <5>1. me.call # "smooth"
          BY <2>6, <4>2
        <5>2. me.bit = "smooth_ready" => me.to = TRUE
          BY <1>1, <1>4, <5>1 DEF WarmInv, Stored
        <5>3. ~flags'[c].smooth_ready => ~me.byte.smooth_ready
          BY <1>6, <4>2, <5>2
        <5> QED
          BY <1>1, <1>5, <4>2, <5>3 DEF Cold
      <4> QED
        BY <4>1, <4>2
    <3> QED
      BY <1>1, <2>1, <2>2, <2>3, <2>4, <3>1, <3>2 DEF Ring
  <2> QED
    BY <2>5, <2>6
<1> QED
  BY <1>7, <1>8, <1>9, <1>10 DEF WarmInv, Rings

\* adc_update_smoothing sizes, empties and flushes the ring before it is used again.
LEMMA SettingWarm ==
  ASSUME CalmInv, CalmInv', WarmInv,
         SetLength \/ Allocate \/ FlushIndex \/ FlushSum \/ FlushBuffers
  PROVE  WarmInv'
<1>1. pc \in {"length", "allocate", "flush", "sum", "zero"} /\ UNCHANGED <<flags, dev, sample_buf>>
  BY DEF SetLength, Allocate, FlushIndex, FlushSum, FlushBuffers, At
<1>2. /\ DOMAIN me = MeFields /\ me.call = "smooth" /\ me.c \in Channels
      /\ DOMAIN chan = Channels /\ Chan = chan[me.c] /\ IsChan(Chan)
  BY <1>1, Where DEF CalmInv, TypeOK, Chan
<1>3. Ring(me.c) /\ In("smooth", me.c)
  BY <1>1, <1>2 DEF WarmInv, Rings, In
<1>4. CASE SetLength
  <2> DEFINE s == [Chan EXCEPT !.logsmoothlen = me.log]
  <2>1. pc = "length" /\ me' = me /\ pc' = IF me.log = Chan.logsmoothlen THEN "flush" ELSE "allocate"
    BY <1>4 DEF SetLength, At, Goto
  <2>2. chan' = [chan EXCEPT ![me.c] = s]
    BY <1>2, <1>4 DEF SetLength
  <2>3. s.value_ptr = Chan.value_ptr /\ (me.log = Chan.logsmoothlen => SameRing(Chan, s))
    BY <1>2 DEF IsChan, ChanFields, SameRing
  <2> HIDE DEF s
  <2>4. pc' # "allocate" => Sized(s)
    BY <1>2, <1>3, <2>1, <2>3, RingSame DEF Ring
  <2> QED
    BY <1>1, <1>2, <2>1, <2>2, <2>3, <2>4, SettingStep
<1>5. CASE Allocate
  <2> DEFINE ring == [i \in 1..RingSize(Chan) |->
                       IF i \in DOMAIN Chan.smoothbuf THEN Chan.smoothbuf[i] ELSE NoSample]
             s == [Chan EXCEPT !.smoothbuf = ring]
  <2>1. pc = "allocate" /\ pc' = "flush" /\ me' = me
    BY <1>5 DEF Allocate, At, Goto
  <2>2. ring = [i \in DOMAIN ring |-> ring[i]] /\ DOMAIN ring = 1..RingSize(Chan)
    OBVIOUS
  <2>3. chan' = [chan EXCEPT ![me.c].smoothbuf = ring]
    <3>1. chan' = [chan EXCEPT ![me.c].smoothbuf =
            [i \in 1..RingSize(Chan) |-> IF i \in DOMAIN @ THEN @[i] ELSE NoSample]]
      BY <1>5 DEF Allocate
    <3> QED
      BY <1>2, <3>1
  <2> HIDE DEF ring
  <2>4. chan' = [chan EXCEPT ![me.c] = s]
    BY <1>2, <2>3
  <2>5. s.value_ptr = Chan.value_ptr /\ s.smoothbuf = ring /\ s.logsmoothlen = Chan.logsmoothlen
    BY <1>2 DEF IsChan, ChanFields
  <2> HIDE DEF s
  <2>6. Sized(s)
    BY <2>2, <2>5 DEF Sized, RingSize
  <2> QED
    BY <1>1, <1>2, <2>1, <2>4, <2>5, <2>6, SettingStep
<1>6. CASE FlushIndex
  <2> DEFINE s == [Chan EXCEPT !.smoothidx = 0]
  <2>1. pc = "flush" /\ pc' = "sum" /\ me' = me
    BY <1>6 DEF FlushIndex, At, Goto
  <2>2. chan' = [chan EXCEPT ![me.c] = s]
    BY <1>2, <1>6 DEF FlushIndex
  <2>3. /\ s.value_ptr = Chan.value_ptr /\ s.smoothidx = 0
        /\ s.smoothbuf = Chan.smoothbuf /\ s.logsmoothlen = Chan.logsmoothlen
    BY <1>2 DEF IsChan, ChanFields
  <2> HIDE DEF s
  <2>4. Sized(s)
    BY <1>2, <1>3, <2>1, <2>3 DEF Ring, Sized, RingSize
  <2> QED
    BY <1>1, <1>2, <2>1, <2>2, <2>3, <2>4, SettingStep
<1>7. CASE FlushSum
  <2> DEFINE s == [Chan EXCEPT !.smoothsum = 0]
  <2>1. pc = "sum" /\ pc' = "load"
        /\ me' = [me EXCEPT !.bit = "smooth_ready", !.to = FALSE, !.then = "zero"]
    BY <1>7 DEF FlushSum, At, Goto, Assign
  <2>2. me'.c = me.c /\ me'.call = "smooth" /\ me'.to = FALSE
    BY <1>2, <2>1 DEF MeFields
  <2>3. chan' = [chan EXCEPT ![me.c] = s]
    BY <1>2, <1>7 DEF FlushSum
  <2>4. s.value_ptr = Chan.value_ptr /\ SameRing(Chan, s)
    BY <1>2 DEF IsChan, ChanFields, SameRing
  <2> HIDE DEF s
  <2>5. Sized(s) /\ s.smoothidx = 0
    <3>1. Sized(Chan) /\ Chan.smoothidx = 0
      BY <1>2, <1>3, <2>1 DEF Ring, Flushed
    <3> QED
      BY <2>4, <3>1, RingSame DEF SameRing
  <2> QED
    BY <1>1, <2>1, <2>2, <2>3, <2>4, <2>5, SettingStep
<1>8. CASE FlushBuffers
  <2> DEFINE ring == IF Chan.logsmoothlen > 0 THEN [i \in DOMAIN Chan.smoothbuf |-> NoSample]
                                              ELSE Chan.smoothbuf
             s == [Chan EXCEPT !.smoothbuf = ring, !.buf = BufFlush(Chan.buf)]
  <2>1. pc = "zero" /\ pc' = "idle"
    BY <1>8 DEF FlushBuffers, At, GoIdle
  <2>2. Sized(Chan) /\ Chan.smoothidx = 0
    BY <1>2, <1>3, <2>1 DEF Ring, Flushed
  <2>3. ring = [i \in DOMAIN ring |-> ring[i]] /\ DOMAIN ring = DOMAIN Chan.smoothbuf
    BY <2>2 DEF Sized
  <2>4. chan' = [chan EXCEPT ![me.c].smoothbuf = ring, ![me.c].buf = BufFlush(@)]
    <3>1. chan' = [chan EXCEPT
            ![me.c].smoothbuf = IF Chan.logsmoothlen > 0 THEN [i \in DOMAIN @ |-> NoSample] ELSE @,
            ![me.c].buf = BufFlush(@)]
      BY <1>8 DEF FlushBuffers
    <3> QED
      BY <1>2, <3>1
  <2> HIDE DEF ring
  <2>5. chan' = [chan EXCEPT ![me.c] = s]
    BY <1>2, <2>4 DEF IsChan, ChanFields
  <2>6. /\ s.value_ptr = Chan.value_ptr /\ s.smoothidx = 0 /\ s.smoothbuf = ring
        /\ s.logsmoothlen = Chan.logsmoothlen
    BY <1>2, <2>2 DEF IsChan, ChanFields
  <2> HIDE DEF s
  <2>7. Sized(s)
    BY <2>2, <2>3, <2>6 DEF Sized, RingSize
  <2> QED
    BY <1>1, <2>1, <2>5, <2>6, <2>7, SettingStep
<1> QED
  BY <1>4, <1>5, <1>6, <1>7, <1>8

\* The channels of the table have a slot each in sample_buf.
LEMMA SlotsFit ==
  ASSUME CalmInv
  PROVE  dev.ch_state \in Seq(Channels) /\ DOMAIN dev.ch_state \subseteq Channels
<1> DEFINE seq == dev.ch_state
           k == Len(seq)
<1>1. seq \in Seq(Channels) /\ OneToOne(seq)
  BY DEF CalmInv, TypeOK, Table
<1> HIDE DEF seq
<1>2. k \in Nat /\ DOMAIN seq = 1..k /\ seq \in [1..k -> Channels]
  BY <1>1
<1>3. IsFiniteSet(Channels) /\ Cardinality(Channels) = NumAdc
  BY AdcAssumption, FS_Interval DEF Channels
<1>4. IsFiniteSet(1..k) /\ Cardinality(1..k) = k
  BY <1>2, FS_Interval
<1>5. seq \in Injection(1..k, Channels)
  BY <1>1, <1>2 DEF OneToOne, Injection, IsInjective
<1> HIDE DEF k
<1>6. k <= NumAdc
  BY <1>3, <1>4, <1>5, FS_Injection
<1> QED
  BY <1>1, <1>2, <1>6, AdcAssumption DEF Channels, seq

\* What a round of the handler does to the channel it is at: a cold ring takes the sample
\* that was converted from the channel, and is warm when it was full before.
LEMMA Filtered ==
  ASSUME CalmInv, WarmInv, IntChannel
  PROVE  \E c \in dev.ch_active :
           /\ c \in Channels /\ ~In("smooth", c)
           /\ \A d \in Channels : d # c => chan'[d] = chan[d] /\ flags'[d] = flags[d]
           /\ chan'[c].value_ptr = chan[c].value_ptr
           /\ chan'[c].logsmoothlen = chan[c].logsmoothlen
           /\ flags[c].smooth_ready => flags'[c].smooth_ready
           /\ SameRing(chan[c], chan'[c]) \/ (Sized(chan'[c]) /\ Filled(chan'[c], c))
           /\ ~flags[c].smooth_ready /\ flags'[c].smooth_ready =>
                /\ RingSize(chan'[c]) \in Nat /\ DOMAIN chan'[c].smoothbuf = 1..RingSize(chan'[c])
                /\ Sized(chan'[c])
                /\ \A i \in 1..RingSize(chan'[c]) : chan'[c].smoothbuf[i].of = c
           /\ dev'.ch_state = dev.ch_state
           /\ \/ dev'.ch_active = dev.ch_active /\ flags'[c].op_pending = flags[c].op_pending
              \/ dev'.ch_active = dev.ch_active \ {c}
           /\ DOMAIN sample_buf' = Channels
           /\ UNCHANGED <<pc, me>>
<1> DEFINE c == dev.ch_state[irq + 1]
           v == IF irq + 1 \in DOMAIN data THEN [of |-> data[irq + 1], no |-> conv] ELSE NoSample
           warm == chan[c].logsmoothlen > 0 /\ ~flags[c].smooth_ready
           keep == ~warm /\ chan[c].reqsamples > 1
           fl   == [flags[c] EXCEPT !.value_fresh = ~warm /\ ~keep,
                      !.smooth_ready = @ \/ (warm /\ RingFull(chan[c]))]
           val  == sample_buf'[chan[c].value_ptr]
           s    == IF warm THEN Smooth(chan[c], val)
                   ELSE IF keep /\ chan[c].buf.size > 0
                        THEN [chan[c] EXCEPT !.buf = BufWrite(@, val)]
                        ELSE chan[c]
           done == Enough(fl, s)
           left == IF done THEN dev.ch_active \ {c} ELSE dev.ch_active
           gl   == IF done THEN [fl EXCEPT !.op_pending = FALSE] ELSE fl
<1>1. /\ irq \in 0..(Len(dev.ch_state) - 1)
      /\ chan' = [chan EXCEPT ![c] = s]
      /\ flags' = [flags EXCEPT ![c] = gl]
      /\ dev' = [dev EXCEPT !.ch_active = left, !.running = @ /\ ~(done /\ left = {})]
      /\ sample_buf' = [sample_buf EXCEPT ![irq + 1] = v]
      /\ UNCHANGED <<pc, me>>
  BY DEF IntChannel, programVars
<1>2. irq \in Nat /\ irq + 1 \in DOMAIN dev.ch_state /\ c \in Channels /\ irq # Outside
      /\ irq + 1 \in Channels
  <2> HIDE DEF c, s, gl, left, done
  <2>1. dev.ch_state \in Seq(Channels) /\ DOMAIN dev.ch_state \subseteq Channels
    BY SlotsFit
  <2>2. irq \in Nat /\ irq + 1 \in 1..Len(dev.ch_state) /\ irq # Outside
    BY <1>1, <2>1 DEF Outside
  <2> QED
    BY <2>1, <2>2 DEF c
<1>3. c \in dev.ch_active
  BY <1>2 DEF CalmInv, Table
<1>4. flags[c] \in Flag /\ IsChan(chan[c]) /\ DOMAIN flags = Channels /\ DOMAIN chan = Channels
  BY <1>2 DEF CalmInv, TypeOK
<1>5. ~In("smooth", c) /\ Ring(c) /\ Sized(chan[c])
  <2>1. ~In("smooth", c) /\ Ring(c)
    BY <1>2, <1>3 DEF WarmInv, Busy, Rings
  <2>2. pc = "allocate" => me.call = "smooth"
    BY Where DEF CalmInv, TypeOK
  <2> QED
    BY <2>1, <2>2 DEF Ring, In
<1>6. val.of = c
  <2>1. data = dev.ch_state
    BY <1>2 DEF CalmInv, Underway
  <2>2. v.of = c
    BY <1>2, <2>1
  <2>3. chan[c].value_ptr = irq + 1
    BY <1>2 DEF WarmInv, Pointed
  <2> HIDE DEF v, c
  <2>4. sample_buf'[irq + 1] = v
    BY <1>1, <1>2 DEF WarmInv, Pointed
  <2> QED
    BY <2>2, <2>3, <2>4
<1>7. warm => Filled(chan[c], c)
  BY <1>5 DEF Ring, Cold
<1>8. gl.smooth_ready <=> flags[c].smooth_ready \/ (warm /\ RingFull(chan[c]))
  <2> HIDE DEF warm, keep
  <2> DEFINE x == (~warm /\ ~keep)
             y == (flags[c].smooth_ready \/ (warm /\ RingFull(chan[c])))
  <2>1. fl = [flags[c] EXCEPT !.value_fresh = x, !.smooth_ready = y]
    BY <1>4 DEF Flag
  <2>2. x \in {TRUE, FALSE} /\ y \in {TRUE, FALSE}
    BY Zenon
  <2> HIDE DEF x, y, fl
  <2>3. fl \in Flag /\ fl.smooth_ready = y
    BY <1>4, <2>1, <2>2 DEF Flag
  <2>4. gl.smooth_ready = fl.smooth_ready
    <3> HIDE DEF done
    <3> QED
      BY <2>3 DEF Flag
  <2> QED
    BY <2>2, <2>3, <2>4 DEF y
<1>9. ~done => gl.op_pending = flags[c].op_pending
  BY <1>4 DEF Flag
<1>10. /\ s.logsmoothlen = chan[c].logsmoothlen /\ s.value_ptr = chan[c].value_ptr
       /\ ~warm => SameRing(chan[c], s)
       /\ warm => s = Smooth(chan[c], val)
  <2> HIDE DEF val
  <2>1. CASE warm
    <3> DEFINE k == RingPlace(chan[c])
               sum == chan[c].smoothsum - chan[c].smoothbuf[k].no + val.no
               ring == [chan[c].smoothbuf EXCEPT ![k] = val]
    <3>1. s = Smooth(chan[c], val)
      BY <2>1
    <3>2. s = IF k \in DOMAIN chan[c].smoothbuf
              THEN [chan[c] EXCEPT !.smoothidx = k, !.smoothsum = sum, !.smoothbuf = ring]
              ELSE chan[c]
      BY <1>4, <3>1 DEF Smooth, IsChan, ChanFields
    <3> HIDE DEF k, sum, ring, s, c
    <3>3. s.logsmoothlen = chan[c].logsmoothlen /\ s.value_ptr = chan[c].value_ptr
      BY <1>4, <3>2 DEF IsChan, ChanFields
    <3> QED
      BY <2>1, <3>1, <3>3
  <2>2. CASE ~warm
    <3>1. s = chan[c] \/ \E b : s = [chan[c] EXCEPT !.buf = b]
      BY <2>2
    <3> HIDE DEF s, c, warm
    <3> QED
      BY <1>4, <2>2, <3>1 DEF IsChan, ChanFields, SameRing
  <2> QED
    BY <2>1, <2>2
<1>11. warm => /\ Sized(s) /\ Filled(s, c)
               /\ RingFull(chan[c]) => /\ RingSize(s) \in Nat
                                       /\ \A i \in 1..RingSize(s) : s.smoothbuf[i].of = c
  <2> SUFFICES ASSUME warm
               PROVE  /\ Sized(s) /\ Filled(s, c)
                      /\ RingFull(chan[c]) => /\ RingSize(s) \in Nat
                                              /\ \A i \in 1..RingSize(s) : s.smoothbuf[i].of = c
    OBVIOUS
  <2>1. chan[c].logsmoothlen > 0
    OBVIOUS
  <2>2. s = Smooth(chan[c], val) /\ RingSize(s) = RingSize(chan[c])
    BY <1>10 DEF RingSize
  <2> HIDE DEF s, val, c
  <2> QED
    BY <1>4, <1>5, <1>6, <1>7, <2>1, <2>2, SmoothFills
<1> HIDE DEF s, gl, val, v
<1>12. chan'[c] = s /\ flags'[c] = gl
       /\ \A d \in Channels : d # c => chan'[d] = chan[d] /\ flags'[d] = flags[d]
  <2> HIDE DEF c
  <2> QED
    BY <1>1, <1>2, <1>4
<1>13. dev'.ch_active = left /\ dev'.ch_state = dev.ch_state
  <2> HIDE DEF left, done
  <2> QED
    BY <1>1 DEF CalmInv, TypeOK
<1>14. DOMAIN sample_buf' = Channels
  BY <1>1 DEF WarmInv, Pointed
<1>15. ~flags[c].smooth_ready /\ gl.smooth_ready =>
         /\ RingSize(s) \in Nat /\ Sized(s) /\ DOMAIN s.smoothbuf = 1..RingSize(s)
         /\ \A i \in 1..RingSize(s) : s.smoothbuf[i].of = c
  <2> SUFFICES ASSUME ~flags[c].smooth_ready, gl.smooth_ready
               PROVE  /\ RingSize(s) \in Nat /\ Sized(s) /\ DOMAIN s.smoothbuf = 1..RingSize(s)
                      /\ \A i \in 1..RingSize(s) : s.smoothbuf[i].of = c
    OBVIOUS
  <2>1. warm /\ RingFull(chan[c])
    BY <1>8
  <2>2. s.logsmoothlen > 0
    BY <1>10, <2>1
  <2> QED
    BY <1>11, <2>1, <2>2 DEF Sized
<1> HIDE DEF warm, keep, fl
<1>16. \/ dev'.ch_active = dev.ch_active /\ flags'[c].op_pending = flags[c].op_pending
       \/ dev'.ch_active = dev.ch_active \ {c}
  BY <1>9, <1>12, <1>13
<1>17. SameRing(chan[c], s) \/ (Sized(s) /\ Filled(s, c))
  BY <1>10, <1>11
<1>18. flags[c].smooth_ready => gl.smooth_ready
  BY <1>8
<1> HIDE DEF c, done, left
<1> QED
  BY <1>1, <1>2, <1>3, <1>5, <1>10, <1>12, <1>13, <1>14, <1>15, <1>16, <1>17, <1>18

\* The handler keeps the filters in order.
LEMMA HandlerWarm ==
  ASSUME CalmInv, WarmInv, ADCIntHandler
  PROVE  WarmInv'
<1>1. CASE IntEnter
  <2>1. UNCHANGED <<flags, chan, dev, sample_buf, pc, me>>
    BY <1>1 DEF IntEnter, programVars
  <2>2. Pointed' /\ \A c \in Channels : SameRing(chan[c], chan'[c])
    BY <2>1 DEF WarmInv, Pointed, SameRing
  <2> QED
    BY <2>1, <2>2, HandlerStep
<1>2. CASE IntLeave
  <2>1. /\ sample_buf' = sample_buf /\ UNCHANGED <<pc, me>>
        /\ Resequence \/ UNCHANGED <<dev, chan, flags>>
    BY <1>2 DEF IntLeave, programVars
  <2>2. CASE Resequence
    <3>1. /\ dev'.ch_active = dev.ch_active /\ dev.ch_active \subseteq Channels
          /\ \A c \in Channels : flags'[c].op_pending = flags[c].op_pending
      BY <2>2, ResequenceIs DEF CalmInv, TypeOK
    <3>2. /\ Pointed'
          /\ \A c \in Channels : /\ SameRing(chan[c], chan'[c])
                                 /\ flags'[c].smooth_ready = flags[c].smooth_ready
      BY <2>1, <2>2, Repointed
    <3>3. \A c \in Channels : chan'[c].logsmoothlen = chan[c].logsmoothlen
      BY <3>2 DEF SameRing
    <3> QED
      BY <2>1, <3>1, <3>2, <3>3, HandlerStep
  <2>3. CASE UNCHANGED <<dev, chan, flags>>
    <3>1. Pointed' /\ \A c \in Channels : SameRing(chan[c], chan'[c])
      BY <2>1, <2>3 DEF WarmInv, Pointed, SameRing
    <3> QED
      BY <2>1, <2>3, <3>1, HandlerStep
  <2> QED
    BY <2>1, <2>2, <2>3
<1>3. CASE IntChannel
  <2>1. PICK c \in dev.ch_active :
           /\ c \in Channels /\ ~In("smooth", c)
           /\ \A d \in Channels : d # c => chan'[d] = chan[d] /\ flags'[d] = flags[d]
           /\ chan'[c].value_ptr = chan[c].value_ptr
           /\ chan'[c].logsmoothlen = chan[c].logsmoothlen
           /\ flags[c].smooth_ready => flags'[c].smooth_ready
           /\ SameRing(chan[c], chan'[c]) \/ (Sized(chan'[c]) /\ Filled(chan'[c], c))
           /\ dev'.ch_state = dev.ch_state
           /\ \/ dev'.ch_active = dev.ch_active /\ flags'[c].op_pending = flags[c].op_pending
              \/ dev'.ch_active = dev.ch_active \ {c}
           /\ DOMAIN sample_buf' = Channels
           /\ UNCHANGED <<pc, me>>
    BY <1>3, Filtered, Zenon
  <2>2. Pointed'
    <3>1. dev.ch_state \in Seq(Channels)
      BY SlotsFit
    <3> QED
      BY <2>1, <3>1 DEF WarmInv, Pointed
  <2>3. \A d \in Channels :
          /\ flags[d].smooth_ready => flags'[d].smooth_ready
          /\ chan'[d].logsmoothlen = chan[d].logsmoothlen
          /\ \/ SameRing(chan[d], chan'[d])
             \/ ~In("smooth", d) /\ Sized(chan'[d]) /\ Filled(chan'[d], d)
    <3>1. ASSUME NEW d \in Channels, d # c PROVE SameRing(chan[d], chan'[d])
      BY <2>1, <3>1 DEF SameRing
    <3> QED
      BY <2>1, <3>1
  <2>4. dev.ch_active \subseteq Channels
    BY DEF CalmInv, TypeOK
  <2>5. /\ dev'.ch_active \subseteq dev.ch_active
        /\ \A d \in dev'.ch_active : flags'[d].op_pending = flags[d].op_pending
    BY <2>1, <2>4
  <2> QED
    BY <2>1, <2>2, <2>3, <2>5, HandlerStep
<1> QED
  BY <1>1, <1>2, <1>3 DEF ADCIntHandler

\* At first no channel filters.
LEMMA InitWarm == Init => WarmInv
<1> SUFFICES ASSUME Init PROVE Pointed /\ Busy /\ Stored /\ Rings
  BY DEF WarmInv
<1>1. DOMAIN sample_buf = Channels /\ DOMAIN dev.ch_state = {} /\ dev.ch_active = {}
      /\ pc = "idle" /\ me = Me0
  BY DEF Init
<1>2. \A c \in Channels : chan[c].logsmoothlen = 0 /\ chan[c].smoothbuf = <<>>
  BY DEF Init
<1>3. <<>> = [i \in DOMAIN <<>> |-> <<>>[i]]
  OBVIOUS
<1>4. Rings
  BY <1>1, <1>2, <1>3 DEF Rings, Ring, In, Sized
<1> QED
  BY <1>1, <1>4 DEF Pointed, Busy, Stored

WInv == AInv /\ (calm => WarmInv)

\* Every step keeps the filters in order.
LEMMA NextWarm ==
  ASSUME WInv, [Next]_vars
  PROVE  WInv'
<1>1. AInv'
  BY NextAInv DEF WInv
<1> SUFFICES ASSUME calm' PROVE WarmInv'
  BY <1>1 DEF WInv
<1>2. CASE Next
  <2>1. CalmInv /\ CalmInv' /\ WarmInv
    BY <1>1, <1>2, CalmEnds DEF WInv, AInv
  <2>2. CASE ADCIntHandler
    BY <2>1, <2>2, HandlerWarm
  <2>3. CASE TimerFires \/ ConversionLost
    BY <2>1, <2>3, NotCalm
  <2>4. CASE Calls
    BY <2>1, <2>4, CallsWarm
  <2>5. CASE Program
    BY <2>1, <2>5, NotCalm, LoadByteWarm, StoreByteWarm, SetupChannelWarm, SamplingWarm,
       GettingWarm, TakeBufferedWarm, CountSampleWarm, SettingWarm, Zenon
       DEF Program
  <2> QED
    BY <1>2, <2>2, <2>3, <2>4, <2>5 DEF Next
<1>3. CASE UNCHANGED vars
  <2>1. WarmInv /\ UNCHANGED <<flags, chan, dev, sample_buf, pc, me>>
    BY <1>3, Zenon DEF vars, WInv
  <2>2. Pointed'
    BY <2>1, Zenon DEF WarmInv, Pointed
  <2>3. Busy'
    BY <2>1, Zenon DEF WarmInv, Busy, Kept, In
  <2>4. Stored'
    BY <2>1, Zenon DEF WarmInv, Stored, Filters, Chan, Flags
  <2>5. Rings'
    <3>1. ASSUME NEW c \in Channels PROVE Ring(c)'
      <4>1. Ring(c)
        BY <2>1 DEF WarmInv, Rings
      <4>2. (In("smooth", c)' <=> In("smooth", c)) /\ (Flushed' <=> Flushed) /\ (Cold(c)' <=> Cold(c))
        BY <2>1, Zenon DEF In, Flushed, Cold
      <4>3. ((Sized(chan[c]))' <=> Sized(chan[c])) /\ ((Filled(chan[c], c))' <=> Filled(chan[c], c))
        BY <2>1, Zenon DEF Sized, Filled, RingSize
      <4> QED
        BY <2>1, <4>1, <4>2, <4>3 DEF Ring
    <3> QED
      BY <3>1 DEF Rings
  <2> QED
    BY <2>2, <2>3, <2>4, <2>5 DEF WarmInv
<1> QED
  BY <1>2, <1>3

\* Only the handler and the store of a flag byte change smooth_ready to set.
LEMMA MarkedBy ==
  ASSUME CalmInv, WarmInv, Next, NEW c \in Channels,
         ~flags[c].smooth_ready, flags'[c].smooth_ready
  PROVE  IntChannel
<1>1. TypeOK
  BY DEF CalmInv
<1>2. ~StoreByte
  BY StoreByteMarks
<1>3. ~Resequence
  <2> SUFFICES ASSUME Resequence PROVE FALSE
    OBVIOUS
  <2>1. flags'[c] = IF c \in dev.ch_active THEN [flags[c] EXCEPT !.value_fresh = FALSE]
                                           ELSE flags[c]
    BY DEF Resequence
  <2>2. flags[c] \in Flag
    BY <1>1 DEF TypeOK
  <2> QED
    BY <2>1, <2>2 DEF Flag
<1>4. ~SetupChannel /\ ~SetupFails
  <2> SUFFICES ASSUME SetupChannel \/ SetupFails PROVE FALSE
    OBVIOUS
  <2>1. flags' = flags \/ \E d : flags' = [flags EXCEPT ![d].op_pending = TRUE]
    BY DEF SetupChannel, SetupFails, Enlist
  <2> QED
    BY <1>1, <2>1 DEF TypeOK, Flag
<1>5. flags' # flags
  OBVIOUS
<1> QED
  BY <1>2, <1>3, <1>4, <1>5
  DEF Next, ADCIntHandler, IntEnter, IntLeave, TimerFires, ConversionLost, Calls, Sample,
     GetSamples, SetBlocking, SetSmoothing, SetClock, Call, boardVars, Program, LoadByte,
     StartCheck, StartCompare, StartSequence, StartFaults, StartEnable,
     StartRunning, StartTrigger, WaitSamples, WaitReturns, TakeNothing, Take, TakeFresh,
     ReadValue, TakeBuffered, CountSample, InactivateLoad, InactivateStore, StopSequencer,
     SetLength, Allocate, AllocateFails, FlushIndex, FlushSum, FlushBuffers, SetTimer,
     DisableSequence, ClockSet

\* A function on 1..n is a sequence of its values.
LEMMA Listed ==
  ASSUME NEW n \in Nat, NEW f, f = [i \in 1..n |-> f[i]]
  PROVE  Len(f) = n /\ ToSet(f) = {f[i] : i \in 1..n}
<1>1. f \in [1..n -> {f[i] : i \in 1..n}]
  OBVIOUS
<1>2. f \in Seq({f[i] : i \in 1..n})
  BY <1>1
<1> QED
  BY <1>1, <1>2 DEF ToSet

\* A ring that has been filled place by place is a sequence of samples of its channel.
LEMMA FullRing ==
  ASSUME NEW c, NEW s, RingSize(s) \in Nat, DOMAIN s.smoothbuf = 1..RingSize(s), Sized(s),
         \A i \in 1..RingSize(s) : s.smoothbuf[i].of = c
  PROVE  Len(s.smoothbuf) = RingSize(s) /\ \A v \in ToSet(s.smoothbuf) : v.of = c
<1> DEFINE n == RingSize(s)
           f == s.smoothbuf
<1>1. f = [i \in 1..n |-> f[i]] /\ n \in Nat
  BY DEF Sized
<1>2. \A i \in 1..n : f[i].of = c
  OBVIOUS
<1> HIDE DEF n, f
<1>3. Len(f) = n /\ ToSet(f) = {f[i] : i \in 1..n}
  BY <1>1, Listed
<1>4. \A v \in ToSet(f) : v.of = c
  BY <1>2, <1>3
<1> QED
  BY <1>3, <1>4 DEF f, n

\* A filter becomes warm only when every place of its ring holds a conversion of its own
\* channel: the handler fills it place by place, the program empties it and clears the
\* mark before a new length is used, and no store to the flags brings an old mark back.
THEOREM WarmWhenFull == Spec => WarmMeansFull
<1> DEFINE Full(c) == calm /\ ~flags[c].smooth_ready /\ flags'[c].smooth_ready =>
             /\ Len(chan'[c].smoothbuf) = RingSize(chan'[c])
             /\ \A v \in ToSet(chan'[c].smoothbuf) : v.of = c
<1>1. ASSUME WInv, Next, NEW c \in Channels PROVE Full(c)
  <2> SUFFICES ASSUME calm, ~flags[c].smooth_ready, flags'[c].smooth_ready
               PROVE  /\ Len(chan'[c].smoothbuf) = RingSize(chan'[c])
                      /\ \A v \in ToSet(chan'[c].smoothbuf) : v.of = c
    OBVIOUS
  <2>1. CalmInv /\ WarmInv
    BY <1>1 DEF WInv, AInv
  <2>2. IntChannel
    BY <1>1, <2>1, MarkedBy
  <2>3. PICK d \in Channels :
          /\ \A e \in Channels : e # d => flags'[e] = flags[e]
          /\ ~flags[d].smooth_ready /\ flags'[d].smooth_ready =>
               /\ RingSize(chan'[d]) \in Nat /\ DOMAIN chan'[d].smoothbuf = 1..RingSize(chan'[d])
               /\ Sized(chan'[d])
               /\ \A i \in 1..RingSize(chan'[d]) : chan'[d].smoothbuf[i].of = d
    BY <2>1, <2>2, Filtered
  <2>4. c = d
    BY <2>3
  <2> DEFINE s == chan'[c]
  <2>5. /\ RingSize(s) \in Nat /\ DOMAIN s.smoothbuf = 1..RingSize(s) /\ Sized(s)
        /\ \A i \in 1..RingSize(s) : s.smoothbuf[i].of = c
    BY <2>3, <2>4
  <2> HIDE DEF s
  <2>6. Len(s.smoothbuf) = RingSize(s) /\ \A v \in ToSet(s.smoothbuf) : v.of = c
    BY <2>5, FullRing
  <2> QED
    BY <2>6 DEF s
<1>2. WInv /\ [Next]_vars => [\A c \in Channels : Full(c)]_vars
  BY <1>1
<1>3. Init => WInv
  BY InitAInv, InitWarm DEF WInv
<1>4. WInv /\ [Next]_vars => WInv'
  BY NextWarm
<1> QED
  BY <1>2, <1>3, <1>4, PTL DEF Spec, WarmMeansFull

-----------------------------------------------------------------------------
(* Sums                                                                    *)

\* Every set of numbers that is not empty has a least one.
LEMMA Least ==
  ASSUME NEW S \in SUBSET Nat, S # {}
  PROVE  \E n \in S : \A m \in S : n <= m
<1> DEFINE R == {ss \in Nat \X Nat : ss[1] < ss[2]}
<1>1. IsWellFoundedOn(R, Nat)
  BY NatLessThanWellFounded DEF OpToRel
<1>2. \A m, n \in Nat : m < n => <<m, n>> \in R
  OBVIOUS
<1> HIDE DEF R
<1>3. PICK n \in S : \A m \in S : ~(<<m, n>> \in R)
  BY <1>1, WFMin
<1>4. \A m \in S : ~(m < n) /\ m \in Nat /\ n \in Nat
  BY <1>2, <1>3
<1> QED
  BY <1>4

\* A set of numbers with 0 and the successors of its numbers has all of them.
LEMMA Induction ==
  ASSUME NEW S \in SUBSET Nat, 0 \in S, \A n \in S : n + 1 \in S
  PROVE  \A n \in Nat : n \in S
<1> SUFFICES ASSUME Nat \ S # {} PROVE FALSE
  OBVIOUS
<1>1. PICK n \in Nat \ S : \A m \in Nat \ S : n <= m
  BY Least
<1>2. n - 1 \in Nat /\ n - 1 < n
  BY <1>1
<1> QED
  BY <1>1, <1>2

Samples == [of : Channels \cup {0}, no : Nat]

\* A function that adds up the samples of a ring up to the n-th.
Adds(f, n, ring) == f = [i \in 0..n |-> IF i = 0 THEN 0 ELSE f[i - 1] + ring[i].no]

LEMMA AddsExists ==
  ASSUME NEW n \in Nat, NEW ring
  PROVE  \E f : Adds(f, n, ring)
<1> DEFINE T == {m \in Nat : \E f : Adds(f, m, ring)}
<1>1. 0 \in T
  <2> DEFINE f == [i \in 0..0 |-> 0]
  <2>1. f = [i \in 0..0 |-> IF i = 0 THEN 0 ELSE f[i - 1] + ring[i].no]
    OBVIOUS
  <2> QED
    BY <2>1 DEF Adds
<1>2. ASSUME NEW m \in T PROVE m + 1 \in T
  <2>1. PICK f : Adds(f, m, ring)
    OBVIOUS
  <2> DEFINE g == [i \in 0..(m + 1) |-> IF i <= m THEN f[i] ELSE f[m] + ring[m + 1].no]
  <2>2. \A i \in 0..m : f[i] = IF i = 0 THEN 0 ELSE f[i - 1] + ring[i].no
    BY <2>1 DEF Adds
  <2>3. ASSUME NEW i \in 0..(m + 1)
        PROVE  g[i] = IF i = 0 THEN 0 ELSE g[i - 1] + ring[i].no
    <3>1. CASE i = m + 1
      BY <3>1
    <3>2. CASE i # m + 1 /\ i # 0
      <4>1. i \in 0..m /\ i - 1 \in 0..m
        BY <3>2
      <4>2. g[i] = f[i] /\ g[i - 1] = f[i - 1]
        BY <4>1
      <4> QED
        BY <2>2, <3>2, <4>1, <4>2
    <3>3. CASE i = 0
      <4>1. g[0] = f[0] /\ f[0] = 0
        BY <2>2
      <4> QED
        BY <3>3, <4>1
    <3> QED
      BY <3>1, <3>2, <3>3
  <2>4. g = [i \in 0..(m + 1) |-> g[i]]
    OBVIOUS
  <2> HIDE DEF g
  <2>5. g = [i \in 0..(m + 1) |-> IF i = 0 THEN 0 ELSE g[i - 1] + ring[i].no]
    BY <2>3, <2>4
  <2> QED
    BY <2>5 DEF Adds
<1> HIDE DEF T
<1>3. n \in T
  <2>1. T \in SUBSET Nat
    BY DEF T
  <2> QED
    BY <1>1, <1>2, <2>1, Induction
<1> QED
  BY <1>3 DEF T

\* The sums up to each place of a ring; the last one is its sum.
Sums(f, ring) == /\ f[0] = 0
                 /\ \A m \in Nat : m < Len(ring) => f[m + 1] = f[m] + ring[m + 1].no

LEMMA SumIs ==
  ASSUME NEW ring \in Seq(Samples)
  PROVE  \E f : Sums(f, ring) /\ SumOf(ring) = f[Len(ring)]
<1> DEFINE n == Len(ring)
           f == CHOOSE f : f = [i \in 0..Len(ring) |-> IF i = 0 THEN 0 ELSE f[i - 1] + ring[i].no]
<1>1. n \in Nat
  OBVIOUS
<1>2. f = [i \in 0..n |-> IF i = 0 THEN 0 ELSE f[i - 1] + ring[i].no]
  <2>1. \E g : Adds(g, Len(ring), ring)
    BY <1>1, AddsExists
  <2> QED
    BY <2>1, Zenon DEF Adds
<1>3. SumOf(ring) = f[n]
  BY Zenon DEF SumOf
<1> HIDE DEF n, f
<1>4. \A i \in 0..n : f[i] = IF i = 0 THEN 0 ELSE f[i - 1] + ring[i].no
  BY <1>2, Zenon
<1>5. f[0] = 0
  <2>1. 0 \in 0..n
    BY <1>1
  <2> QED
    BY <1>4, <2>1, Zenon
<1>6. ASSUME NEW m \in Nat, m < n PROVE f[m + 1] = f[m] + ring[m + 1].no
  <2>1. m + 1 \in 0..n /\ m + 1 # 0 /\ (m + 1) - 1 = m
    BY <1>1, <1>6
  <2>2. f[m + 1] = f[(m + 1) - 1] + ring[m + 1].no
    BY <1>4, <2>1, Zenon
  <2> QED
    BY <2>1, <2>2, Zenon
<1>7. Sums(f, ring)
  BY <1>5, <1>6, Zenon DEF Sums, n
<1>8. SumOf(ring) = f[Len(ring)]
  BY <1>3 DEF n
<1> QED
  BY <1>7, <1>8, Zenon

\* Another sample in one place changes the sum by the difference of the two.
LEMMA SumReplaced ==
  ASSUME NEW ring \in Seq(Samples), NEW k \in DOMAIN ring, NEW v \in Samples
  PROVE  /\ [ring EXCEPT ![k] = v] \in Seq(Samples)
         /\ SumOf(ring) \in Int
         /\ SumOf([ring EXCEPT ![k] = v]) = SumOf(ring) - ring[k].no + v.no
<1> DEFINE other == [ring EXCEPT ![k] = v]
           n == Len(ring)
<1>1. /\ n \in Nat /\ other \in Seq(Samples) /\ Len(other) = n /\ k \in 1..n
      /\ other[k] = v /\ \A i \in 1..n : i # k => other[i] = ring[i]
  OBVIOUS
<1>2. \A i \in 1..n : ring[i].no \in Nat
  <2>1. \A i \in 1..n : ring[i] \in Samples
    OBVIOUS
  <2> QED
    BY <2>1 DEF Samples
<1>3. v.no \in Nat
  BY DEF Samples
<1> HIDE DEF other
<1>4. PICK f : Sums(f, ring) /\ SumOf(ring) = f[n]
  BY SumIs
<1>5. PICK g : Sums(g, other) /\ SumOf(other) = g[n]
  BY <1>1, SumIs
<1> DEFINE d == v.no - ring[k].no
           T == {m \in Nat : m <= n => f[m] \in Int /\ g[m] = f[m] + (IF k <= m THEN d ELSE 0)}
<1>6. d \in Int
  BY <1>1, <1>2, <1>3
<1> HIDE DEF n
<1>7. 0 \in T
  <2>1. f[0] = 0 /\ g[0] = 0 /\ ~(k <= 0)
    BY <1>1, <1>4, <1>5 DEF Sums
  <2> QED
    BY <2>1
<1>8. ASSUME NEW m \in T PROVE m + 1 \in T
  <2> SUFFICES ASSUME m + 1 <= n
               PROVE  f[m + 1] \in Int /\ g[m + 1] = f[m + 1] + (IF k <= m + 1 THEN d ELSE 0)
    OBVIOUS
  <2>1. m \in Nat /\ m < n /\ m + 1 \in 1..n
    BY <1>1
  <2>2. f[m] \in Int /\ g[m] = f[m] + (IF k <= m THEN d ELSE 0)
    BY <1>1, <2>1
  <2>3. f[m + 1] = f[m] + ring[m + 1].no
    BY <1>4, <2>1, Zenon DEF Sums, n
  <2>4. g[m + 1] = g[m] + other[m + 1].no
    BY <1>1, <1>5, <2>1, Zenon DEF Sums, n
  <2>5. ring[m + 1].no \in Nat
    BY <1>2, <2>1
  <2> HIDE DEF T, d
  <2>6. CASE m + 1 = k
    <3>1. other[m + 1].no = v.no /\ v.no = ring[m + 1].no + d
      BY <1>1, <1>3, <2>5, <2>6 DEF d
    <3> QED
      BY <1>1, <1>3, <1>6, <2>1, <2>2, <2>3, <2>4, <2>5, <2>6, <3>1
  <2>7. CASE m + 1 # k
    <3>1. other[m + 1].no = ring[m + 1].no
      BY <1>1, <2>1, <2>7
    <3> QED
      BY <1>1, <1>6, <2>1, <2>2, <2>3, <2>4, <2>5, <2>7, <3>1
  <2> QED
    BY <2>6, <2>7
<1>9. T \in SUBSET Nat
  OBVIOUS
<1> HIDE DEF T
<1>10. n \in T
  BY <1>1, <1>7, <1>8, <1>9, Induction
<1>11. f[n] \in Int /\ g[n] = f[n] + d
  BY <1>1, <1>10 DEF T
<1>12. ring[k].no \in Nat
  BY <1>1, <1>2
<1>13. SumOf(other) = SumOf(ring) - ring[k].no + v.no /\ SumOf(ring) \in Int
  BY <1>3, <1>4, <1>5, <1>11, <1>12 DEF d
<1> QED
  BY <1>1, <1>13 DEF other

\* A ring of zeros has sum 0.
LEMMA SumEmptied ==
  ASSUME NEW ring \in Seq(Samples), \A i \in DOMAIN ring : ring[i].no = 0
  PROVE  SumOf(ring) = 0
<1> DEFINE n == Len(ring)
<1>1. n \in Nat /\ \A i \in 1..n : ring[i].no = 0
  OBVIOUS
<1>2. PICK f : Sums(f, ring) /\ SumOf(ring) = f[n]
  BY SumIs
<1> DEFINE T == {m \in Nat : m <= n => f[m] = 0}
<1>3. \A m \in Nat : m < n => f[m + 1] = f[m] + ring[m + 1].no
  BY <1>2, Zenon DEF Sums
<1> HIDE DEF n
<1>4. 0 \in T
  BY <1>2 DEF Sums
<1>5. ASSUME NEW m \in T PROVE m + 1 \in T
  <2> SUFFICES ASSUME m + 1 <= n PROVE f[m + 1] = 0
    OBVIOUS
  <2>1. m \in Nat /\ m < n /\ m + 1 \in 1..n /\ f[m] = 0
    BY <1>1
  <2>2. f[m + 1] = f[m] + ring[m + 1].no /\ ring[m + 1].no = 0
    BY <1>1, <1>3, <2>1, Zenon
  <2> QED
    BY <2>1, <2>2
<1>6. T \in SUBSET Nat
  OBVIOUS
<1> HIDE DEF T
<1>7. n \in T
  BY <1>1, <1>4, <1>5, <1>6, Induction
<1> QED
  BY <1>1, <1>2, <1>7 DEF T

-----------------------------------------------------------------------------
(* The sums of the rings                                                   *)

Logs == LogLens \cup {0}

\* Whatever can go into a ring is a sample.
Numbers == /\ conv \in Nat /\ me.sample \in Samples /\ me.log \in Logs
           /\ DOMAIN sample_buf = Channels /\ \A i \in Channels : sample_buf[i] \in Samples
Slotted(b) == /\ b.size \in Nat /\ b.rptr \in Nat /\ (b.size = 0 => b.count = 0)
              /\ DOMAIN b.slots = 0..(b.size - 1) /\ \A i \in 0..(b.size - 1) : b.slots[i] \in Samples
Typed(s)   == /\ s.value_ptr \in Channels /\ Slotted(s.buf) /\ s.logsmoothlen \in Logs
              /\ s.smoothbuf \in Seq(Samples) /\ s.smoothsum \in Int

\* Between the flush of the sum and that of the ring the two do not agree.
Zeroed      == {"load", "store", "zero"}
Balanced(s) == s.logsmoothlen > 0 => s.smoothsum = SumOf(s.smoothbuf)
Summed(c)   == /\ Typed(chan[c])
               /\ ~In("smooth", c) => Balanced(chan[c])
               /\ In("smooth", c) /\ pc \in Zeroed => chan[c].smoothsum = 0
SumInv == Numbers /\ \A c \in Channels : Summed(c)

LEMMA NoSampleIs == NoSample \in Samples /\ NoSample.no = 0 /\ 0 \in Logs
BY DEF NoSample, Samples, Logs

\* What the operations of a buffer do to the samples in it.
LEMMA SlottedSet ==
  ASSUME NEW b, Slotted(b), NEW n \in Nat
  PROVE  Slotted(BufFlush(BufSet(b, n)))
<1> DEFINE slots == [i \in 0..(n - 1) |-> IF i < b.size THEN b.slots[i] ELSE NoSample]
           t == [size |-> n, wptr |-> 0, rptr |-> 0, count |-> 0, slots |-> slots]
<1>1. BufFlush(BufSet(b, n)) = t
  BY DEF BufFlush, BufSet
<1>2. ASSUME NEW i \in 0..(n - 1) PROVE slots[i] \in Samples
  <2>1. CASE i < b.size
    <3>1. i \in 0..(b.size - 1)
      BY <2>1 DEF Slotted
    <3> QED
      BY <2>1, <3>1 DEF Slotted
  <2>2. CASE ~(i < b.size)
    BY <2>2, NoSampleIs
  <2> QED
    BY <2>1, <2>2
<1>3. DOMAIN slots = 0..(n - 1)
  OBVIOUS
<1> HIDE DEF slots
<1>4. Slotted(t)
  BY <1>2, <1>3 DEF Slotted
<1> QED
  BY <1>1, <1>4

LEMMA SlottedFlush ==
  ASSUME NEW b, Slotted(b)
  PROVE  Slotted(BufFlush(b))
BY DEF Slotted, BufFlush

LEMMA SlottedWrite ==
  ASSUME NEW b, Slotted(b), b.size > 0, NEW v \in Samples
  PROVE  Slotted(BufWrite(b, v))
<1> DEFINE slots == [b.slots EXCEPT ![b.wptr] = v]
           t == BufWrite(b, v)
<1>1. /\ t.size = b.size /\ t.slots = slots
      /\ t.rptr = IF b.count = b.size THEN (b.rptr + 1) % b.size ELSE b.rptr
  BY DEF BufWrite, ModIncr
<1>2. b.size \in Nat /\ b.rptr \in Nat
  BY DEF Slotted
<1>3. t.rptr \in Nat
  BY <1>1, <1>2
<1>4. DOMAIN slots = 0..(b.size - 1) /\ \A i \in 0..(b.size - 1) : slots[i] \in Samples
  BY DEF Slotted
<1> HIDE DEF slots, t
<1>5. Slotted(t)
  BY <1>1, <1>2, <1>3, <1>4 DEF Slotted
<1> QED
  BY <1>5 DEF t

LEMMA SlottedConsume ==
  ASSUME NEW b, Slotted(b), b.count \in Nat, b.count # 0
  PROVE  Slotted(BufConsume(b)) /\ BufContents(b)[1] \in Samples
<1>1. b.size \in Nat /\ b.size > 0 /\ b.rptr \in Nat
  BY DEF Slotted
<1>2. BufContents(b)[1] = b.slots[(b.rptr + 1 - 1) % b.size]
  <2>1. 1 \in 1..b.count
    OBVIOUS
  <2> QED
    BY <2>1, Zenon DEF BufContents
<1>3. (b.rptr + 1 - 1) % b.size \in 0..(b.size - 1)
  BY <1>1
<1>4. BufContents(b)[1] \in Samples
  BY <1>2, <1>3, Zenon DEF Slotted
<1>5. (b.rptr + 1) % b.size \in Nat
  BY <1>1
<1>6. Slotted(BufConsume(b))
  BY <1>1, <1>5 DEF Slotted, BufConsume, ModIncr
<1> QED
  BY <1>4, <1>6

SameSum(s, t) == /\ t.logsmoothlen = s.logsmoothlen /\ t.smoothbuf = s.smoothbuf
                 /\ t.smoothsum = s.smoothsum

LEMMA TypedSame ==
  ASSUME NEW s, NEW t, Typed(s), SameSum(s, t), t.value_ptr \in Channels, Slotted(t.buf)
  PROVE  Typed(t) /\ (Balanced(s) => Balanced(t))
BY DEF Typed, SameSum, Balanced

\* A step that leaves the sums and the rings alone.
LEMMA SumsKept ==
  ASSUME SumInv, Numbers',
         \A c \in Channels :
           /\ SameSum(chan[c], chan'[c])
           /\ chan'[c].value_ptr \in Channels /\ Slotted(chan'[c].buf)
           /\ In("smooth", c) => In("smooth", c)'
           /\ In("smooth", c)' /\ pc' \in Zeroed => In("smooth", c) /\ pc \in Zeroed
  PROVE  SumInv'
<1>1. ASSUME NEW c \in Channels PROVE Summed(c)'
  <2>1. Summed(c)
    BY DEF SumInv
  <2>2. Typed(chan'[c]) /\ (Balanced(chan[c]) => Balanced(chan'[c]))
    BY <2>1, TypedSame DEF Summed
  <2>3. ((Typed(chan[c]))' <=> Typed(chan'[c])) /\ ((Balanced(chan[c]))' <=> Balanced(chan'[c]))
    BY Zenon DEF Typed, Balanced, Slotted
  <2>4. chan'[c].smoothsum = chan[c].smoothsum
    BY DEF SameSum
  <2> QED
    BY <2>1, <2>2, <2>3, <2>4 DEF Summed
<1> QED
  BY <1>1, Zenon DEF SumInv

\* A step that changes neither the channels nor the samples, outside adc_update_smoothing
\* or from one of its steps to the next.
LEMMA SumsAside ==
  ASSUME SumInv, UNCHANGED <<chan, sample_buf>>, conv' \in Nat,
         me'.sample \in Samples, me'.log \in Logs,
         \/ /\ pc = "idle" \/ me.call # "smooth"
            /\ pc' \in {"idle", "length"} \/ me'.call # "smooth"
         \/ /\ me'.call = me.call /\ me'.c = me.c /\ (pc = "idle" <=> pc' = "idle")
            /\ pc' \in Zeroed => pc \in Zeroed
  PROVE  SumInv'
<1>1. Numbers'
  BY DEF SumInv, Numbers
<1>2. ASSUME NEW c \in Channels
      PROVE  /\ SameSum(chan[c], chan'[c])
             /\ chan'[c].value_ptr \in Channels /\ Slotted(chan'[c].buf)
  <2>1. Typed(chan[c]) /\ chan' = chan
    BY DEF SumInv, Summed
  <2> QED
    BY <2>1, Zenon DEF Typed, SameSum
<1>3. ASSUME NEW c \in Channels
      PROVE  /\ In("smooth", c) => In("smooth", c)'
             /\ In("smooth", c)' /\ pc' \in Zeroed => In("smooth", c) /\ pc \in Zeroed
  BY DEF In, Zeroed
<1> QED
  BY <1>1, <1>2, <1>3, SumsKept

\* Calls begin with no sample, and adc_update_smoothing before the length is set.
LEMMA CallsSum ==
  ASSUME CalmInv, SumInv, Calls, calm'
  PROVE  SumInv'
<1>0. conv \in Nat /\ \A l \in LogLens : l \in Logs
  BY DEF SumInv, Numbers, Logs
<1>1. ASSUME NEW S \in SUBSET Channels \ {{}}, NEW n \in Counts, Sample(S, n) PROVE SumInv'
  <2>1. /\ pc = "idle" /\ me' = [Me0 EXCEPT !.call = "sample", !.todo = S, !.n = n]
        /\ UNCHANGED <<chan, sample_buf, conv>>
    BY <1>1 DEF Sample, Call, At, boardVars
  <2>2. me'.call = "sample" /\ me'.sample = NoSample /\ me'.log = 0
    BY <2>1 DEF Me0
  <2> QED
    BY <1>0, <2>1, <2>2, NoSampleIs, SumsAside
<1>2. ASSUME NEW c \in Channels, NEW n \in Counts \cup {0}, GetSamples(c, n) PROVE SumInv'
  <2>1. /\ pc = "idle" /\ me' = [Me0 EXCEPT !.call = "get", !.c = c, !.n = n]
        /\ UNCHANGED <<chan, sample_buf, conv>>
    BY <1>2 DEF GetSamples, Call, At, boardVars
  <2>2. me'.call = "get" /\ me'.sample = NoSample /\ me'.log = 0
    BY <2>1 DEF Me0
  <2> QED
    BY <1>0, <2>1, <2>2, NoSampleIs, SumsAside
<1>3. ASSUME NEW c \in Channels, NEW mode \in BOOLEAN, SetBlocking(c, mode) PROVE SumInv'
  <2>1. /\ pc = "idle" /\ me' = [Me0 EXCEPT !.c = c, !.bit = "blocking", !.to = mode]
        /\ UNCHANGED <<chan, sample_buf, conv>>
    BY <1>3 DEF SetBlocking, Call, At, boardVars
  <2>2. me'.call = "none" /\ me'.sample = NoSample /\ me'.log = 0
    BY <2>1 DEF Me0
  <2> QED
    BY <1>0, <2>1, <2>2, NoSampleIs, SumsAside
<1>4. ASSUME NEW c \in Channels, NEW l \in LogLens, SetSmoothing(c, l) PROVE SumInv'
  <2>1. ~flags[c].op_pending
    BY <1>4 DEF SetSmoothing
  <2>2. /\ pc = "idle" /\ pc' = "length"
        /\ me' = [Me0 EXCEPT !.call = "smooth", !.c = c, !.log = l,
                             !.bit = "op_pending", !.to = FALSE, !.then = "inactivate"]
        /\ UNCHANGED <<chan, sample_buf, conv>>
    BY <1>4, <2>1 DEF SetSmoothing, Call, At, Goto, boardVars
  <2>3. me'.sample = NoSample /\ me'.log = l
    BY <2>2 DEF Me0
  <2> QED
    BY <1>0, <2>2, <2>3, NoSampleIs, SumsAside
<1>5. ASSUME NEW c \in Channels, NEW clocked \in BOOLEAN, NEW t \in {0, 1}, SetClock(c, clocked, t)
      PROVE  SumInv'
  BY <1>5 DEF SetClock
<1> QED
  BY <1>1, <1>2, <1>3, <1>4, <1>5, Zenon DEF Calls

\* A new sequence moves the pointers of its channels, to slots of its samples.
LEMMA ResequenceSum ==
  ASSUME CalmInv, CalmInv', SumInv, Resequence, UNCHANGED <<sample_buf, conv, me>>,
         pc' = pc \/ (me.call # "smooth" /\ pc' # "idle")
  PROVE  SumInv'
<1> DEFINE seq == NewSequence
<1>1. TypeOK /\ DOMAIN chan = Channels /\ \A c \in Channels : DOMAIN chan[c] = ChanFields
  BY DEF CalmInv, TypeOK, IsChan
<1>2. seq \in Seq(Channels) /\ Holds(seq, dev.ch_active)
  BY <1>1, SortedIs DEF TypeOK, NewSequence
<1>3. dev' = [dev EXCEPT !.ch_state = seq, !.last_ch_active = dev.ch_active]
  BY DEF Resequence
<1>4. \A c \in Channels : chan'[c] = IF c \in dev.ch_active
                                     THEN [chan[c] EXCEPT !.value_ptr = Slot(seq, c)] ELSE chan[c]
  BY DEF Resequence
<1> HIDE DEF seq
<1>5. dev'.ch_state = seq
  BY <1>1, <1>3 DEF TypeOK
<1>6. DOMAIN seq \subseteq Channels
  <2>1. (dev.ch_state \in Seq(Channels) /\ DOMAIN dev.ch_state \subseteq Channels)'
    BY SlotsFit, PTL
  <2> QED
    BY <1>5, <2>1
<1>7. \A c \in dev.ch_active : Slot(seq, c) \in Channels
  <2>1. \A c \in dev.ch_active : \E i \in DOMAIN seq : seq[i] = c
    BY <1>2 DEF Holds
  <2>2. \A c \in dev.ch_active : Slot(seq, c) \in DOMAIN seq
    BY <2>1 DEF Slot
  <2> QED
    BY <1>6, <2>2
<1>8. Numbers'
  BY DEF SumInv, Numbers
<1>9. ASSUME NEW c \in Channels
      PROVE  /\ SameSum(chan[c], chan'[c])
             /\ chan'[c].value_ptr \in Channels /\ Slotted(chan'[c].buf)
  <2> DEFINE s == chan[c]
             t == chan'[c]
             v == Slot(seq, c)
  <2>1. Typed(s) /\ DOMAIN s = ChanFields
    BY <1>1 DEF SumInv, Summed
  <2>2. t = s \/ (t = [s EXCEPT !.value_ptr = v] /\ v \in Channels)
    BY <1>4, <1>7
  <2> HIDE DEF s, t, v
  <2>3. t.buf = s.buf /\ SameSum(s, t) /\ (t.value_ptr = s.value_ptr \/ t.value_ptr \in Channels)
    BY <2>1, <2>2 DEF SameSum, ChanFields
  <2>4. SameSum(s, t) /\ t.value_ptr \in Channels /\ Slotted(t.buf)
    BY <2>1, <2>3 DEF Typed
  <2> QED
    BY <2>4 DEF s, t
<1>10. ASSUME NEW c \in Channels
       PROVE  /\ In("smooth", c) => In("smooth", c)'
              /\ In("smooth", c)' /\ pc' \in Zeroed => In("smooth", c) /\ pc \in Zeroed
  BY DEF In
<1> QED
  BY <1>8, <1>9, <1>10, SumsKept

\* A sample that goes into a ring goes into its sum, and the one it replaces goes out.
LEMMA SmoothSum ==
  ASSUME NEW s, IsChan(s), Typed(s), NEW v \in Samples
  PROVE  /\ Typed(Smooth(s, v)) /\ (s.smoothsum = SumOf(s.smoothbuf) =>
                                      Smooth(s, v).smoothsum = SumOf(Smooth(s, v).smoothbuf))
         /\ Smooth(s, v).logsmoothlen = s.logsmoothlen
<1> DEFINE k == RingPlace(s)
           sum == s.smoothsum - s.smoothbuf[k].no + v.no
           ring == [s.smoothbuf EXCEPT ![k] = v]
           t == [s EXCEPT !.smoothidx = k, !.smoothsum = sum, !.smoothbuf = ring]
<1>1. Smooth(s, v) = IF k \in DOMAIN s.smoothbuf THEN t ELSE s
  BY DEF Smooth, IsChan, ChanFields
<1> HIDE DEF k
<1>2. CASE k \in DOMAIN s.smoothbuf
  <2>1. s.smoothbuf \in Seq(Samples) /\ s.smoothsum \in Int
    BY DEF Typed
  <2>2. /\ ring \in Seq(Samples) /\ SumOf(s.smoothbuf) \in Int
        /\ SumOf(ring) = SumOf(s.smoothbuf) - s.smoothbuf[k].no + v.no
    BY <1>2, <2>1, SumReplaced
  <2>3. s.smoothbuf[k].no \in Nat /\ v.no \in Nat
    <3>1. s.smoothbuf[k] \in Samples
      BY <1>2, <2>1
    <3> QED
      BY <3>1 DEF Samples
  <2>4. sum \in Int /\ (s.smoothsum = SumOf(s.smoothbuf) => sum = SumOf(ring))
    BY <2>1, <2>2, <2>3
  <2> HIDE DEF ring, sum
  <2>5. /\ t.logsmoothlen = s.logsmoothlen /\ t.smoothbuf = ring /\ t.smoothsum = sum
        /\ t.value_ptr = s.value_ptr /\ t.buf = s.buf
    BY DEF IsChan, ChanFields
  <2> HIDE DEF t
  <2>6. Typed(t)
    BY <2>2, <2>4, <2>5 DEF Typed
  <2>7. s.smoothsum = SumOf(s.smoothbuf) => t.smoothsum = SumOf(t.smoothbuf)
    BY <2>4, <2>5, Zenon
  <2> QED
    BY <1>1, <1>2, <2>5, <2>6, <2>7, Zenon
<1>3. CASE k \notin DOMAIN s.smoothbuf
  <2>1. Smooth(s, v) = s
    BY <1>1, <1>3
  <2> QED
    BY <2>1
<1> QED
  BY <1>2, <1>3

\* A step that changes a channel whose filter is not being set, and no other.
LEMMA SumsOne ==
  ASSUME SumInv, Numbers', NEW c \in Channels, ~In("smooth", c),
         \A d \in Channels : d # c => chan'[d] = chan[d],
         Typed(chan'[c]), Balanced(chan[c]) => Balanced(chan'[c]),
         \/ UNCHANGED <<pc, me>>
         \/ me.call # "smooth" /\ (pc' = "idle" \/ me'.call # "smooth")
  PROVE  SumInv'
<1>1. ASSUME NEW d \in Channels PROVE Summed(d)'
  <2>1. Summed(d)
    BY DEF SumInv
  <2>2. ((Typed(chan[d]))' <=> Typed(chan'[d])) /\ ((Balanced(chan[d]))' <=> Balanced(chan'[d]))
    BY Zenon DEF Typed, Balanced, Slotted
  <2>3. (In("smooth", d)' <=> In("smooth", d)) \/ (~In("smooth", d) /\ ~In("smooth", d)')
    BY DEF In
  <2>4. UNCHANGED <<pc, me>> \/ ~In("smooth", d)'
    BY DEF In
  <2>5. CASE d = c
    BY <2>1, <2>2, <2>3, <2>5 DEF Summed
  <2>6. CASE d # c
    <3>1. chan'[d] = chan[d]
      BY <2>6
    <3>2. Typed(chan'[d]) /\ (Balanced(chan[d]) => Balanced(chan'[d]))
      BY <2>1, <3>1 DEF Summed
    <3> QED
      BY <2>1, <2>2, <2>3, <2>4, <3>1, <3>2 DEF Summed
  <2> QED
    BY <2>5, <2>6
<1> QED
  BY <1>1, Zenon DEF SumInv

\* A round of the handler.
LEMMA IntChannelSum ==
  ASSUME CalmInv, WarmInv, SumInv, IntChannel
  PROVE  SumInv'
<1> DEFINE c == dev.ch_state[irq + 1]
           v == IF irq + 1 \in DOMAIN data THEN [of |-> data[irq + 1], no |-> conv] ELSE NoSample
           warm == chan[c].logsmoothlen > 0 /\ ~flags[c].smooth_ready
           keep == ~warm /\ chan[c].reqsamples > 1
           val  == sample_buf'[chan[c].value_ptr]
           s    == IF warm THEN Smooth(chan[c], val)
                   ELSE IF keep /\ chan[c].buf.size > 0
                        THEN [chan[c] EXCEPT !.buf = BufWrite(@, val)]
                        ELSE chan[c]
<1>1. /\ irq \in 0..(Len(dev.ch_state) - 1)
      /\ chan' = [chan EXCEPT ![c] = s]
      /\ sample_buf' = [sample_buf EXCEPT ![irq + 1] = v]
      /\ UNCHANGED <<pc, me, conv>>
  BY DEF IntChannel, programVars
<1> HIDE DEF s
<1>2. irq \in Nat /\ irq + 1 \in DOMAIN dev.ch_state /\ c \in Channels /\ irq # Outside
      /\ irq + 1 \in Channels
  <2> HIDE DEF c
  <2>1. dev.ch_state \in Seq(Channels) /\ DOMAIN dev.ch_state \subseteq Channels
    BY SlotsFit
  <2>2. irq \in Nat /\ irq + 1 \in 1..Len(dev.ch_state) /\ irq # Outside
    BY <1>1, <2>1 DEF Outside
  <2> QED
    BY <2>1, <2>2 DEF c
<1>3. c \in dev.ch_active
  BY <1>2 DEF CalmInv, Table
<1>4. IsChan(chan[c]) /\ DOMAIN chan = Channels /\ Summed(c) /\ Typed(chan[c])
  BY <1>2 DEF CalmInv, TypeOK, SumInv, Summed
<1>5. ~In("smooth", c)
  BY <1>3 DEF WarmInv, Busy
<1>6. v \in Samples
  <2>1. data = dev.ch_state /\ c \in Channels
    BY <1>2 DEF CalmInv, Underway
  <2>2. conv \in Nat
    BY DEF SumInv, Numbers
  <2>3. v = [of |-> c, no |-> conv]
    BY <1>2, <2>1
  <2> HIDE DEF c, v
  <2> QED
    BY <2>1, <2>2, <2>3 DEF Samples
<1> HIDE DEF c, v
<1>7. DOMAIN sample_buf' = Channels /\ \A i \in Channels : sample_buf'[i] \in Samples
  BY <1>1, <1>6 DEF SumInv, Numbers
<1>8. Numbers'
  BY <1>1, <1>7 DEF SumInv, Numbers
<1>9. val \in Samples
  BY <1>4, <1>7 DEF Typed
<1> HIDE DEF val
<1>10. Typed(s) /\ (Balanced(chan[c]) => Balanced(s))
  <2>1. CASE warm
    <3>1. s = Smooth(chan[c], val) /\ chan[c].logsmoothlen > 0
      BY <2>1 DEF s
    <3>2. Typed(s) /\ (chan[c].smoothsum = SumOf(chan[c].smoothbuf) => s.smoothsum = SumOf(s.smoothbuf))
      BY <1>4, <1>9, <3>1, SmoothSum
    <3> QED
      BY <3>1, <3>2 DEF Balanced
  <2>2. CASE ~warm
    <3>1. s = chan[c] \/ (s = [chan[c] EXCEPT !.buf = BufWrite(@, val)] /\ chan[c].buf.size > 0)
      BY <2>2 DEF s
    <3>2. CASE s = chan[c]
      BY <1>4, <3>2
    <3>3. CASE s = [chan[c] EXCEPT !.buf = BufWrite(@, val)] /\ chan[c].buf.size > 0
      <4> DEFINE b == BufWrite(chan[c].buf, val)
      <4>1. Slotted(b)
        <5>1. Slotted(chan[c].buf)
          BY <1>4 DEF Typed
        <5> QED
          BY <1>9, <3>3, <5>1, SlottedWrite
      <4>2. s = [chan[c] EXCEPT !.buf = b]
        BY <1>4, <3>3 DEF IsChan, ChanFields
      <4> HIDE DEF b
      <4>3. s.buf = b /\ s.value_ptr = chan[c].value_ptr /\ SameSum(chan[c], s)
        BY <1>4, <4>2 DEF IsChan, ChanFields, SameSum
      <4>4. s.value_ptr \in Channels /\ Slotted(s.buf)
        BY <1>4, <4>1, <4>3 DEF Typed
      <4> QED
        BY <1>4, <4>3, <4>4, TypedSame
    <3> QED
      BY <3>1, <3>2, <3>3
  <2> QED
    BY <2>1, <2>2
<1> HIDE DEF warm, keep
<1>11. chan'[c] = s /\ \A d \in Channels : d # c => chan'[d] = chan[d]
  BY <1>1, <1>2, <1>4
<1>12. Typed(chan'[c]) /\ (Balanced(chan[c]) => Balanced(chan'[c]))
  BY <1>10, <1>11
<1>13. c \in Channels
  BY <1>2
<1> QED
  BY <1>1, <1>5, <1>8, <1>11, <1>12, <1>13, SumsOne

\* The handler keeps the sums.
LEMMA HandlerSum ==
  ASSUME CalmInv, CalmInv', WarmInv, SumInv, ADCIntHandler
  PROVE  SumInv'
<1>1. CASE IntEnter
  <2>1. UNCHANGED <<chan, sample_buf, pc, me>> /\ conv' = IF conv < MaxConv THEN conv + 1 ELSE conv
    BY <1>1 DEF IntEnter, programVars
  <2>2. conv' \in Nat /\ me'.sample \in Samples /\ me'.log \in Logs
    BY <2>1 DEF SumInv, Numbers
  <2> QED
    BY <2>1, <2>2, SumsAside
<1>2. CASE IntLeave
  <2>1. UNCHANGED <<sample_buf, conv, pc, me>> /\ (Resequence \/ UNCHANGED <<dev, chan, flags>>)
    BY <1>2 DEF IntLeave, programVars
  <2>2. CASE Resequence
    BY <2>1, <2>2, ResequenceSum
  <2>3. CASE UNCHANGED <<dev, chan, flags>>
    <3>1. conv' \in Nat /\ me'.sample \in Samples /\ me'.log \in Logs
      BY <2>1 DEF SumInv, Numbers
    <3> QED
      BY <2>1, <2>3, <3>1, SumsAside
  <2> QED
    BY <2>1, <2>2, <2>3
<1>3. CASE IntChannel
  BY <1>3, IntChannelSum
<1> QED
  BY <1>1, <1>2, <1>3 DEF ADCIntHandler

\* Steps of the program that leave the channels and the samples alone.
LEMMA ProgramAsideSum ==
  ASSUME CalmInv, SumInv,
         \/ LoadByte \/ StoreByte
         \/ StartCheck \/ StartCompare \/ StartFaults \/ StartEnable \/ StartRunning \/ StartTrigger
         \/ WaitSamples \/ WaitReturns \/ TakeNothing \/ Take \/ TakeFresh \/ ReadValue
  PROVE  SumInv'
<1>1. /\ DOMAIN me = MeFields /\ me.sample \in Samples /\ me.log \in Logs /\ conv \in Nat
      /\ me.c \in Channels
  BY Where DEF CalmInv, TypeOK, SumInv, Numbers
<1>2. Me0.sample \in Samples /\ Me0.log \in Logs
  BY NoSampleIs DEF Me0
<1>3. UNCHANGED <<chan, sample_buf, conv>>
  BY DEF LoadByte, StoreByte, StartCheck, StartCompare, StartFaults, StartEnable, StartRunning,
     StartTrigger, WaitSamples, WaitReturns, TakeNothing, Take, TakeFresh, ReadValue, boardVars
<1>4. CASE LoadByte
  <2>1. pc = "load" /\ pc' = "store" /\ me' = [me EXCEPT !.byte = Flags]
    BY <1>4 DEF LoadByte, At, Goto
  <2>2. me'.call = me.call /\ me'.c = me.c /\ me'.sample = me.sample /\ me'.log = me.log
    BY <1>1, <2>1 DEF MeFields
  <2> QED
    BY <1>1, <1>3, <2>1, <2>2, SumsAside DEF Zeroed
<1>5. CASE StoreByte
  <2>1. pc = "store" /\ IF me.then = "idle" THEN pc' = "idle" /\ me' = Me0
                                            ELSE pc' = me.then /\ me' = me
    BY <1>5 DEF StoreByte, At, Goto, GoIdle
  <2>2. \/ me.call # "smooth" /\ (pc' = "idle" \/ me' = me)
        \/ me.call = "smooth" /\ pc' = "zero" /\ me' = me
    BY <2>1 DEF CalmInv, TypeOK, IsMe
  <2>3. me'.sample \in Samples /\ me'.log \in Logs
    BY <1>1, <1>2, <2>1
  <2> QED
    BY <1>3, <1>1, <2>1, <2>2, <2>3, SumsAside DEF Zeroed
<1>6. CASE StartCheck \/ StartCompare \/ StartFaults \/ StartEnable \/ StartRunning \/ StartTrigger
  <2>1. pc \in Starting \cup {"start", "trigger"} /\ (me' = me \/ (pc' = "idle" /\ me' = Me0))
    BY <1>6 DEF StartCheck, StartCompare, StartFaults, StartEnable, StartRunning, StartTrigger, At,
       Goto, GoIdle, Starting
  <2>2. me.call = "sample"
    BY <2>1, Where DEF CalmInv, TypeOK, Sampling, Starting
  <2>3. me'.sample \in Samples /\ me'.log \in Logs
    BY <1>1, <1>2, <2>1
  <2> QED
    BY <1>1, <1>3, <2>1, <2>2, <2>3, SumsAside
<1>7. CASE WaitSamples \/ WaitReturns \/ TakeNothing \/ Take \/ TakeFresh \/ ReadValue
  <2>1. pc \in {"wait", "waited", "take", "pick", "value"}
    BY <1>7 DEF WaitSamples, WaitReturns, TakeNothing, Take, TakeFresh, ReadValue, At
  <2>2. me.call = "get"
    BY <2>1, Where DEF CalmInv, TypeOK
  <2>3. /\ pc' = "idle" \/ me'.call = "get"
        /\ me'.sample \in Samples /\ me'.log \in Logs
    <3>1. CASE WaitSamples \/ WaitReturns \/ TakeNothing
      <4>1. \/ me' = me \/ (pc' = "idle" /\ me' = Me0)
            \/ \E left : me' = [me EXCEPT !.left = left]
        BY <1>1, <3>1 DEF WaitSamples, WaitReturns, TakeNothing, Returned, GoIdle, Goto, MeFields
      <4> QED
        BY <1>1, <1>2, <2>2, <4>1 DEF MeFields
    <3>2. CASE Take \/ TakeFresh
      <4>1. me' = me \/ me' = [me EXCEPT !.bit = "smooth_ready", !.to = TRUE, !.then = "pick"]
        BY <3>2 DEF Take, TakeFresh, Assign
      <4> QED
        BY <1>1, <2>2, <4>1 DEF MeFields
    <3>3. CASE ReadValue
      <4> DEFINE v == sample_buf[Chan.value_ptr]
      <4>1. v \in Samples
        <5>1. Chan.value_ptr \in Channels
          BY <1>1 DEF SumInv, Summed, Typed, Chan
        <5> QED
          BY <5>1 DEF SumInv, Numbers
      <4>2. me' = [[me EXCEPT !.sample = v]
                     EXCEPT !.bit = "value_fresh", !.to = FALSE, !.then = "count"]
        BY <3>3 DEF ReadValue, Assign
      <4> HIDE DEF v
      <4> QED
        BY <1>1, <2>2, <4>1, <4>2 DEF MeFields
    <3> QED
      BY <1>7, <3>1, <3>2, <3>3
  <2> QED
    BY <1>1, <1>3, <2>2, <2>3, SumsAside
<1> QED
  BY <1>4, <1>5, <1>6, <1>7

\* A channel is set up with a flushed buffer, or with the one it has.
LEMMA SetupChannelSum ==
  ASSUME CalmInv, SumInv, SetupChannel
  PROVE  SumInv'
<1>1. pc = "setup" /\ UNCHANGED <<sample_buf, conv>>
  BY DEF SetupChannel, At
<1>2. PICK c \in me.todo :
        /\ chan' = [chan EXCEPT ![c].reqsamples = me.n,
                      ![c].buf = IF @.size # me.n THEN BufFlush(BufSet(@, me.n)) ELSE @]
        /\ me' = [me EXCEPT !.todo = @ \ {c}]
        /\ pc' \in {"start", "setup"}
  BY Zenon DEF SetupChannel, Enlist, Goto
<1>3. /\ DOMAIN me = MeFields /\ c \in Channels /\ me.call = "sample" /\ me.n \in Nat
      /\ IsChan(chan[c]) /\ DOMAIN chan = Channels /\ Typed(chan[c])
  BY <1>1, <1>2, Where DEF CalmInv, TypeOK, Sampling, SumInv, Summed
<1>4. me'.call = "sample" /\ me'.sample = me.sample /\ me'.log = me.log
  BY <1>2, <1>3 DEF MeFields
<1>5. Numbers'
  BY <1>1, <1>4 DEF SumInv, Numbers
<1> DEFINE b == IF chan[c].buf.size # me.n THEN BufFlush(BufSet(chan[c].buf, me.n)) ELSE chan[c].buf
           s == [chan[c] EXCEPT !.reqsamples = me.n, !.buf = b]
<1>6. Slotted(b)
  <2>1. Slotted(chan[c].buf)
    BY <1>3 DEF Typed
  <2> QED
    BY <1>3, <2>1, SlottedSet
<1>7. chan' = [chan EXCEPT ![c].reqsamples = me.n, ![c].buf = b]
  BY <1>2, <1>3 DEF IsChan, ChanFields
<1> HIDE DEF b
<1>8. chan'[c] = s /\ \A d \in Channels : d # c => chan'[d] = chan[d]
  BY <1>3, <1>7 DEF IsChan, ChanFields
<1>9. s.buf = b /\ s.value_ptr = chan[c].value_ptr /\ SameSum(chan[c], s)
  BY <1>3 DEF IsChan, ChanFields, SameSum
<1> HIDE DEF s
<1>10. s.value_ptr \in Channels /\ Slotted(s.buf)
  BY <1>3, <1>6, <1>9 DEF Typed
<1>11. Typed(s) /\ (Balanced(chan[c]) => Balanced(s))
  BY <1>3, <1>9, <1>10, TypedSame
<1>12. ~In("smooth", c) /\ me.call # "smooth" /\ me'.call # "smooth"
  BY <1>3, <1>4 DEF In
<1>13. Typed(chan'[c]) /\ (Balanced(chan[c]) => Balanced(chan'[c]))
  BY <1>8, <1>11
<1>14. c \in Channels
  BY <1>3
<1> QED
  BY <1>5, <1>8, <1>12, <1>13, <1>14, SumsOne

\* What is taken from a buffer was put there by the handler.
LEMMA TakeBufferedSum ==
  ASSUME CalmInv, SumInv, TakeBuffered
  PROVE  SumInv'
<1>1. pc = "pick" /\ UNCHANGED <<sample_buf, conv>> /\ pc' = "count"
  BY DEF TakeBuffered, At, Goto
<1>2. /\ DOMAIN me = MeFields /\ me.c \in Channels /\ me.call = "get"
      /\ Chan = chan[me.c] /\ IsChan(Chan) /\ DOMAIN chan = Channels /\ Typed(Chan)
  BY <1>1, Where DEF CalmInv, TypeOK, SumInv, Summed, Chan
<1>3. ASSUME NEW v \in Samples, me' = [me EXCEPT !.sample = v]
      PROVE  Numbers' /\ me'.call = "get"
  <2>1. me'.sample = v /\ me'.log = me.log /\ me'.call = "get"
    BY <1>2, <1>3 DEF MeFields
  <2> QED
    BY <1>1, <2>1 DEF SumInv, Numbers
<1>4. ~In("smooth", me.c)
  BY <1>2 DEF In
<1>5. CASE Chan.buf.count = 0
  <2>1. me' = [me EXCEPT !.sample = NoSample] /\ chan' = chan
    BY <1>5 DEF TakeBuffered
  <2>2. Numbers' /\ me'.call = "get"
    BY <1>3, <2>1, NoSampleIs
  <2>3. me'.sample \in Samples /\ me'.log \in Logs /\ conv' \in Nat
    BY <2>2 DEF Numbers
  <2> QED
    BY <1>1, <1>2, <2>1, <2>2, <2>3, SumsAside
<1>6. CASE Chan.buf.count # 0
  <2> DEFINE v == BufContents(Chan.buf)[1]
             b == BufConsume(Chan.buf)
             s == [Chan EXCEPT !.buf = b]
  <2>1. Slotted(b) /\ v \in Samples
    <3>1. Slotted(Chan.buf) /\ Chan.buf.count \in Nat
      BY <1>2 DEF Typed, IsChan
    <3> QED
      BY <1>6, <3>1, SlottedConsume
  <2>2. me' = [me EXCEPT !.sample = v] /\ chan' = [chan EXCEPT ![me.c].buf = BufConsume(@)]
    BY <1>6 DEF TakeBuffered
  <2>3. chan' = [chan EXCEPT ![me.c].buf = b]
    BY <1>2, <2>2 DEF IsChan, ChanFields
  <2> HIDE DEF v, b
  <2>4. Numbers' /\ me'.call # "smooth"
    BY <1>3, <2>1, <2>2
  <2>5. chan'[me.c] = s /\ \A d \in Channels : d # me.c => chan'[d] = chan[d]
    BY <1>2, <2>3
  <2>6. s.buf = b /\ s.value_ptr = Chan.value_ptr /\ SameSum(Chan, s)
    BY <1>2 DEF IsChan, ChanFields, SameSum
  <2> HIDE DEF s
  <2>7. s.value_ptr \in Channels /\ Slotted(s.buf)
    BY <1>2, <2>1, <2>6 DEF Typed
  <2>8. Typed(s) /\ (Balanced(Chan) => Balanced(s))
    BY <1>2, <2>6, <2>7, TypedSame
  <2>9. Typed(chan'[me.c]) /\ (Balanced(chan[me.c]) => Balanced(chan'[me.c]))
    BY <1>2, <2>5, <2>8
  <2>10. me.c \in Channels /\ me.call # "smooth"
    BY <1>2
  <2> QED
    BY <1>4, <2>4, <2>5, <2>9, <2>10, SumsOne
<1> QED
  BY <1>5, <1>6

\* What the program takes from a warm filter goes through its ring, as in the handler.
LEMMA CountSampleSum ==
  ASSUME CalmInv, SumInv, CountSample
  PROVE  SumInv'
<1> DEFINE t == IF Chan.logsmoothlen > 0 THEN Smooth(Chan, me.sample) ELSE Chan
           s == [t EXCEPT !.reqsamples = IF @ > 0 THEN @ - 1 ELSE 0]
<1>1. /\ pc = "count" /\ UNCHANGED <<sample_buf, conv>>
      /\ chan' = [chan EXCEPT ![me.c] = s] /\ Returned
  BY DEF CountSample, At
<1> HIDE DEF t
<1>2. /\ DOMAIN me = MeFields /\ me.c \in Channels /\ me.call = "get"
      /\ Chan = chan[me.c] /\ IsChan(Chan) /\ DOMAIN chan = Channels /\ Typed(Chan)
      /\ me.sample \in Samples /\ me.log \in Logs
  BY <1>1, Where DEF CalmInv, TypeOK, SumInv, Summed, Chan, Numbers
<1>3. /\ pc' = "idle" \/ me'.call # "smooth"
      /\ me'.sample \in Samples /\ me'.log \in Logs
  <2>1. (pc' = "idle" /\ me' = Me0) \/ me' = [me EXCEPT !.left = @ - 1]
    BY <1>1 DEF Returned, GoIdle, Goto
  <2>2. Me0.sample \in Samples /\ Me0.log \in Logs
    BY NoSampleIs DEF Me0
  <2> QED
    BY <1>2, <2>1, <2>2 DEF MeFields
<1>4. Numbers'
  BY <1>1, <1>3 DEF SumInv, Numbers
<1>5. Typed(t) /\ (Balanced(Chan) => Balanced(t)) /\ DOMAIN t = ChanFields
  <2>1. CASE Chan.logsmoothlen > 0
    <3>1. t = Smooth(Chan, me.sample)
      BY <2>1 DEF t
    <3>2. /\ Typed(t) /\ (Chan.smoothsum = SumOf(Chan.smoothbuf) => t.smoothsum = SumOf(t.smoothbuf))
      BY <1>2, <3>1, SmoothSum
    <3>3. DOMAIN t = ChanFields
      BY <1>2, <3>1 DEF Smooth, IsChan, ChanFields
    <3> QED
      BY <2>1, <3>2, <3>3 DEF Balanced
  <2>2. CASE ~(Chan.logsmoothlen > 0)
    BY <1>2, <2>2 DEF t, IsChan
  <2> QED
    BY <2>1, <2>2
<1>6. SameSum(t, s) /\ s.value_ptr = t.value_ptr /\ s.buf = t.buf
  BY <1>5 DEF SameSum, ChanFields
<1> HIDE DEF s
<1>7. s.value_ptr \in Channels /\ Slotted(s.buf)
  BY <1>5, <1>6 DEF Typed
<1>8. Typed(s) /\ (Balanced(t) => Balanced(s))
  BY <1>5, <1>6, <1>7, TypedSame
<1>9. chan'[me.c] = s /\ \A d \in Channels : d # me.c => chan'[d] = chan[d]
  BY <1>1, <1>2
<1>10. Typed(chan'[me.c]) /\ (Balanced(chan[me.c]) => Balanced(chan'[me.c]))
  BY <1>2, <1>5, <1>8, <1>9
<1>11. ~In("smooth", me.c) /\ me.c \in Channels /\ me.call # "smooth"
  BY <1>2 DEF In
<1> QED
  BY <1>3, <1>4, <1>9, <1>10, <1>11, SumsOne

\* A step of adc_update_smoothing.
LEMMA SettingSumStep ==
  ASSUME CalmInv, SumInv, UNCHANGED <<sample_buf, conv>>,
         pc \in {"length", "allocate", "flush", "sum", "zero"},
         NEW s, chan' = [chan EXCEPT ![me.c] = s], Typed(s),
         me'.sample \in Samples, me'.log \in Logs,
         \/ pc' = "idle" /\ Balanced(s)
         \/ pc' # "idle" /\ me'.c = me.c /\ me'.call = "smooth" /\ (pc' \in Zeroed => s.smoothsum = 0)
  PROVE  SumInv'
<1>1. me.call = "smooth" /\ me.c \in Channels /\ DOMAIN chan = Channels
  BY Where DEF CalmInv, TypeOK
<1>2. Numbers'
  BY DEF SumInv, Numbers
<1>3. chan'[me.c] = s /\ \A c \in Channels : c # me.c => chan'[c] = chan[c]
  BY <1>1
<1>4. ASSUME NEW c \in Channels PROVE Summed(c)'
  <2>1. ((Typed(chan[c]))' <=> Typed(chan'[c])) /\ ((Balanced(chan[c]))' <=> Balanced(chan'[c]))
    BY Zenon DEF Typed, Balanced, Slotted
  <2>2. CASE c = me.c
    <3>1. Typed(chan'[c]) /\ (Balanced(s) => Balanced(chan'[c]))
          /\ (s.smoothsum = 0 => chan'[c].smoothsum = 0)
      BY <1>3, <2>2
    <3>2. In("smooth", c)' <=> pc' # "idle"
      BY <2>2 DEF In
    <3> QED
      BY <2>1, <3>1, <3>2 DEF Summed
  <2>3. CASE c # me.c
    <3>1. ~In("smooth", c) /\ ~In("smooth", c)' /\ chan'[c] = chan[c] /\ Summed(c)
      BY <1>1, <1>3, <2>3 DEF In, SumInv
    <3>2. Typed(chan'[c]) /\ Balanced(chan'[c])
      BY <3>1 DEF Summed
    <3> QED
      BY <2>1, <3>1, <3>2 DEF Summed
  <2> QED
    BY <2>2, <2>3
<1> QED
  BY <1>2, <1>4, Zenon DEF SumInv

\* adc_update_smoothing zeroes the sum before the ring, so that they agree at its end.
LEMMA SettingSum ==
  ASSUME CalmInv, SumInv, SetLength \/ Allocate \/ FlushIndex \/ FlushSum \/ FlushBuffers
  PROVE  SumInv'
<1>1. /\ pc \in {"length", "allocate", "flush", "sum", "zero"}
      /\ UNCHANGED <<sample_buf, conv>>
  BY DEF SetLength, Allocate, FlushIndex, FlushSum, FlushBuffers, At
<1>2. /\ DOMAIN me = MeFields /\ me.call = "smooth" /\ me.c \in Channels
      /\ DOMAIN chan = Channels /\ Chan = chan[me.c] /\ IsChan(Chan) /\ Typed(Chan)
      /\ me.sample \in Samples /\ me.log \in Logs
  BY <1>1, Where DEF CalmInv, TypeOK, Chan, SumInv, Summed, Numbers
<1>3. In("smooth", me.c) /\ Summed(me.c)
  BY <1>1, <1>2 DEF SumInv, In
<1>4. CASE SetLength
  <2> DEFINE s == [Chan EXCEPT !.logsmoothlen = me.log]
  <2>1. me' = me /\ pc' \in {"flush", "allocate"}
    BY <1>4 DEF SetLength, Goto
  <2>2. chan' = [chan EXCEPT ![me.c] = s]
    BY <1>2, <1>4 DEF SetLength
  <2>3. /\ s.value_ptr = Chan.value_ptr /\ s.buf = Chan.buf /\ s.smoothbuf = Chan.smoothbuf
        /\ s.smoothsum = Chan.smoothsum /\ s.logsmoothlen = me.log
    BY <1>2 DEF IsChan, ChanFields
  <2> HIDE DEF s
  <2>4. Typed(s)
    BY <1>2, <2>3 DEF Typed
  <2> QED
    BY <1>1, <1>2, <2>1, <2>2, <2>4, SettingSumStep DEF Zeroed
<1>5. CASE Allocate
  <2> DEFINE n == RingSize(Chan)
             ring == [i \in 1..RingSize(Chan) |->
                       IF i \in DOMAIN Chan.smoothbuf THEN Chan.smoothbuf[i] ELSE NoSample]
             s == [Chan EXCEPT !.smoothbuf = ring]
  <2>1. pc' = "flush" /\ me' = me
    BY <1>5 DEF Allocate, Goto
  <2>2. n \in Nat
    BY <1>2, PowerAssumption DEF RingSize, Typed, Logs
  <2>3. ring \in Seq(Samples)
    <3>1. Chan.smoothbuf \in Seq(Samples)
      BY <1>2 DEF Typed
    <3>2. \A i \in 1..n : ring[i] \in Samples
      BY <3>1, NoSampleIs
    <3>3. DOMAIN ring = 1..n /\ ring = [i \in 1..n |-> ring[i]]
      OBVIOUS
    <3> HIDE DEF ring, n
    <3>4. ring \in [1..n -> Samples]
      BY <3>2, <3>3
    <3> QED
      BY <2>2, <3>4
  <2>4. chan' = [chan EXCEPT ![me.c].smoothbuf = ring]
    <3>1. chan' = [chan EXCEPT ![me.c].smoothbuf =
            [i \in 1..RingSize(Chan) |-> IF i \in DOMAIN @ THEN @[i] ELSE NoSample]]
      BY <1>5 DEF Allocate
    <3> QED
      BY <1>2, <3>1
  <2> HIDE DEF ring
  <2>5. chan' = [chan EXCEPT ![me.c] = s]
    BY <1>2, <2>4
  <2>6. /\ s.value_ptr = Chan.value_ptr /\ s.buf = Chan.buf /\ s.smoothbuf = ring
        /\ s.smoothsum = Chan.smoothsum /\ s.logsmoothlen = Chan.logsmoothlen
    BY <1>2 DEF IsChan, ChanFields
  <2> HIDE DEF s
  <2>7. Typed(s)
    BY <1>2, <2>3, <2>6 DEF Typed
  <2> QED
    BY <1>1, <1>2, <2>1, <2>5, <2>7, SettingSumStep DEF Zeroed
<1>6. CASE FlushIndex
  <2> DEFINE s == [Chan EXCEPT !.smoothidx = 0]
  <2>1. pc' = "sum" /\ me' = me
    BY <1>6 DEF FlushIndex, Goto
  <2>2. chan' = [chan EXCEPT ![me.c] = s]
    BY <1>2, <1>6 DEF FlushIndex
  <2>3. SameSum(Chan, s) /\ s.value_ptr = Chan.value_ptr /\ s.buf = Chan.buf
    BY <1>2 DEF IsChan, ChanFields, SameSum
  <2> HIDE DEF s
  <2>4. Typed(s)
    BY <1>2, <2>3 DEF Typed, SameSum
  <2> QED
    BY <1>1, <1>2, <2>1, <2>2, <2>4, SettingSumStep DEF Zeroed
<1>7. CASE FlushSum
  <2> DEFINE s == [Chan EXCEPT !.smoothsum = 0]
  <2>1. pc' = "load" /\ me' = [me EXCEPT !.bit = "smooth_ready", !.to = FALSE, !.then = "zero"]
    BY <1>7 DEF FlushSum, Goto, Assign
  <2>2. me'.c = me.c /\ me'.call = "smooth" /\ me'.sample = me.sample /\ me'.log = me.log
    BY <1>2, <2>1 DEF MeFields
  <2>3. chan' = [chan EXCEPT ![me.c] = s]
    BY <1>2, <1>7 DEF FlushSum
  <2>4. /\ s.value_ptr = Chan.value_ptr /\ s.buf = Chan.buf /\ s.smoothbuf = Chan.smoothbuf
        /\ s.smoothsum = 0 /\ s.logsmoothlen = Chan.logsmoothlen
    BY <1>2 DEF IsChan, ChanFields
  <2> HIDE DEF s
  <2>5. Typed(s)
    BY <1>2, <2>4 DEF Typed
  <2> QED
    BY <1>1, <1>2, <2>1, <2>2, <2>3, <2>4, <2>5, SettingSumStep
<1>8. CASE FlushBuffers
  <2> DEFINE ring == IF Chan.logsmoothlen > 0 THEN [i \in DOMAIN Chan.smoothbuf |-> NoSample]
                                              ELSE Chan.smoothbuf
             b == BufFlush(Chan.buf)
             s == [Chan EXCEPT !.smoothbuf = ring, !.buf = b]
  <2>1. pc = "zero" /\ pc' = "idle" /\ me' = Me0
    BY <1>8 DEF FlushBuffers, At, GoIdle
  <2>2. Chan.smoothsum = 0 /\ Chan.smoothbuf \in Seq(Samples) /\ Slotted(b)
    <3>1. Slotted(Chan.buf)
      BY <1>2 DEF Typed
    <3> QED
      BY <1>2, <1>3, <2>1, <3>1, SlottedFlush DEF Summed, Zeroed, Typed
  <2>3. ring \in Seq(Samples) /\ (Chan.logsmoothlen > 0 => \A i \in DOMAIN ring : ring[i].no = 0)
    <3>1. CASE Chan.logsmoothlen > 0
      <4> DEFINE old == Chan.smoothbuf
      <4>1. ring = [i \in DOMAIN old |-> NoSample] /\ old \in Seq(Samples)
        BY <2>2, <3>1
      <4> HIDE DEF ring, old
      <4>2. DOMAIN old = 1..Len(old) /\ Len(old) \in Nat
        BY <4>1
      <4>3. DOMAIN ring = 1..Len(old) /\ \A i \in DOMAIN ring : ring[i] = NoSample
        BY <4>1, <4>2
      <4>4. ring \in [1..Len(old) -> Samples]
        BY <4>1, <4>2, NoSampleIs
      <4>5. ring \in Seq(Samples)
        BY <4>2, <4>4
      <4> QED
        BY <4>3, <4>5, NoSampleIs
    <3>2. CASE ~(Chan.logsmoothlen > 0)
      BY <2>2, <3>2
    <3> QED
      BY <3>1, <3>2
  <2>4. chan' = [chan EXCEPT ![me.c].smoothbuf = ring, ![me.c].buf = BufFlush(@)]
    <3>1. chan' = [chan EXCEPT
            ![me.c].smoothbuf = IF Chan.logsmoothlen > 0 THEN [i \in DOMAIN @ |-> NoSample] ELSE @,
            ![me.c].buf = BufFlush(@)]
      BY <1>8 DEF FlushBuffers
    <3> QED
      BY <1>2, <3>1
  <2> HIDE DEF ring
  <2>5. chan' = [chan EXCEPT ![me.c] = s]
    BY <1>2, <2>4 DEF IsChan, ChanFields
  <2> HIDE DEF b
  <2>6. /\ s.value_ptr = Chan.value_ptr /\ s.buf = b /\ s.smoothbuf = ring
        /\ s.smoothsum = 0 /\ s.logsmoothlen = Chan.logsmoothlen
    BY <1>2, <2>2 DEF IsChan, ChanFields
  <2> HIDE DEF s
  <2>7. Typed(s)
    BY <1>2, <2>2, <2>3, <2>6 DEF Typed
  <2>8. Balanced(s)
    <3>1. Chan.logsmoothlen > 0 => SumOf(ring) = 0
      BY <2>3, SumEmptied
    <3> QED
      BY <2>6, <3>1 DEF Balanced
  <2>9. me'.sample \in Samples /\ me'.log \in Logs
    BY <2>1, NoSampleIs DEF Me0
  <2> QED
    BY <1>1, <2>1, <2>5, <2>7, <2>8, <2>9, SettingSumStep
<1> QED
  BY <1>4, <1>5, <1>6, <1>7, <1>8

\* At first no channel filters, and nothing has been sampled.
LEMMA InitSum == Init => SumInv
<1> SUFFICES ASSUME Init PROVE SumInv
  OBVIOUS
<1>1. 1 \in Channels
  BY AdcAssumption DEF Channels
<1>2. Numbers
  BY NoSampleIs DEF Init, Me0, Numbers
<1>3. ASSUME NEW c \in Channels PROVE Summed(c)
  <2>1. /\ chan[c].logsmoothlen = 0 /\ chan[c].smoothsum = 0 /\ chan[c].smoothbuf = <<>>
        /\ chan[c].value_ptr = 1 /\ chan[c].buf = BufSet(BufUnset, 2)
    BY DEF Init
  <2> DEFINE b == BufSet(BufUnset, 2)
  <2>2. b.size = 2 /\ b.rptr = 0 /\ b.count = 0 /\ b.slots = [i \in 0..1 |-> NoSample]
    BY DEF BufSet, BufUnset
  <2> HIDE DEF b
  <2>3. Slotted(b)
    BY <2>2, NoSampleIs DEF Slotted
  <2>4. <<>> \in Seq(Samples)
    OBVIOUS
  <2>5. Typed(chan[c])
    BY <1>1, <2>1, <2>3, <2>4, NoSampleIs DEF Typed, b
  <2>6. pc = "idle"
    BY DEF Init
  <2> QED
    BY <2>1, <2>5, <2>6 DEF Summed, In, Balanced
<1> QED
  BY <1>2, <1>3 DEF SumInv

SInv == WInv /\ (calm => SumInv)

\* Every step keeps the sums.
LEMMA NextSum ==
  ASSUME SInv, [Next]_vars
  PROVE  SInv'
<1>1. WInv'
  BY NextWarm DEF SInv
<1> SUFFICES ASSUME calm' PROVE SumInv'
  BY <1>1 DEF SInv
<1>2. CASE Next
  <2>1. CalmInv /\ CalmInv' /\ WarmInv /\ SumInv
    BY <1>1, <1>2, CalmEnds DEF SInv, WInv, AInv
  <2>2. CASE ADCIntHandler
    BY <2>1, <2>2, HandlerSum
  <2>3. CASE TimerFires \/ ConversionLost
    BY <2>1, <2>3, NotCalm
  <2>4. CASE Calls
    BY <2>1, <2>4, CallsSum
  <2>5. CASE StartSequence
    <3>1. Resequence /\ UNCHANGED <<sample_buf, conv, me>> /\ pc = "sequence" /\ pc' = "enable"
      BY <2>5 DEF StartSequence, At, Goto
    <3>2. me.call # "smooth"
      BY <2>1, <3>1, Where DEF CalmInv, TypeOK, Sampling, Starting
    <3> QED
      BY <2>1, <3>1, <3>2, ResequenceSum
  <2>6. CASE Program
    BY <2>1, <2>5, <2>6, NotCalm, ProgramAsideSum, SetupChannelSum, TakeBufferedSum, CountSampleSum,
       SettingSum, Zenon
       DEF Program
  <2> QED
    BY <1>2, <2>2, <2>3, <2>4, <2>6 DEF Next
<1>3. CASE UNCHANGED vars
  <2>1. SumInv /\ UNCHANGED <<chan, sample_buf, conv, pc, me>>
    BY <1>3, Zenon DEF vars, SInv
  <2>2. conv' \in Nat /\ me'.sample \in Samples /\ me'.log \in Logs
    BY <2>1 DEF SumInv, Numbers
  <2> QED
    BY <2>1, <2>2, SumsAside
<1> QED
  BY <1>2, <1>3

\* The running sum of a filter is the sum of its ring, whoever filters: the handler while
\* the ring is cold and the program once it is warm add a sample and subtract the one it
\* replaces, and only adc_update_smoothing lets the two differ while it is at work.
THEOREM SumOfRingKept == Spec => []SumIsRing
<1>1. Init => SInv
  BY InitAInv, InitWarm, InitSum DEF SInv, WInv
<1>2. SInv /\ [Next]_vars => SInv'
  BY NextSum
<1>3. SInv => SumIsRing
  BY DEF SInv, SumInv, Summed, Balanced, SumIsRing, SumOfRing
<1> QED
  BY <1>1, <1>2, <1>3, PTL DEF Spec
==============================================================================
