----------------------------- MODULE XmodemProofs -----------------------------
(***************************************************************************)
(* What Xmodem promises for every file, every modulus of the block numbers,*)
(* every buffer size and every number of faults of the line.               *)
(*                                                                         *)
(* The properties say what the receiver has stored.  The invariant says    *)
(* why no arrival can mislead it: the two sides are in step, and whatever  *)
(* four bytes on the line would pass the checks of xmodem_get_record are   *)
(* the next block.                                                         *)
(***************************************************************************)
EXTENDS Xmodem, SequenceTheorems, TLAPS

Data == 0..255
CheckByte(d) == IF CrcSender THEN Crc(d) ELSE Checksum(d)
LineBytes  == 0..300 \cup {CheckByte(d) : d \in Data}
ReplyBytes == {"C", "NAK", "ACK", "CAN"}
Stored     == Len(received)

TypeOK ==
  /\ line \in Seq(LineBytes) /\ reply \in Seq(ReplyBytes)
  /\ pc \in {"loop", "listen", "record", "returned"}
  /\ starting \in BOOLEAN /\ packnum \in Nat /\ retries \in Nat /\ limit \in Nat
  /\ received \in Seq(LineBytes)
  /\ result \in {"none", "done", "remotecancel", "retryexceed", "outofmem"}
  /\ snd \in {"idle", "waiting", "block", "eot", "ended", "cancelled"}
  /\ next \in 1..(Len(File) + 1) /\ faults \in Nat /\ framed \in BOOLEAN

\* What a sender that has something to send is sending.
Sending ==
  /\ snd = "block" => next <= Len(File)
  /\ snd = "eot" => next = Len(File) + 1
  /\ pc # "returned" => result = "none"

\* Until its first byte is read nothing has been sent.
NotYet ==
  pc # "returned" /\ snd \in {"idle", "waiting"} =>
    /\ Stored = 0 /\ next = 1 /\ line = <<>> /\ starting /\ pc # "record"
    /\ snd = "idle" => reply = <<>>

\* Stop and wait: the sender is at the last block stored or the one after it, and goes
\* on only for the one ACK of the last one.
HasAck(r) == \E i \in 1..Len(r) : r[i] = "ACK"
OneAck(r) == \A i, j \in 1..Len(r) : r[i] = "ACK" /\ r[j] = "ACK" => i = j

InStep ==
  pc # "returned" =>
    /\ packnum = Number(Stored + 1)
    /\ next \in {Stored, Stored + 1}
    /\ OneAck(reply) /\ (HasAck(reply) => next = Stored)

\* The four bytes of s from j on pass the checks for block number p.
Passes(s, j, p) ==
  /\ s[j] = p
  /\ s[j + 1] = Complement(p)
  /\ s[j + 3] = Crc(s[j + 2])

\* Wherever the receiver starts to read a record, what passes is the next block.
OnlyNext(s) ==
  \A j \in 1..(Len(s) - 3) : Passes(s, j, packnum) =>
    next = Stored + 1 /\ next <= Len(File) /\ s[j + 2] = File[next]

Unmistakable == pc # "returned" => OnlyNext(line)

\* The bytes of s from position from on are records as long as those sent, CANs, and
\* EOTs that come after the whole file.
Aligned(s, from) ==
  \E starts \in SUBSET (1..(Len(s) + 1)) :
    /\ from \in starts /\ Len(s) + 1 \in starts
    /\ \A i \in starts : i <= Len(s) =>
         \/ s[i] = SOH /\ i + 5 \in starts
         \/ s[i] = EOT /\ Stored = Len(File) /\ i + 1 \in starts
         \/ s[i] = CAN /\ i + 1 \in starts

Framing ==
  /\ framed => faults > 0
  /\ pc # "returned" /\ ~framed => Aligned(line, IF pc = "record" THEN 5 ELSE 1)

\* The phases of a transfer over a line that has lost nothing.
Asking ==
  /\ snd = "waiting"
  /\ \/ reply = <<>> /\ pc \in {"loop", "listen"} /\ retries > 0
     \/ reply = <<"C">> /\ pc = "listen"
Underway == pc = "listen" \/ (pc = "loop" /\ ~starting /\ retries > 0)
BlockSent ==
  /\ snd = "block" /\ reply = <<>> /\ next = Stored + 1
  /\ \/ line = Record(next) /\ Underway
     \/ line = Tail(Record(next)) /\ pc = "record" /\ ~starting
Answered ==
  /\ snd = "block" /\ reply = <<"ACK">> /\ next = Stored /\ line = <<>> /\ ~starting /\ Underway
EndSent ==
  /\ snd = "eot" /\ reply = <<>> /\ next = Stored + 1 /\ line = <<EOT>> /\ Underway

OnTrack ==
  CrcSender /\ faults = 0 /\ snd \notin {"idle", "cancelled"} =>
    /\ result # "retryexceed"
    /\ pc # "returned" => Asking \/ BlockSent \/ Answered \/ EndSent

IInv ==
  /\ TypeOK /\ Sending /\ NotYet /\ InStep /\ Unmistakable
  /\ PrefixReceived /\ BufferHolds
XInv == Framing /\ DoneMeansWhole /\ OnTrack
-----------------------------------------------------------------------------
(* Block numbers                                                           *)

\* A number has one quotient and one remainder.
LEMMA DivUnique ==
  ASSUME NEW m \in Nat, NEW q \in Nat, NEW r \in 0..(m - 1), NEW p \in Nat, NEW s \in 0..(m - 1),
         m * q + r = m * p + s
  PROVE  q = p /\ r = s
<1>1. ASSUME NEW a \in Nat, NEW b \in Nat, a < b PROVE m * a + m <= m * b
  <2>1. PICK k \in Nat : b = a + 1 + k
    <3>1. b - a - 1 \in Nat /\ b = a + 1 + (b - a - 1)  BY <1>1
    <3> QED  BY <3>1
  <2>2. m * b = m * a + m + m * k  BY <2>1
  <2>3. m * k >= 0  OBVIOUS
  <2> QED  BY <2>2, <2>3
<1>2. ~(q < p)  
  <2>1. m * q \in Nat /\ m * p \in Nat  OBVIOUS
  <2> QED BY <1>1, <2>1
<1>3. ~(p < q)
  <2>1. m * q \in Nat /\ m * p \in Nat  OBVIOUS
  <2> QED BY <1>1, <2>1
<1>4. q = p  BY <1>2, <1>3
<1> QED  BY <1>4

\* Block numbers count up and start again at 0.
LEMMA ModNext ==
  ASSUME NEW m \in Nat, m > 1, NEW n \in Nat
  PROVE  (n + 1) % m = IF (n % m) + 1 = m THEN 0 ELSE (n % m) + 1
<1> DEFINE
           q == n \div m
           r == n % m
           p == (n + 1) \div m
           s == (n + 1) % m
<1>1. q \in Nat /\ r \in 0..(m - 1) /\ n = m * q + r  OBVIOUS
<1>2. p \in Nat /\ s \in 0..(m - 1) /\ n + 1 = m * p + s  OBVIOUS
<1>3. CASE r + 1 = m
  <2>1. m * (q + 1) + 0 = m * p + s  BY <1>1, <1>2, <1>3
  <2>2. q + 1 \in Nat /\ 0 \in 0..(m - 1) BY <1>1
  <2> HIDE DEF q, r, p, s
  <2>3. 0 = s  BY <1>1, <1>2, <2>1, <2>2, DivUnique
  <2> QED  BY <1>3, <2>3 DEF r, s
<1>4. CASE r + 1 # m
  <2>1. m * q + (r + 1) = m * p + s  BY <1>1, <1>2
  <2>2. r + 1 \in 0..(m - 1)  BY <1>1, <1>4
  <2> HIDE DEF q, r, p, s
  <2>3. r + 1 = s  BY <1>1, <1>2, <2>1, <2>2, DivUnique
  <2> QED  BY <1>4, <2>3 DEF r, s
<1> QED  BY <1>3, <1>4

\* Counting on from a number that wrapped is counting on from the block.
LEMMA ModMod == ASSUME NEW m \in Nat, m > 1, NEW n \in Nat
  PROVE ((n % m) + 1) % m = (n + 1) % m
<1>1. n % m \in 0..(m-1)  OBVIOUS
<1>2. (n % m) % m = n % m  
  <2> DEFINE k == n % m
  <2>0. k \in Nat /\ k \in 0..(m-1) BY <1>1
  <2>1. k = m * (k \div m) + (k % m) /\ k \div m \in Nat /\ k % m \in 0..(m-1) BY <2>0
  <2> HIDE DEF k
  <2>2. m * 0 + k = m * (k \div m) + (k % m)  BY <2>1, <2>0
  <2>3. k = k % m  BY <2>0, <2>1, <2>2, DivUnique
  <2> QED  BY <2>3 DEF k
<1>3. ASSUME NEW k \in Nat PROVE (k + 1) % m = IF (k % m) + 1 = m THEN 0 ELSE (k % m) + 1
  BY <1>3, ModNext
<1>4. ((n % m) + 1) % m = IF ((n % m) % m) + 1 = m THEN 0 ELSE ((n % m) % m) + 1
  BY <1>1, <1>3
<1> QED  BY <1>2, <1>3, <1>4

\* The number of the next block is never that of the last one, and 1 does not come after 254.
LEMMA NumberNext ==
  ASSUME NEW n \in Nat
  PROVE  /\ Number(n) \in Data /\ Complement(Number(n)) \in Data
         /\ Number(Number(n) + 1) = Number(n + 1)
         /\ Number(n) # Number(n + 1)
         /\ ~(Number(n) = 254 /\ Number(n + 1) = 1)
<1>1. BlockMod \in Nat /\ BlockMod > 1 /\ BlockMod <= 256  BY XmodemAssumption
<1>2. n % BlockMod \in 0..(BlockMod - 1)  BY <1>1
<1>3. ((n % BlockMod) + 1) % BlockMod = (n + 1) % BlockMod  BY <1>1, ModMod
<1>4. (n + 1) % BlockMod = IF (n % BlockMod) + 1 = BlockMod THEN 0 ELSE (n % BlockMod) + 1
  BY <1>1, ModNext
<1> QED  BY <1>1, <1>2, <1>3, <1>4 DEF Number, Complement, Data

-----------------------------------------------------------------------------
(* What arrives                                                            *)

\* One byte less: the bytes after it move up.
LEMMA WithoutOne ==
  ASSUME NEW S, NEW s \in Seq(S), NEW i \in 1..Len(s)
  PROVE  /\ Without(s, i) \in Seq(S) /\ Len(Without(s, i)) = Len(s) - 1
         /\ \A k \in 1..(Len(s) - 1) : Without(s, i)[k] = IF k < i THEN s[k] ELSE s[k + 1]
<1> DEFINE u == SubSeq(s, 1, i - 1)
           v == SubSeq(s, i + 1, Len(s))
<1>1. u \in Seq(S) /\ Len(u) = i - 1 /\ \A k \in 1..(i - 1) : u[k] = s[k]
  OBVIOUS
<1>2. v \in Seq(S) /\ Len(v) = Len(s) - i /\ \A k \in 1..(Len(s) - i) : v[k] = s[i + k]
  OBVIOUS
<1> HIDE DEF u, v
<1>3. u \o v \in Seq(S) /\ Len(u \o v) = Len(s) - 1
  BY <1>1, <1>2
<1>4. ASSUME NEW k \in 1..(Len(s) - 1)
      PROVE  (u \o v)[k] = IF k < i THEN s[k] ELSE s[k + 1]
  <2>1. CASE k < i
    BY <1>1, <1>2, <2>1
  <2>2. CASE k >= i
    <3>1. (u \o v)[k] = v[k - (i - 1)]  BY <1>1, <1>2, <2>2
    <3>2. k - (i - 1) \in 1..(Len(s) - i)  BY <2>2
    <3>3. v[k - (i - 1)] = s[i + (k - (i - 1))]  BY <1>2, <3>2
    <3>4. i + (k - (i - 1)) = k + 1  OBVIOUS
    <3>5. (u \o v)[k] = s[k + 1]  BY <3>1, <3>3, <3>4
    <3>6. ~(k < i)  BY <2>2
    <3> QED  BY <3>5, <3>6, Zenon
  <2>3. k < i \/ k >= i  OBVIOUS
  <2> QED  BY <2>1, <2>2, <2>3, Zenon
<1> QED  BY <1>3, <1>4 DEF Without, u, v

\* Check bytes are apart from all others, and no checksum is a CRC.
LEMMA CheckBytes ==
  /\ LineBytes \subseteq Nat /\ Data \subseteq LineBytes /\ Garbled \in LineBytes
  /\ Garbled \notin Data
  /\ \A d \in Data : CheckByte(d) \in LineBytes
  /\ \A y \in Data, x \in LineBytes : y # Crc(x)
  /\ \A x \in LineBytes : Garbled # Crc(x)
  /\ \A d \in Data, x \in LineBytes : CheckByte(d) = Crc(x) => CheckByte(d) = Crc(d) /\ x = d
<1>1. LineBytes \subseteq Nat
  BY DEF LineBytes, CheckByte, Crc, Checksum, Data
<1>2. Data \subseteq LineBytes /\ Garbled \in LineBytes /\ Garbled \notin Data
  BY DEF LineBytes, Data, Garbled
<1>3. \A d \in Data : CheckByte(d) \in LineBytes
  BY DEF LineBytes
<1>4. \A y \in 0..300, x \in LineBytes : y # Crc(x)
  BY DEF LineBytes, CheckByte, Crc, Checksum, Data
<1>5. \A y \in Data, x \in LineBytes : y # Crc(x)
  BY <1>4 DEF Data
<1>6. \A x \in LineBytes : Garbled # Crc(x)
  BY <1>4 DEF Garbled
<1>7. \A d \in Data, x \in LineBytes : CheckByte(d) = Crc(x) => CheckByte(d) = Crc(d) /\ x = d
  BY DEF LineBytes, CheckByte, Crc, Checksum, Data
<1> QED  BY <1>1, <1>2, <1>3, <1>5, <1>6, <1>7

\* The bytes of a block.
LEMMA RecordBytes ==
  ASSUME NEW n \in 1..Len(File)
  PROVE  /\ Record(n) \in Seq(LineBytes) /\ Len(Record(n)) = 5
         /\ Record(n)[1] = SOH /\ Record(n)[2] = Number(n)
         /\ Record(n)[3] = Complement(Number(n)) /\ Record(n)[4] = File[n]
         /\ Record(n)[5] = CheckByte(File[n])
         /\ \A k \in 1..4 : Record(n)[k] \in Data
         /\ File[n] \in Data
<1>1. File[n] \in Data
  <2>1. File \in Seq(Data)  BY XmodemAssumption DEF Data
  <2> QED  BY <2>1, ElementOfSeq
<1>2. Number(n) \in Data /\ Complement(Number(n)) \in Data  BY NumberNext
<1>3. SOH \in Data  BY DEF SOH, Data
<1>4. Record(n) = <<SOH, Number(n), Complement(Number(n)), File[n], CheckByte(File[n])>>
  BY DEF Record, CheckByte
<1>5. CheckByte(File[n]) \in LineBytes /\ \A y \in Data : y \in LineBytes
  BY <1>1, CheckBytes
<1>6. Record(n) \in Seq(LineBytes) /\ Len(Record(n)) = 5
  BY <1>1, <1>2, <1>3, <1>4, <1>5
<1>7. \A k \in 1..4 : Record(n)[k] \in Data
  <2>1. /\ Record(n)[1] \in Data /\ Record(n)[2] \in Data /\ Record(n)[3] \in Data
        /\ Record(n)[4] \in Data
    BY <1>1, <1>2, <1>3, <1>4
  <2>2. ASSUME NEW k \in 1..4 PROVE k = 1 \/ k = 2 \/ k = 3 \/ k = 4
    OBVIOUS
  <2> QED  BY <2>1, <2>2
<1> QED  BY <1>1, <1>4, <1>6, <1>7

\* What may arrive of some bytes.
LEMMA ArrivalCases ==
  ASSUME NEW s \in Seq(LineBytes), NEW a \in Arrivals(s)
  PROVE  /\ a \in Seq(LineBytes)
         /\ \/ a = s
            \/ a = <<>>
            \/ /\ Len(a) = Len(s)
               /\ \E i \in 2..Len(s) : \A k \in 1..Len(s) :
                    a[k] = IF k = i THEN Garbled ELSE s[k]
            \/ /\ Len(a) = Len(s) - 1
               /\ \E i \in 1..Len(s) : \A k \in 1..(Len(s) - 1) :
                    a[k] = IF k < i THEN s[k] ELSE s[k + 1]
<1>1. \/ a = s \/ a = <<>>
      \/ \E i \in 2..Len(s) : a = [s EXCEPT ![i] = Garbled]
      \/ \E i \in 1..Len(s) : a = Without(s, i)
  BY DEF Arrivals
<1>2. ASSUME NEW i \in 2..Len(s), a = [s EXCEPT ![i] = Garbled]
      PROVE  /\ a \in Seq(LineBytes) /\ Len(a) = Len(s)
             /\ \A k \in 1..Len(s) : a[k] = IF k = i THEN Garbled ELSE s[k]
  <2>1. Garbled \in LineBytes  BY CheckBytes
  <2> QED  BY <1>2, <2>1
<1>3. ASSUME NEW i \in 1..Len(s), a = Without(s, i)
      PROVE  /\ a \in Seq(LineBytes) /\ Len(a) = Len(s) - 1
             /\ \A k \in 1..(Len(s) - 1) : a[k] = IF k < i THEN s[k] ELSE s[k + 1]
  BY <1>3, WithoutOne
<1>4. CASE a = s
  BY <1>4
<1>5. CASE a = <<>>
  BY <1>5
<1>6. CASE \E i \in 2..Len(s) : a = [s EXCEPT ![i] = Garbled]
  BY <1>2, <1>6
<1>7. CASE \E i \in 1..Len(s) : a = Without(s, i)
  BY <1>3, <1>7
<1> QED  BY <1>1, <1>4, <1>5, <1>6, <1>7

\* What may arrive of a block.
LEMMA RecordArrivals ==
  ASSUME NEW n \in 1..Len(File), NEW a \in Arrivals(Record(n))
  PROVE  /\ a \in Seq(LineBytes)
         /\ \/ a = Record(n)
            \/ a = <<>>
            \/ Len(a) = 5 /\ \E i \in 2..5 : \A k \in 1..5 :
                 a[k] = IF k = i THEN Garbled ELSE Record(n)[k]
            \/ Len(a) = 4 /\ \E i \in 1..5 : \A k \in 1..4 :
                 a[k] = IF k < i THEN Record(n)[k] ELSE Record(n)[k + 1]
<1> DEFINE r == Record(n)
<1>1. r \in Seq(LineBytes) /\ Len(r) = 5  BY RecordBytes
<1> HIDE DEF r
<1>2. a \in Arrivals(r)  BY DEF r
<1>3. /\ a \in Seq(LineBytes)
      /\ \/ a = r
         \/ a = <<>>
         \/ /\ Len(a) = Len(r)
            /\ \E i \in 2..Len(r) : \A k \in 1..Len(r) :
                 a[k] = IF k = i THEN Garbled ELSE r[k]
         \/ /\ Len(a) = Len(r) - 1
            /\ \E i \in 1..Len(r) : \A k \in 1..(Len(r) - 1) :
                 a[k] = IF k < i THEN r[k] ELSE r[k + 1]
  BY <1>1, <1>2, ArrivalCases, Zenon
<1>4. Len(r) - 1 = 4  BY <1>1
<1> QED  BY <1>1, <1>3, <1>4, Zenon DEF r

\* Only the last byte of a block can be the CRC of what is before it.
LEMMA OnlyLastIsCrc ==
  ASSUME NEW n \in 1..Len(File), NEW a \in Arrivals(Record(n)), NEW m \in 1..Len(a),
         NEW x \in LineBytes, a[m] = Crc(x)
  PROVE  m = Len(a) /\ Len(a) \in {4, 5} /\ a[m] = Crc(File[n])
<1> DEFINE r == Record(n)
<1>1. /\ Len(r) = 5
      /\ \A k \in 1..4 : r[k] \in Data
      /\ r[5] = CheckByte(File[n])
      /\ File[n] \in Data
  BY RecordBytes
<1>2. a[m] \notin Data /\ a[m] # Garbled
  BY CheckBytes
<1>3. r[5] = Crc(x) => r[5] = Crc(File[n])
  BY <1>1, CheckBytes
<1> HIDE DEF r
<1>5. CASE a = r
  <2>1. r[m] \notin Data /\ m \in 1..5  BY <1>1, <1>2, <1>5
  <2>2. m = 5  BY <1>1, <2>1
  <2> QED  BY <1>1, <1>3, <1>5, <2>2
<1>6. CASE a = <<>>
  BY <1>6
<1>7. ASSUME Len(a) = 5,
             NEW i \in 2..5, \A k \in 1..5 : a[k] = IF k = i THEN Garbled ELSE r[k]
      PROVE  m = 5 /\ a[m] = r[5]
  <2>1. a[m] = IF m = i THEN Garbled ELSE r[m]  BY <1>7
  <2>2. m # i  BY <1>2, <2>1
  <2>3. m = 5  BY <1>1, <1>2, <1>7, <2>1, <2>2
  <2> QED  BY <2>1, <2>2, <2>3
<1>8. ASSUME Len(a) = 4,
             NEW i \in 1..5, \A k \in 1..4 : a[k] = IF k < i THEN r[k] ELSE r[k + 1]
      PROVE  m = 4 /\ a[m] = r[5]
  <2>1. a[m] = IF m < i THEN r[m] ELSE r[m + 1]  BY <1>8
  <2>2. ~(m < i)  BY <1>1, <1>2, <1>8, <2>1
  <2>3. m = 4  BY <1>1, <1>2, <1>8, <2>1, <2>2
  <2> QED  BY <2>1, <2>2, <2>3
<1> QED
  <2>1. \/ a = r \/ a = <<>>
        \/ Len(a) = 5 /\ \E i \in 2..5 : \A k \in 1..5 : a[k] = IF k = i THEN Garbled ELSE r[k]
        \/ Len(a) = 4 /\ \E i \in 1..5 : \A k \in 1..4 :
             a[k] = IF k < i THEN r[k] ELSE r[k + 1]
    BY RecordArrivals, Zenon DEF r
  <2> QED  BY <1>3, <1>5, <1>6, <1>7, <1>8, <2>1

\* The last four bytes that arrive of block n pass for block l + 1 only if they are it.
LEMMA PassesOnlyIfNext ==
  ASSUME NEW n \in 1..Len(File), NEW a \in Arrivals(Record(n)), Len(a) \in {4, 5},
         NEW l \in Nat, n \in {l, l + 1},
         Passes(a, Len(a) - 3, Number(l + 1)), a[Len(a)] = Crc(File[n])
  PROVE  n = l + 1 /\ a[Len(a) - 1] = File[n]
<1> DEFINE r == Record(n)
           p == Number(l + 1)
<1>1. /\ Len(r) = 5
      /\ r[1] = 1 /\ r[2] = Number(n) /\ r[3] = 255 - Number(n) /\ r[4] = File[n]
      /\ File[n] \in Data
  BY RecordBytes DEF SOH, Complement
<1>2. p \in Data /\ Number(n) \in Data /\ (n = l => Number(n) # p /\ ~(Number(n) = 254 /\ p = 1))
  BY NumberNext
<1>3. a[Len(a) - 3] = p /\ a[Len(a) - 2] = 255 - p /\ a[Len(a)] = Crc(a[Len(a) - 1])
  BY DEF Passes, Complement
<1>4. a[Len(a) - 1] \in LineBytes
  <2>1. a \in Seq(LineBytes)  BY RecordArrivals
  <2>2. Len(a) = 4 \/ Len(a) = 5  OBVIOUS
  <2>3. Len(a) - 1 \in 1..Len(a)
    <3>1. 4 - 1 \in 1..4 /\ 5 - 1 \in 1..5  OBVIOUS
    <3> QED  BY <2>2, <3>1, Zenon
  <2> QED  BY <2>1, <2>3, ElementOfSeq
<1>5. a[Len(a) - 1] = File[n]
  <2>1. Crc(File[n]) = Crc(a[Len(a) - 1])  BY <1>3
  <2>2. a[Len(a) - 1] \in Nat /\ File[n] \in Nat  BY <1>1, <1>4, CheckBytes DEF Data
  <2> QED  BY <2>1, <2>2 DEF Crc
<1> HIDE DEF r, p
<1>6. Len(a) = 5 => a[2] = p /\ a[3] = 255 - p
  <2>1. 5 - 3 = 2 /\ 5 - 2 = 3  OBVIOUS
  <2> QED  BY <1>3, <2>1
<1>7. Len(a) = 4 => a[1] = p /\ a[2] = 255 - p
  <2>1. 4 - 3 = 1 /\ 4 - 2 = 2  OBVIOUS
  <2> QED  BY <1>3, <2>1
<1>8. ASSUME n = l PROVE FALSE
  <2>1. Number(n) # p /\ ~(Number(n) = 254 /\ p = 1)  BY <1>2, <1>8
  <2>2. Number(n) \in 0..255 /\ p \in 0..255  BY <1>2 DEF Data
  <2>3. CASE a = r
    BY <1>1, <1>6, <2>1, <2>3
  <2>4. ASSUME Len(a) = 5,
               NEW i \in 2..5, \A k \in 1..5 : a[k] = IF k = i THEN Garbled ELSE r[k]
        PROVE  FALSE
    <3>1. a[2] = Garbled \/ a[2] = Number(n)  BY <1>1, <2>4
    <3> QED  BY <1>6, <2>1, <2>2, <2>4, <3>1 DEF Garbled
  <2>5. ASSUME Len(a) = 4,
               NEW i \in 1..5, \A k \in 1..4 : a[k] = IF k < i THEN r[k] ELSE r[k + 1]
        PROVE  FALSE
    <3>1. a[1] = IF 1 < i THEN r[1] ELSE r[2]  BY <2>5
    <3>2. a[2] = IF 2 < i THEN r[2] ELSE r[3]  BY <2>5
    <3>3. a[1] = p /\ a[2] = 255 - p  BY <1>7, <2>5
    <3>4. i = 1 \/ i = 2 \/ i > 2  OBVIOUS
    <3>5. CASE i = 1  BY <1>1, <2>1, <3>1, <3>3, <3>5
    <3>6. CASE i = 2
      <4>1. 255 - Number(n) = 255 - p  BY <1>1, <3>2, <3>3, <3>6
      <4>2. \A x, y \in 0..255 : 255 - x = 255 - y => x = y  OBVIOUS
      <4>3. Number(n) = p  BY <2>2, <4>1, <4>2, ZenonT(60)
      <4> QED  BY <2>1, <4>3
    <3>7. CASE i > 2
      <4>1. p = 1 /\ Number(n) = 255 - p  BY <1>1, <3>1, <3>2, <3>3, <3>7
      <4>2. Number(n) = 254  BY <4>1
      <4> QED  BY <2>1, <4>1, <4>2
    <3> QED  BY <3>4, <3>5, <3>6, <3>7
  <2>6. \/ a = r \/ a = <<>>
        \/ Len(a) = 5 /\ \E i \in 2..5 : \A k \in 1..5 : a[k] = IF k = i THEN Garbled ELSE r[k]
        \/ Len(a) = 4 /\ \E i \in 1..5 : \A k \in 1..4 :
             a[k] = IF k < i THEN r[k] ELSE r[k + 1]
    BY RecordArrivals, Zenon DEF r
  <2>7. a # <<>>
    <3>1. Len(<<>>) = 0 /\ 0 \notin {4, 5}  OBVIOUS
    <3> QED  BY <3>1, Zenon
  <2> QED  BY <2>3, <2>4, <2>5, <2>6, <2>7
<1> QED  BY <1>5, <1>8

\* What may arrive of the end of the transfer.
LEMMA EotArrivals ==
  ASSUME NEW a \in Arrivals(<<EOT>>)
  PROVE  a = <<EOT>> \/ a = <<>>
<1> DEFINE s == <<EOT>>
<1>1. s \in Seq(LineBytes) /\ Len(s) = 1
  <2>1. EOT \in LineBytes  BY CheckBytes DEF EOT, Data
  <2> QED  BY <2>1
<1> HIDE DEF s
<1>2. a \in Arrivals(s)  BY DEF s
<1>3. /\ a \in Seq(LineBytes)
      /\ \/ a = s \/ a = <<>>
         \/ \E i \in 2..Len(s) : \A k \in 1..Len(s) : a[k] = IF k = i THEN Garbled ELSE s[k]
         \/ Len(a) = Len(s) - 1
  BY <1>1, <1>2, ArrivalCases, Zenon
<1>4. ~\E i \in 2..Len(s) : \A k \in 1..Len(s) : a[k] = IF k = i THEN Garbled ELSE s[k]
  BY <1>1
<1>5. Len(a) = Len(s) - 1 => a = <<>>
  BY <1>1, <1>3
<1> QED  BY <1>3, <1>4, <1>5 DEF s

-----------------------------------------------------------------------------
(* Sequences                                                               *)

\* What is appended comes after what is there.
LEMMA Joined ==
  ASSUME NEW S, NEW s \in Seq(S), NEW t \in Seq(S)
  PROVE  /\ s \o t \in Seq(S) /\ Len(s \o t) = Len(s) + Len(t)
         /\ \A k \in 1..Len(s) : (s \o t)[k] = s[k]
         /\ \A k \in 1..Len(t) : (s \o t)[Len(s) + k] = t[k]
OBVIOUS

\* What is left when the first k are taken.
LEMMA Rest ==
  ASSUME NEW S, NEW s \in Seq(S), NEW k \in 0..Len(s)
  PROVE  /\ SubSeq(s, k + 1, Len(s)) \in Seq(S)
         /\ Len(SubSeq(s, k + 1, Len(s))) = Len(s) - k
         /\ \A j \in 1..(Len(s) - k) : SubSeq(s, k + 1, Len(s))[j] = s[k + j]
OBVIOUS

\* Reading one.
LEMMA TailRest ==
  ASSUME NEW S, NEW s \in Seq(S), s # <<>>
  PROVE  /\ Tail(s) = SubSeq(s, 2, Len(s)) /\ Tail(s) \in Seq(S) /\ Len(Tail(s)) = Len(s) - 1
         /\ \A j \in 1..(Len(s) - 1) : Tail(s)[j] = s[j + 1]
         /\ Len(s) \in Nat \ {0} /\ Head(s) = s[1] /\ Head(s) \in S
OBVIOUS

\* The acknowledgements in what is sent after something else.
LEMMA AcksJoined ==
  ASSUME NEW r \in Seq(ReplyBytes), NEW s \in Seq(ReplyBytes)
  PROVE  /\ HasAck(r \o s) => HasAck(r) \/ HasAck(s)
         /\ OneAck(r) /\ OneAck(s) /\ ~(HasAck(r) /\ HasAck(s)) => OneAck(r \o s)
<1>1. ASSUME NEW i \in 1..Len(r \o s)
      PROVE  \/ i \in 1..Len(r) /\ (r \o s)[i] = r[i]
             \/ i - Len(r) \in 1..Len(s) /\ (r \o s)[i] = s[i - Len(r)]
  OBVIOUS
<1>2. HasAck(r \o s) => HasAck(r) \/ HasAck(s)
  BY <1>1, Zenon DEF HasAck
<1>3. ASSUME OneAck(r), OneAck(s), ~(HasAck(r) /\ HasAck(s)),
             NEW i \in 1..Len(r \o s), NEW j \in 1..Len(r \o s),
             (r \o s)[i] = "ACK", (r \o s)[j] = "ACK"
      PROVE  i = j
  <2>1. CASE i \in 1..Len(r) /\ (r \o s)[i] = r[i]
    <3>1. HasAck(r)  BY <1>3, <2>1 DEF HasAck
    <3>2. j \in 1..Len(r) /\ (r \o s)[j] = r[j]
      BY <1>1, <1>3, <3>1, Zenon DEF HasAck
    <3> QED  BY <1>3, <2>1, <3>2, Zenon DEF OneAck
  <2>2. CASE i - Len(r) \in 1..Len(s) /\ (r \o s)[i] = s[i - Len(r)]
    <3>1. HasAck(s)  BY <1>3, <2>2, Zenon DEF HasAck
    <3>2. j - Len(r) \in 1..Len(s) /\ (r \o s)[j] = s[j - Len(r)]
      BY <1>1, <1>3, <3>1, Zenon DEF HasAck
    <3>3. i - Len(r) = j - Len(r)  BY <1>3, <2>2, <3>2, Zenon DEF OneAck
    <3> QED  BY <3>3
  <2> QED  BY <1>1, <2>1, <2>2, Zenon
<1> QED  BY <1>2, <1>3, Zenon DEF OneAck

\* The acknowledgements left when one byte has been read.
LEMMA AcksLeft ==
  ASSUME NEW r \in Seq(ReplyBytes), r # <<>>
  PROVE  /\ HasAck(Tail(r)) => HasAck(r)
         /\ OneAck(r) => OneAck(Tail(r))
         /\ OneAck(r) /\ Head(r) = "ACK" => HasAck(r) /\ ~HasAck(Tail(r))
<1>1. ASSUME NEW i \in 1..Len(Tail(r))
      PROVE  i + 1 \in 1..Len(r) /\ Tail(r)[i] = r[i + 1] /\ i + 1 # 1
  OBVIOUS
<1>2. Head(r) = r[1] /\ 1 \in 1..Len(r)
  OBVIOUS
<1>3. HasAck(Tail(r)) => HasAck(r)
  BY <1>1, Zenon DEF HasAck
<1>4. ASSUME OneAck(r), NEW i \in 1..Len(Tail(r)), NEW j \in 1..Len(Tail(r)),
             Tail(r)[i] = "ACK", Tail(r)[j] = "ACK"
      PROVE  i = j
  <2>1. i + 1 = j + 1  BY <1>1, <1>4, Zenon DEF OneAck
  <2> QED  BY <2>1
<1>5. OneAck(r) /\ Head(r) = "ACK" => HasAck(r) /\ ~HasAck(Tail(r))
  BY <1>1, <1>2, Zenon DEF OneAck, HasAck
<1> QED  BY <1>3, <1>4, <1>5, Zenon DEF OneAck

\* What the board sends of some bytes.
LEMMA RepliedBytes ==
  ASSUME TypeOK, NEW s \in Seq(ReplyBytes)
  PROVE  /\ Replied(s) \in Seq(ReplyBytes)
         /\ snd = "idle" => Replied(s) = reply
         /\ HasAck(Replied(s)) => HasAck(reply) \/ HasAck(s)
         /\ OneAck(reply) /\ OneAck(s) /\ ~(HasAck(reply) /\ HasAck(s)) => OneAck(Replied(s))
<1>1. reply \in Seq(ReplyBytes)  BY DEF TypeOK
<1>2. reply \o s \in Seq(ReplyBytes)  BY <1>1
<1>3. CASE snd = "idle"  BY <1>1, <1>3 DEF Replied
<1>4. CASE snd # "idle"
  <2>1. Replied(s) = reply \o s  BY <1>4 DEF Replied
  <2> QED  BY <1>1, <1>2, <1>4, <2>1, AcksJoined, ZenonT(60)
<1> QED  BY <1>3, <1>4

-----------------------------------------------------------------------------
(* What passes on the line                                                 *)

\* Reading on shows no new record that passes.
LEMMA OnlyNextRest ==
  ASSUME NEW s \in Seq(LineBytes), OnlyNext(s), NEW k \in 0..Len(s)
  PROVE  OnlyNext(SubSeq(s, k + 1, Len(s)))
<1> DEFINE t == SubSeq(s, k + 1, Len(s))
<1>1. Len(t) = Len(s) - k /\ \A j \in 1..(Len(s) - k) : t[j] = s[k + j]
  BY Rest
<1> HIDE DEF t
<1>2. ASSUME NEW j \in 1..(Len(t) - 3), Passes(t, j, packnum)
      PROVE  next = Stored + 1 /\ next <= Len(File) /\ t[j + 2] = File[next]
  <2>1. k + j \in 1..(Len(s) - 3)  BY <1>1
  <2>2. /\ t[j] = s[k + j] /\ t[j + 1] = s[k + j + 1]
        /\ t[j + 2] = s[k + j + 2] /\ t[j + 3] = s[k + j + 3]
    <3>1. j \in 1..(Len(s) - k) /\ j + 1 \in 1..(Len(s) - k)
          /\ j + 2 \in 1..(Len(s) - k) /\ j + 3 \in 1..(Len(s) - k)
      BY <1>1
    <3>2. /\ t[j] = s[k + j] /\ t[j + 1] = s[k + (j + 1)]
          /\ t[j + 2] = s[k + (j + 2)] /\ t[j + 3] = s[k + (j + 3)]
      BY <1>1, <3>1, Zenon
    <3>3. k + (j + 1) = k + j + 1 /\ k + (j + 2) = k + j + 2 /\ k + (j + 3) = k + j + 3
      OBVIOUS
    <3> QED  BY <3>2, <3>3, Zenon
  <2>3. Passes(s, k + j, packnum)  BY <1>2, <2>2, Zenon DEF Passes
  <2> QED  BY <2>1, <2>2, <2>3, Zenon DEF OnlyNext
<1> QED  BY <1>2, Zenon DEF OnlyNext, t

\* An arrival a whose only CRC, if any, ends the next block brings nothing else that
\* passes, when the sender is at block n from now on.
LEMMA OnlyNextJoined ==
  ASSUME NEW s \in Seq(LineBytes), OnlyNext(s), NEW a \in Seq(LineBytes), NEW n,
         n = next \/ next # Stored + 1,
         \A m \in 1..Len(a), x \in LineBytes : a[m] = Crc(x) =>
           /\ m = Len(a) /\ Len(a) >= 4
           /\ Passes(a, Len(a) - 3, packnum) =>
                n = Stored + 1 /\ n <= Len(File) /\ a[Len(a) - 1] = File[n]
  PROVE  \A j \in 1..(Len(s \o a) - 3) : Passes(s \o a, j, packnum) =>
           n = Stored + 1 /\ n <= Len(File) /\ (s \o a)[j + 2] = File[n]
<1> DEFINE t == s \o a
<1>1. /\ t \in Seq(LineBytes) /\ Len(t) = Len(s) + Len(a)
      /\ \A k \in 1..Len(s) : t[k] = s[k]
      /\ \A k \in 1..Len(a) : t[Len(s) + k] = a[k]
  BY Joined
<1>2. Len(s) \in Nat /\ Len(a) \in Nat  OBVIOUS
<1> HIDE DEF t
<1> SUFFICES ASSUME NEW j \in 1..(Len(t) - 3), Passes(t, j, packnum)
             PROVE  n = Stored + 1 /\ n <= Len(File) /\ t[j + 2] = File[n]
  BY Zenon DEF t
<1>3. CASE j + 3 <= Len(s)
  <2>1. j \in 1..(Len(s) - 3) /\ j \in 1..Len(s) /\ j + 1 \in 1..Len(s)
        /\ j + 2 \in 1..Len(s) /\ j + 3 \in 1..Len(s)
    BY <1>2, <1>3
  <2>2. t[j] = s[j] /\ t[j + 1] = s[j + 1] /\ t[j + 2] = s[j + 2] /\ t[j + 3] = s[j + 3]
    BY <1>1, <2>1, Zenon
  <2>3. Passes(s, j, packnum)  BY <2>2, Zenon DEF Passes
  <2> QED  BY <2>1, <2>2, <2>3, Zenon DEF OnlyNext
<1>4. CASE j + 3 > Len(s)
  <2> DEFINE m == j + 3 - Len(s)
  <2>1. m \in 1..Len(a) /\ j + 3 = Len(s) + m  BY <1>1, <1>2, <1>4
  <2>2. j + 2 \in 1..Len(t)  BY <1>1, <1>2
  <2>3. t[j + 2] \in LineBytes  BY <1>1, <2>2, ElementOfSeq
  <2>4. a[m] = Crc(t[j + 2])  BY <1>1, <2>1, Zenon DEF Passes
  <2> HIDE DEF m
  <2>5. /\ m = Len(a) /\ Len(a) >= 4
        /\ Passes(a, Len(a) - 3, packnum) =>
             n = Stored + 1 /\ n <= Len(File) /\ a[Len(a) - 1] = File[n]
    BY <2>1, <2>3, <2>4, Zenon
  <2>6. /\ j = Len(s) + (Len(a) - 3) /\ j + 1 = Len(s) + (Len(a) - 3 + 1)
        /\ j + 2 = Len(s) + (Len(a) - 3 + 2) /\ j + 3 = Len(s) + (Len(a) - 3 + 3)
        /\ Len(a) - 3 \in 1..Len(a) /\ Len(a) - 3 + 1 \in 1..Len(a)
        /\ Len(a) - 3 + 2 \in 1..Len(a) /\ Len(a) - 3 + 3 \in 1..Len(a)
        /\ Len(a) - 3 + 2 = Len(a) - 1
    <3>1. j + 3 = Len(s) + Len(a) /\ Len(a) >= 4  BY <2>1, <2>5
    <3> QED  BY <1>2, <3>1
  <2>7. /\ t[j] = a[Len(a) - 3] /\ t[j + 1] = a[Len(a) - 3 + 1]
        /\ t[j + 2] = a[Len(a) - 3 + 2] /\ t[j + 3] = a[Len(a) - 3 + 3]
    BY <1>1, <2>6, Zenon
  <2>8. Passes(a, Len(a) - 3, packnum)  BY <2>7, Zenon DEF Passes
  <2> QED  BY <2>5, <2>6, <2>7, <2>8, Zenon
<1>5. j + 3 <= Len(s) \/ j + 3 > Len(s)  BY <1>2
<1> QED  BY <1>3, <1>4, <1>5, Zenon

-----------------------------------------------------------------------------
(* The steps                                                               *)

\* What sending does besides the line's bytes.
LEMMA SendTypes ==
  ASSUME TypeOK, NEW n \in 1..(Len(File) + 1), SendBlock(n)
  PROVE  /\ line' \in Seq(LineBytes) /\ faults' \in Nat /\ framed' \in BOOLEAN
         /\ next' = n
         /\ \/ snd' = "block" /\ n <= Len(File)
               /\ \E a \in Arrivals(Record(n)) : line' = line \o a
            \/ snd' = "eot" /\ n = Len(File) + 1
               /\ \E a \in Arrivals(<<EOT>>) : line' = line \o a
<1>0. line \in Seq(LineBytes) /\ faults \in Nat /\ framed \in BOOLEAN  BY DEF TypeOK
<1>1. Len(File) \in Nat  BY XmodemAssumption
<1>2. CASE n <= Len(File)
  <2>1. Transmit(Record(n)) /\ snd' = "block" /\ next' = n  BY <1>2 DEF SendBlock
  <2>2. PICK a \in Arrivals(Record(n)) :
          /\ line' = line \o a
          /\ faults' = IF a = Record(n) THEN faults ELSE faults + 1
          /\ framed' = (framed \/ Len(a) \in 1..(Len(Record(n)) - 1))
    BY <2>1 DEF Transmit
  <2>3. n \in 1..Len(File)  BY <1>1, <1>2
  <2>4. a \in Seq(LineBytes)  BY <2>3, RecordArrivals
  <2>5. line' \in Seq(LineBytes)  BY <1>0, <2>2, <2>4, Joined, Zenon
  <2>6. faults' \in Nat /\ framed' \in BOOLEAN  BY <1>0, <2>2
  <2> QED  BY <1>2, <2>1, <2>2, <2>5, <2>6, Zenon
<1>3. CASE ~(n <= Len(File))
  <2>1. Transmit(<<EOT>>) /\ snd' = "eot" /\ next' = n  BY <1>3 DEF SendBlock
  <2>2. PICK a \in Arrivals(<<EOT>>) :
          /\ line' = line \o a
          /\ faults' = IF a = <<EOT>> THEN faults ELSE faults + 1
          /\ framed' = (framed \/ Len(a) \in 1..(Len(<<EOT>>) - 1))
    BY <2>1 DEF Transmit
  <2>3. n = Len(File) + 1  BY <1>1, <1>3
  <2>4. a \in Seq(LineBytes)
    <3>1. <<EOT>> \in Seq(LineBytes) /\ <<>> \in Seq(LineBytes)
      <4>1. EOT \in LineBytes  BY CheckBytes DEF EOT, Data
      <4> QED  BY <4>1
    <3> QED  BY <3>1, EotArrivals, Zenon
  <2>5. line' \in Seq(LineBytes)  BY <1>0, <2>2, <2>4, Joined, Zenon
  <2>6. faults' \in Nat /\ framed' \in BOOLEAN  BY <1>0, <2>2
  <2> QED  BY <2>1, <2>2, <2>3, <2>5, <2>6, Zenon
<1> QED  BY <1>2, <1>3

\* One byte that is no CRC brings nothing that passes.
LEMMA NoCrc ==
  ASSUME NEW b \in Data, NEW m \in 1..Len(<<b>>), NEW x \in LineBytes
  PROVE  <<b>>[m] # Crc(x)
<1>1. m = 1  OBVIOUS
<1>2. <<b>>[1] = b  OBVIOUS
<1> QED  BY <1>1, <1>2, CheckBytes, Zenon

\* Whatever arrives of a block the sender is right to send, what passes is the next one.
LEMMA SendUnmistakable ==
  ASSUME TypeOK, InStep, Unmistakable, pc # "returned",
         NEW n \in 1..(Len(File) + 1), n \in {Stored, Stored + 1},
         n = next \/ next # Stored + 1, SendBlock(n)
  PROVE  \A j \in 1..(Len(line') - 3) : Passes(line', j, packnum) =>
           n = Stored + 1 /\ n <= Len(File) /\ line'[j + 2] = File[n]
<1>0. line \in Seq(LineBytes) /\ Stored \in Nat /\ packnum = Number(Stored + 1) /\ OnlyNext(line)
  BY DEF TypeOK, InStep, Unmistakable, Stored
<1>1. CASE \E a \in Arrivals(Record(n)) : n <= Len(File) /\ line' = line \o a
  <2>1. PICK a \in Arrivals(Record(n)) : n <= Len(File) /\ line' = line \o a  BY <1>1
  <2>2. n \in 1..Len(File)
    <3>1. Len(File) \in Nat  BY XmodemAssumption
    <3> QED  BY <2>1, <3>1
  <2>3. a \in Seq(LineBytes)  BY <2>2, RecordArrivals
  <2>4. ASSUME NEW m \in 1..Len(a), NEW x \in LineBytes, a[m] = Crc(x)
        PROVE  /\ m = Len(a) /\ Len(a) >= 4
               /\ Passes(a, Len(a) - 3, packnum) =>
                    n = Stored + 1 /\ n <= Len(File) /\ a[Len(a) - 1] = File[n]
    <3>1. m = Len(a) /\ Len(a) \in {4, 5} /\ a[m] = Crc(File[n])
      BY <2>2, <2>4, OnlyLastIsCrc, Zenon
    <3>2. Len(a) >= 4  BY <3>1
    <3>3. a[Len(a)] = Crc(File[n])  BY <3>1, Zenon
    <3>4. ASSUME Passes(a, Len(a) - 3, packnum)
          PROVE  n = Stored + 1 /\ a[Len(a) - 1] = File[n]
      <4>1. Passes(a, Len(a) - 3, Number(Stored + 1))  BY <1>0, <3>4, Zenon
      <4> QED  BY <1>0, <2>2, <3>1, <3>3, <4>1, PassesOnlyIfNext, Zenon
    <3> QED  BY <2>1, <3>1, <3>2, <3>4, Zenon
  <2>5. \A j \in 1..(Len(line \o a) - 3) : Passes(line \o a, j, packnum) =>
          n = Stored + 1 /\ n <= Len(File) /\ (line \o a)[j + 2] = File[n]
    BY <1>0, <2>3, <2>4, OnlyNextJoined, ZenonT(60)
  <2> QED  BY <2>1, <2>5, Zenon
<1>2. CASE \E a \in Arrivals(<<EOT>>) : line' = line \o a
  <2>1. PICK a \in Arrivals(<<EOT>>) : line' = line \o a  BY <1>2
  <2>2. EOT \in Data /\ EOT \in LineBytes  BY CheckBytes DEF EOT, Data
  <2>3. a \in Seq(LineBytes) /\ \A m \in 1..Len(a), x \in LineBytes : a[m] # Crc(x)
    <3>1. CASE a = <<EOT>>
      <4>1. <<EOT>> \in Seq(LineBytes)  BY <2>2
      <4> QED  BY <2>2, <3>1, <4>1, NoCrc, Zenon
    <3>2. CASE a = <<>>
      <4>1. <<>> \in Seq(LineBytes) /\ \A m \in 1..Len(<<>>) : FALSE  OBVIOUS
      <4> QED  BY <3>2, <4>1, Zenon
    <3> QED  BY <2>1, <3>1, <3>2, EotArrivals
  <2>4. \A m \in 1..Len(a), x \in LineBytes : a[m] = Crc(x) =>
          /\ m = Len(a) /\ Len(a) >= 4
          /\ Passes(a, Len(a) - 3, packnum) =>
               n = Stored + 1 /\ n <= Len(File) /\ a[Len(a) - 1] = File[n]
    BY <2>3, Zenon
  <2>5. \A j \in 1..(Len(line \o a) - 3) : Passes(line \o a, j, packnum) =>
          n = Stored + 1 /\ n <= Len(File) /\ (line \o a)[j + 2] = File[n]
    BY <1>0, <2>3, <2>4, OnlyNextJoined, Zenon
  <2> QED  BY <2>1, <2>5, Zenon
<1> QED  BY <1>1, <1>2, SendTypes, Zenon

\* Initially.
LEMMA InitIInv == Init => IInv
<1> SUFFICES ASSUME Init PROVE IInv  OBVIOUS
<1>1. Len(File) \in Nat /\ RetryLimit \in Nat /\ InitialBlocks \in Nat  BY XmodemAssumption
<1>2. Number(1) \in Nat
  <2>1. 1 \in Nat /\ Data \subseteq Nat  BY DEF Data
  <2> QED  BY <2>1, NumberNext, Zenon
<1>3. /\ line \in Seq(LineBytes) /\ reply \in Seq(ReplyBytes) /\ received \in Seq(LineBytes)
      /\ Len(line) = 0 /\ Len(reply) = 0 /\ Len(received) = 0
  BY DEF Init
<1>4. TypeOK
  <2>1. next \in 1..(Len(File) + 1) /\ faults \in Nat  BY <1>1 DEF Init
  <2>2. packnum \in Nat /\ retries \in Nat /\ limit \in Nat  BY <1>1, <1>2, Zenon DEF Init
  <2>3. starting \in BOOLEAN /\ framed \in BOOLEAN  BY DEF Init
  <2>4. pc \in {"loop", "listen", "record", "returned"}
        /\ result \in {"none", "done", "remotecancel", "retryexceed", "outofmem"}
        /\ snd \in {"idle", "waiting", "block", "eot", "ended", "cancelled"}
    BY DEF Init
  <2> QED  BY <1>3, <2>1, <2>2, <2>3, <2>4, Zenon DEF TypeOK
<1>5. Sending /\ NotYet  BY <1>3 DEF Init, Sending, NotYet, Stored
<1>6. InStep  BY <1>3 DEF Init, InStep, Stored, OneAck, HasAck
<1>7. Unmistakable  BY <1>3 DEF Unmistakable, OnlyNext
<1>8. PrefixReceived /\ BufferHolds
  BY <1>1, <1>3 DEF Init, PrefixReceived, IsPrefixOfFile, BufferHolds
<1> QED  BY <1>4, <1>5, <1>6, <1>7, <1>8 DEF IInv

\* A return says nothing of the line any more, and keeps what was stored.
LEMMA ReturnIInv ==
  ASSUME IInv, NEW r, NEW s \in Seq(ReplyBytes), Return(r, s),
         r \in {"done", "remotecancel", "retryexceed", "outofmem"},
         received' = received, limit' \in Nat, limit' >= limit,
         retries' \in Nat, packnum' \in Nat, starting' \in BOOLEAN,
         UNCHANGED <<senderVars, faults, framed>>
  PROVE  IInv'
<1>1. pc' = "returned" /\ result' = r /\ line' = <<>> /\ reply' = Replied(s)  BY DEF Return
<1>2. reply' \in Seq(ReplyBytes) /\ line' \in Seq(LineBytes)
  <2>1. Replied(s) \in Seq(ReplyBytes)  BY RepliedBytes, Zenon DEF IInv
  <2>2. <<>> \in Seq(LineBytes)  OBVIOUS
  <2> QED  BY <1>1, <2>1, <2>2, Zenon
<1>3. TypeOK'
  <2>1. pc' \in {"loop", "listen", "record", "returned"}
        /\ result' \in {"none", "done", "remotecancel", "retryexceed", "outofmem"}
    BY <1>1
  <2>2. snd' = snd /\ next' = next /\ faults' = faults /\ framed' = framed
    BY DEF senderVars
  <2> QED  BY <1>2, <2>1, <2>2, Zenon DEF IInv, TypeOK
<1>4. Sending' /\ NotYet' /\ InStep' /\ Unmistakable'
  BY <1>1 DEF IInv, Sending, NotYet, InStep, Unmistakable, senderVars
<1>5. PrefixReceived' /\ BufferHolds'
  <2>1. Len(received) \in Nat /\ limit \in Nat  BY DEF IInv, TypeOK
  <2> QED  BY <2>1 DEF IInv, PrefixReceived, IsPrefixOfFile, BufferHolds
<1> QED  BY <1>3, <1>4, <1>5 DEF IInv

\* Answers without an ACK.
LEMMA NoAcks ==
  /\ <<"C">> \in Seq(ReplyBytes) /\ <<"NAK">> \in Seq(ReplyBytes) /\ <<"ACK">> \in Seq(ReplyBytes)
  /\ <<"CAN", "CAN", "CAN">> \in Seq(ReplyBytes)
  /\ OneAck(<<"C">>) /\ OneAck(<<"NAK">>) /\ OneAck(<<"ACK">>)
  /\ ~HasAck(<<"C">>) /\ ~HasAck(<<"NAK">>)
<1>1. <<"C">> \in Seq(ReplyBytes) /\ <<"NAK">> \in Seq(ReplyBytes) /\ <<"ACK">> \in Seq(ReplyBytes)
  BY DEF ReplyBytes
<1>2. <<"CAN", "CAN", "CAN">> \in Seq(ReplyBytes)
  BY DEF ReplyBytes
<1>3. OneAck(<<"C">>) /\ OneAck(<<"NAK">>) /\ OneAck(<<"ACK">>)
  BY DEF OneAck
<1>4. ~HasAck(<<"C">>) /\ ~HasAck(<<"NAK">>)
  BY DEF HasAck
<1> QED  BY <1>1, <1>2, <1>3, <1>4

\* The loop asks again, or gives up.
LEMMA LoopIInv ==
  ASSUME IInv, Loop
  PROVE  IInv'
<1>0. /\ pc = "loop" /\ UNCHANGED <<starting, packnum, limit, received, senderVars, faults, framed>>
  BY DEF Loop
<1>t. TypeOK  BY DEF IInv
<1>1. CASE retries = 0
  <2>1. Return("retryexceed", <<"CAN", "CAN", "CAN">>) /\ retries' = retries
    BY <1>1 DEF Loop
  <2>2. <<"CAN", "CAN", "CAN">> \in Seq(ReplyBytes)  BY NoAcks
  <2>3. limit' \in Nat /\ limit' >= limit /\ retries' \in Nat /\ packnum' \in Nat
        /\ starting' \in BOOLEAN
    BY <1>0, <1>t, <2>1 DEF TypeOK
  <2>4. received' = received /\ UNCHANGED <<senderVars, faults, framed>>  BY <1>0
  <2>5. "retryexceed" \in {"done", "remotecancel", "retryexceed", "outofmem"}  OBVIOUS
  <2> QED  BY <2>1, <2>2, <2>3, <2>4, <2>5, ReturnIInv, Zenon
<1>2. CASE retries # 0
  <2>1. /\ retries' = retries - 1 /\ pc' = "listen"
        /\ reply' = IF starting THEN Replied(<<"C">>) ELSE reply
        /\ line' = line /\ result' = result
    BY <1>2 DEF Loop
  <2>2. /\ reply' \in Seq(ReplyBytes)
        /\ OneAck(reply) => OneAck(reply')
        /\ HasAck(reply') => HasAck(reply)
        /\ snd = "idle" => reply' = reply
    <3>1. CASE starting
      <4>1. reply' = Replied(<<"C">>)  BY <2>1, <3>1
      <4>2. /\ Replied(<<"C">>) \in Seq(ReplyBytes)
            /\ snd = "idle" => Replied(<<"C">>) = reply
            /\ HasAck(Replied(<<"C">>)) => HasAck(reply) \/ HasAck(<<"C">>)
            /\ OneAck(reply) /\ OneAck(<<"C">>) /\ ~(HasAck(reply) /\ HasAck(<<"C">>))
                 => OneAck(Replied(<<"C">>))
        BY <1>t, NoAcks, RepliedBytes, Zenon
      <4> QED  BY <4>1, <4>2, NoAcks, Zenon
    <3>2. CASE ~starting
      BY <1>t, <2>1, <3>2 DEF TypeOK
    <3> QED  BY <3>1, <3>2
  <2>3. TypeOK'
    <3>1. retries' \in Nat  BY <1>2, <1>t, <2>1 DEF TypeOK
    <3> QED  BY <1>0, <1>t, <2>1, <2>2, <3>1 DEF TypeOK, senderVars
  <2>4. Sending' /\ NotYet'
    BY <1>0, <2>1, <2>2 DEF IInv, Sending, NotYet, Stored, senderVars
  <2>5. InStep'
    BY <1>0, <2>1, <2>2 DEF IInv, InStep, Stored, senderVars
  <2>6. Unmistakable'
    BY <1>0, <2>1 DEF IInv, Unmistakable, OnlyNext, Passes, Stored, senderVars
  <2>7. PrefixReceived' /\ BufferHolds'
    BY <1>0 DEF IInv, PrefixReceived, IsPrefixOfFile, BufferHolds
  <2> QED  BY <2>3, <2>4, <2>5, <2>6, <2>7 DEF IInv
<1> QED  BY <1>1, <1>2

\* Bytes that are read and dropped leave the sides in step.
LEMMA DropIInv ==
  ASSUME IInv, pc # "returned", snd \notin {"idle", "waiting"}, NEW k \in 0..Len(line),
         line' = SubSeq(line, k + 1, Len(line)),
         pc' \in {"loop", "record"}, starting' \in BOOLEAN,
         reply' = reply \/ reply' = Replied(<<"NAK">>),
         UNCHANGED <<packnum, retries, limit, received, result, senderVars, faults, framed>>
  PROVE  IInv'
<1>0. TypeOK /\ line \in Seq(LineBytes)  BY DEF IInv, TypeOK
<1>1. reply' \in Seq(ReplyBytes) /\ (OneAck(reply) => OneAck(reply')) /\ (HasAck(reply') => HasAck(reply))
  <2>1. /\ Replied(<<"NAK">>) \in Seq(ReplyBytes)
        /\ HasAck(Replied(<<"NAK">>)) => HasAck(reply) \/ HasAck(<<"NAK">>)
        /\ OneAck(reply) /\ OneAck(<<"NAK">>) /\ ~(HasAck(reply) /\ HasAck(<<"NAK">>))
             => OneAck(Replied(<<"NAK">>))
    BY <1>0, NoAcks, RepliedBytes, Zenon
  <2>2. reply \in Seq(ReplyBytes)  BY <1>0 DEF TypeOK
  <2> QED  BY <2>1, <2>2, NoAcks, Zenon
<1>2. line' \in Seq(LineBytes)  BY <1>0, Rest, Zenon
<1>3. TypeOK'
  BY <1>0, <1>1, <1>2 DEF TypeOK, senderVars
<1>4. Sending' /\ NotYet'
  BY DEF IInv, Sending, NotYet, senderVars
<1>5. InStep'
  BY <1>1 DEF IInv, InStep, Stored, senderVars
<1>6. Unmistakable'
  <2>1. OnlyNext(SubSeq(line, k + 1, Len(line)))
    <3>1. OnlyNext(line)  BY DEF IInv, Unmistakable
    <3> QED  BY <1>0, <3>1, OnlyNextRest, Zenon
  <2>2. OnlyNext(line)'
    BY <2>1 DEF OnlyNext, Passes, Stored, senderVars
  <2> QED  BY <2>2 DEF Unmistakable
<1>7. PrefixReceived' /\ BufferHolds'
  BY DEF IInv, PrefixReceived, IsPrefixOfFile, BufferHolds
<1> QED  BY <1>3, <1>4, <1>5, <1>6, <1>7 DEF IInv

\* A byte is heard.
LEMMA ListenIInv ==
  ASSUME IInv, Listen
  PROVE  IInv'
<1>0. /\ pc = "listen" /\ line # <<>>
      /\ UNCHANGED <<packnum, retries, limit, received, senderVars, faults, framed>>
  BY DEF Listen
<1>t. TypeOK /\ line \in Seq(LineBytes)  BY DEF IInv, TypeOK
<1>1. CASE Head(line) \in {EOT, CAN}
  <2> DEFINE r == IF Head(line) = EOT THEN "done" ELSE "remotecancel"
  <2>1. Return(r, <<"ACK">>) /\ starting' = starting
    BY <1>1 DEF Listen
  <2>2. <<"ACK">> \in Seq(ReplyBytes)  BY NoAcks
  <2>3. limit' \in Nat /\ limit' >= limit /\ retries' \in Nat /\ packnum' \in Nat
        /\ starting' \in BOOLEAN
    BY <1>0, <1>t, <2>1 DEF TypeOK
  <2>4. received' = received /\ UNCHANGED <<senderVars, faults, framed>>  BY <1>0
  <2>5. r \in {"done", "remotecancel", "retryexceed", "outofmem"}  OBVIOUS
  <2> HIDE DEF r
  <2> QED  BY <2>1, <2>2, <2>3, <2>4, <2>5, ReturnIInv, Zenon
<1>2. CASE Head(line) \notin {EOT, CAN}
  <2>1. /\ line' = Tail(line) /\ pc' = IF Head(line) = SOH THEN "record" ELSE "loop"
        /\ starting' = (starting /\ Head(line) # SOH)
        /\ reply' = reply /\ result' = result
    BY <1>2 DEF Listen
  <2>2. 1 \in 0..Len(line) /\ line' = SubSeq(line, 1 + 1, Len(line))
    BY <1>0, <1>t, <2>1, TailRest
  <2>3. pc # "returned" /\ snd \notin {"idle", "waiting"}
    BY <1>0 DEF IInv, NotYet
  <2>4. pc' \in {"loop", "record"} /\ starting' \in BOOLEAN
    BY <2>1
  <2>5. UNCHANGED <<packnum, retries, limit, received, result, senderVars, faults, framed>>
    BY <1>0, <2>1
  <2> QED  BY <2>1, <2>2, <2>3, <2>4, <2>5, DropIInv, Zenon
<1> QED  BY <1>1, <1>2

\* Nothing is heard.
LEMMA ListenTimeoutIInv ==
  ASSUME IInv, ListenTimeout
  PROVE  IInv'
<1>1. /\ pc = "listen" /\ pc' = "loop"
      /\ UNCHANGED <<line, reply, starting, packnum, retries, limit, received, result, senderVars,
                     faults, framed>>
  BY DEF ListenTimeout
<1>2. TypeOK' /\ Sending' /\ NotYet'
  BY <1>1 DEF IInv, TypeOK, Sending, NotYet, Stored, senderVars
<1>3. InStep'
  BY <1>1 DEF IInv, InStep, Stored, senderVars
<1>4. Unmistakable'
  BY <1>1 DEF IInv, Unmistakable, OnlyNext, Passes, Stored, senderVars
<1>5. PrefixReceived' /\ BufferHolds'
  BY <1>1 DEF IInv, PrefixReceived, IsPrefixOfFile, BufferHolds
<1> QED  BY <1>2, <1>3, <1>4, <1>5 DEF IInv

\* A record is refused.
LEMMA BadRecordIInv ==
  ASSUME IInv, BadRecord
  PROVE  IInv'
<1>0. /\ pc = "record" /\ pc' = "loop" /\ reply' = Replied(<<"NAK">>)
      /\ UNCHANGED <<starting, packnum, retries, limit, received, result, senderVars, faults, framed>>
  BY DEF BadRecord
<1>t. line \in Seq(LineBytes) /\ starting \in BOOLEAN  BY DEF IInv, TypeOK
<1>1. pc # "returned" /\ snd \notin {"idle", "waiting"}
  BY <1>0 DEF IInv, NotYet
<1>2. pc' \in {"loop", "record"} /\ starting' \in BOOLEAN
      /\ UNCHANGED <<packnum, retries, limit, received, result, senderVars, faults, framed>>
  BY <1>0, <1>t
<1>3. CASE Len(line) >= 4 /\ line' = SubSeq(line, 5, Len(line))
  <2>1. 4 \in 0..Len(line) /\ 4 + 1 = 5  BY <1>t, <1>3
  <2>2. line' = SubSeq(line, 4 + 1, Len(line))  BY <1>3, <2>1, Zenon
  <2> QED  BY <1>0, <1>1, <1>2, <2>1, <2>2, DropIInv, Zenon
<1>4. CASE line' = <<>>
  <2> DEFINE k == Len(line)
  <2>1. k \in 0..Len(line) /\ line' = SubSeq(line, k + 1, Len(line))
    BY <1>t, <1>4
  <2> HIDE DEF k
  <2> QED  BY <1>0, <1>1, <1>2, <2>1, DropIInv, Zenon
<1> QED  BY <1>3, <1>4 DEF BadRecord

\* A record that passes is the next block: the file that is stored grows by it.
LEMMA StoreRecordIInv ==
  ASSUME IInv, StoreRecord
  PROVE  IInv' /\ line[3] = File[Stored + 1] /\ next = Stored + 1
<1>0. /\ pc = "record" /\ pc' = "loop" /\ Len(line) >= 4 /\ GoodRecord(line)
      /\ line' = <<>> /\ retries' = RetryLimit
      /\ packnum' = Number(packnum + 1)
      /\ limit' = IF NeedsMore THEN limit + MoreBlocks ELSE limit
      /\ reply' = Replied(<<"ACK">>) /\ received' = Append(received, line[3])
      /\ UNCHANGED <<starting, result, senderVars, faults, framed>>
  BY DEF StoreRecord
<1>t. /\ TypeOK /\ line \in Seq(LineBytes) /\ received \in Seq(LineBytes) /\ Stored \in Nat
      /\ Len(line) \in Nat
  BY DEF IInv, TypeOK, Stored
<1>1. next = Stored + 1 /\ next <= Len(File) /\ line[3] = File[next]
  <2>1. 1 \in 1..(Len(line) - 3) /\ 1 + 1 = 2 /\ 1 + 2 = 3 /\ 1 + 3 = 4  BY <1>0, <1>t
  <2>2. OnlyNext(line)  BY <1>0 DEF IInv, Unmistakable
  <2>3. Passes(line, 1, packnum)  BY <1>0, <2>1, Zenon DEF Passes, GoodRecord
  <2> QED  BY <2>1, <2>2, <2>3, Zenon DEF OnlyNext
<1>2. line[3] \in LineBytes
  <2>1. 3 \in 1..Len(line)  BY <1>0, <1>t
  <2> QED  BY <1>t, <2>1, ElementOfSeq
<1>3. /\ received' \in Seq(LineBytes) /\ Len(received') = Stored + 1
      /\ \A i \in 1..Stored : received'[i] = received[i]
      /\ received'[Stored + 1] = line[3]
  BY <1>0, <1>t, <1>2, AppendProperties DEF Stored
<1>4. packnum = Number(Stored + 1) /\ packnum' = Number(Stored + 2)
  <2>1. packnum = Number(Stored + 1)  BY <1>0 DEF IInv, InStep
  <2>2. Stored + 1 \in Nat /\ Stored + 1 + 1 = Stored + 2  BY <1>t
  <2>3. Number(Number(Stored + 1) + 1) = Number(Stored + 1 + 1)  BY <2>2, NumberNext, Zenon
  <2> QED  BY <1>0, <2>1, <2>2, <2>3, Zenon
<1>5. ~HasAck(reply)
  <2>1. HasAck(reply) => next = Stored  BY <1>0 DEF IInv, InStep
  <2> QED  BY <1>t, <1>1, <2>1
<1>6. reply' \in Seq(ReplyBytes) /\ OneAck(reply')
  <2>1. OneAck(reply)  BY <1>0 DEF IInv, InStep
  <2>2. /\ Replied(<<"ACK">>) \in Seq(ReplyBytes)
        /\ OneAck(reply) /\ OneAck(<<"ACK">>) /\ ~(HasAck(reply) /\ HasAck(<<"ACK">>))
             => OneAck(Replied(<<"ACK">>))
    BY <1>t, NoAcks, RepliedBytes, Zenon
  <2> QED  BY <1>0, <1>5, <2>1, <2>2, NoAcks, Zenon
<1>7. limit' \in Nat /\ Stored + 1 <= limit'
  <2>1. limit \in Nat /\ MoreBlocks \in Nat \ {0} /\ Stored <= limit
    BY XmodemAssumption DEF IInv, TypeOK, BufferHolds, Stored
  <2> QED  BY <1>0, <1>t, <2>1 DEF NeedsMore, Stored
<1>8. TypeOK'
  <2>1. line' \in Seq(LineBytes)  BY <1>0
  <2>2. packnum' \in Nat
    <3>1. Stored + 2 \in Nat /\ Data \subseteq Nat  BY <1>t DEF Data
    <3> QED  BY <1>4, <3>1, NumberNext, Zenon
  <2>3. retries' \in Nat  BY <1>0, XmodemAssumption
  <2> QED  BY <1>0, <1>t, <1>3, <1>6, <1>7, <2>1, <2>2, <2>3 DEF TypeOK, senderVars
<1>9. Sending' /\ NotYet'
  <2>1. snd \notin {"idle", "waiting"}  BY <1>0 DEF IInv, NotYet
  <2> QED  BY <1>0, <2>1 DEF IInv, Sending, NotYet, senderVars
<1>10. InStep'
  <2>1. Stored' = Stored + 1  BY <1>3 DEF Stored
  <2>2. next' = Stored' /\ packnum' = Number(Stored' + 1)
    <3>1. Stored + 1 + 1 = Stored + 2  BY <1>t
    <3>2. next' = next  BY <1>0 DEF senderVars
    <3> QED  BY <1>1, <1>4, <2>1, <3>1, <3>2, Zenon
  <2> QED  BY <1>6, <2>2 DEF InStep
<1>11. Unmistakable'
  <2>1. Len(line') = 0  BY <1>0
  <2> QED  BY <2>1 DEF Unmistakable, OnlyNext
<1>12. PrefixReceived'
  <2>1. Len(received') <= Len(File)  BY <1>1, <1>3
  <2>2. ASSUME NEW i \in 1..Len(received') PROVE received'[i] = File[i]
    <3>1. CASE i = Stored + 1  BY <1>1, <1>3, <3>1
    <3>2. CASE i # Stored + 1
      <4>1. i \in 1..Stored  BY <1>t, <1>3, <3>2
      <4> QED  BY <1>3, <4>1 DEF IInv, PrefixReceived, IsPrefixOfFile, Stored
    <3> QED  BY <3>1, <3>2
  <2> QED  BY <2>1, <2>2 DEF PrefixReceived, IsPrefixOfFile
<1>13. BufferHolds'
  BY <1>3, <1>7 DEF BufferHolds
<1> QED  BY <1>1, <1>8, <1>9, <1>10, <1>11, <1>12, <1>13 DEF IInv

\* No room can be had for it.
LEMMA OutOfMemoryIInv ==
  ASSUME IInv, OutOfMemory
  PROVE  IInv'
<1>1. /\ Return("outofmem", <<"CAN", "CAN", "CAN">>) /\ limit' = limit + MoreBlocks
      /\ retries' = RetryLimit /\ packnum' = Number(packnum + 1)
      /\ UNCHANGED <<starting, received, senderVars, faults, framed>>
  BY DEF OutOfMemory
<1>2. <<"CAN", "CAN", "CAN">> \in Seq(ReplyBytes)  BY NoAcks
<1>3. limit' \in Nat /\ limit' >= limit /\ retries' \in Nat /\ starting' \in BOOLEAN
  BY <1>1, XmodemAssumption DEF IInv, TypeOK
<1>4. packnum' \in Nat
  <2>1. packnum + 1 \in Nat /\ Data \subseteq Nat  BY DEF IInv, TypeOK, Data
  <2> QED  BY <1>1, <2>1, NumberNext, Zenon
<1>5. received' = received /\ UNCHANGED <<senderVars, faults, framed>>  BY <1>1
<1>6. "outofmem" \in {"done", "remotecancel", "retryexceed", "outofmem"}  OBVIOUS
<1> QED  BY <1>1, <1>2, <1>3, <1>4, <1>5, <1>6, ReturnIInv, Zenon

\* The sender sends the block it is right to send.
LEMMA SendIInv ==
  ASSUME IInv, snd \in {"waiting", "block", "eot"}, NEW n \in 1..(Len(File) + 1), SendBlock(n),
         reply' \in Seq(ReplyBytes), UNCHANGED boardVars,
         pc # "returned" => /\ n \in {Stored, Stored + 1} /\ (n = next \/ next # Stored + 1)
                            /\ OneAck(reply') /\ (HasAck(reply') => n = Stored)
  PROVE  IInv'
<1>t. TypeOK  BY DEF IInv
<1>b. /\ pc' = pc /\ starting' = starting /\ packnum' = packnum /\ retries' = retries
      /\ limit' = limit /\ received' = received /\ result' = result /\ Stored' = Stored
  BY DEF boardVars, Stored
<1>1. /\ line' \in Seq(LineBytes) /\ faults' \in Nat /\ framed' \in BOOLEAN /\ next' = n
      /\ (snd' = "block" /\ n <= Len(File)) \/ (snd' = "eot" /\ n = Len(File) + 1)
  BY <1>t, SendTypes
<1>2. TypeOK'
  BY <1>t, <1>b, <1>1 DEF TypeOK
<1>3. Sending' /\ NotYet'
  BY <1>b, <1>1 DEF IInv, Sending, NotYet
<1>4. InStep'
  BY <1>b, <1>1 DEF IInv, InStep
<1>5. Unmistakable'
  <2>1. SUFFICES ASSUME pc # "returned" PROVE OnlyNext(line)'
    BY <1>b DEF Unmistakable
  <2>2. \A j \in 1..(Len(line') - 3) : Passes(line', j, packnum) =>
          n = Stored + 1 /\ n <= Len(File) /\ line'[j + 2] = File[n]
    <3>1. InStep /\ Unmistakable  BY DEF IInv
    <3> QED  BY <1>t, <2>1, <3>1, SendUnmistakable, Zenon
  <2> QED  BY <1>b, <1>1, <2>2, Zenon DEF OnlyNext, Passes
<1>6. PrefixReceived' /\ BufferHolds'
  BY <1>b DEF IInv, PrefixReceived, IsPrefixOfFile, BufferHolds
<1> QED  BY <1>2, <1>3, <1>4, <1>5, <1>6 DEF IInv

\* An answer that is read or lost.
LEMMA AnswerGoneIInv ==
  ASSUME IInv, reply # <<>>, reply' = Tail(reply), UNCHANGED <<line, next, boardVars>>,
         snd' \in {snd, "ended"}, faults' \in Nat, framed' \in BOOLEAN
  PROVE  IInv'
<1>t. TypeOK /\ reply \in Seq(ReplyBytes)  BY DEF IInv, TypeOK
<1>b. /\ pc' = pc /\ starting' = starting /\ packnum' = packnum /\ retries' = retries
      /\ limit' = limit /\ received' = received /\ result' = result /\ Stored' = Stored
      /\ line' = line /\ next' = next
  BY DEF boardVars, Stored
<1>1. reply' \in Seq(ReplyBytes)  BY <1>t
<1>2. TypeOK'
  BY <1>t, <1>b, <1>1 DEF TypeOK
<1>3. Sending' /\ NotYet'
  BY <1>b DEF IInv, Sending, NotYet
<1>4. InStep'
  <2>1. (HasAck(reply') => HasAck(reply)) /\ (OneAck(reply) => OneAck(reply'))
    BY <1>t, AcksLeft, Zenon
  <2> QED  BY <1>b, <2>1 DEF IInv, InStep
<1>5. Unmistakable'
  BY <1>b DEF IInv, Unmistakable, OnlyNext, Passes
<1>6. PrefixReceived' /\ BufferHolds'
  BY <1>b DEF IInv, PrefixReceived, IsPrefixOfFile, BufferHolds
<1> QED  BY <1>2, <1>3, <1>4, <1>5, <1>6 DEF IInv

\* The sender reads an answer: only the one ACK of the last block takes it on.
LEMMA SenderReadIInv ==
  ASSUME IInv, SenderRead
  PROVE  IInv'
<1>0. /\ snd \in {"waiting", "block", "eot"} /\ reply # <<>> /\ reply' = Tail(reply)
      /\ UNCHANGED boardVars
  BY DEF SenderRead
<1>t. TypeOK /\ reply \in Seq(ReplyBytes) /\ Len(File) \in Nat /\ Stored \in Nat
      /\ next \in 1..(Len(File) + 1)
  BY XmodemAssumption DEF IInv, TypeOK, Stored
<1>1. /\ reply' \in Seq(ReplyBytes)
      /\ HasAck(Tail(reply)) => HasAck(reply)
      /\ OneAck(reply) => OneAck(Tail(reply))
      /\ OneAck(reply) /\ Head(reply) = "ACK" => HasAck(reply) /\ ~HasAck(Tail(reply))
  <2>1. Tail(reply) \in Seq(ReplyBytes)  BY <1>0, <1>t
  <2> QED  BY <1>0, <1>t, <2>1, AcksLeft, Zenon
<1>2. pc # "returned" =>
        /\ next \in {Stored, Stored + 1} /\ OneAck(reply) /\ (HasAck(reply) => next = Stored)
  BY DEF IInv, InStep
<1>3. CASE snd = "waiting" /\ SendBlock(1)
  <2>1. 1 \in 1..(Len(File) + 1)  BY <1>t
  <2>2. pc # "returned" => Stored = 0 /\ next = 1  BY <1>3 DEF IInv, NotYet
  <2>3. pc # "returned" => ~HasAck(reply)  BY <1>2, <2>2
  <2>4. pc # "returned" =>
          /\ 1 \in {Stored, Stored + 1} /\ (1 = next \/ next # Stored + 1)
          /\ OneAck(reply') /\ (HasAck(reply') => 1 = Stored)
    BY <1>0, <1>1, <1>2, <2>2, <2>3
  <2> QED  BY <1>0, <1>1, <1>3, <2>1, <2>4, SendIInv, Zenon
<1>4. CASE SendBlock(next)
  <2>1. pc # "returned" =>
          /\ next \in {Stored, Stored + 1} /\ (next = next \/ next # Stored + 1)
          /\ OneAck(reply') /\ (HasAck(reply') => next = Stored)
    BY <1>0, <1>1, <1>2, Zenon
  <2> QED  BY <1>0, <1>t, <1>1, <1>4, <2>1, SendIInv, Zenon
<1>5. CASE snd = "block" /\ Head(reply) = "ACK" /\ SendBlock(next + 1)
  <2>1. next + 1 \in 1..(Len(File) + 1)
    <3>1. next <= Len(File)  BY <1>5 DEF IInv, Sending
    <3> QED  BY <1>t, <3>1
  <2>2. pc # "returned" => next = Stored /\ ~HasAck(reply')
    BY <1>0, <1>1, <1>2, <1>5
  <2>3. pc # "returned" =>
          /\ next + 1 \in {Stored, Stored + 1} /\ (next + 1 = next \/ next # Stored + 1)
          /\ OneAck(reply') /\ (HasAck(reply') => next + 1 = Stored)
    BY <1>0, <1>t, <1>1, <1>2, <2>2
  <2> QED  BY <1>0, <1>1, <1>5, <2>1, <2>3, SendIInv, Zenon
<1>6. CASE snd' \in {snd, "ended"} /\ UNCHANGED <<line, next, faults, framed>>
  <2>1. faults' \in Nat /\ framed' \in BOOLEAN  BY <1>t, <1>6 DEF TypeOK
  <2>2. UNCHANGED <<line, next, boardVars>>  BY <1>0, <1>6
  <2> QED  BY <1>0, <1>6, <2>1, <2>2, AnswerGoneIInv, Zenon
<1> QED  BY <1>3, <1>4, <1>5, <1>6 DEF SenderRead

\* The sender repeats itself.
LEMMA SenderTimeoutIInv ==
  ASSUME IInv, SenderTimeout
  PROVE  IInv'
<1>1. snd \in {"waiting", "block", "eot"} /\ SendBlock(next) /\ reply' = reply /\ UNCHANGED boardVars
  BY DEF SenderTimeout
<1>2. next \in 1..(Len(File) + 1) /\ reply \in Seq(ReplyBytes)  BY DEF IInv, TypeOK
<1>3. pc # "returned" =>
        /\ next \in {Stored, Stored + 1} /\ (next = next \/ next # Stored + 1)
        /\ OneAck(reply') /\ (HasAck(reply') => next = Stored)
  BY <1>1 DEF IInv, InStep
<1> QED  BY <1>1, <1>2, <1>3, SendIInv, Zenon

\* The user starts the sender.
LEMMA UserStartsIInv ==
  ASSUME IInv, UserStarts
  PROVE  IInv'
<1>b. /\ pc' = pc /\ starting' = starting /\ packnum' = packnum /\ retries' = retries
      /\ limit' = limit /\ received' = received /\ result' = result /\ Stored' = Stored
      /\ line' = line /\ next' = next /\ reply' = reply /\ faults' = faults /\ framed' = framed
      /\ snd = "idle" /\ snd' = "waiting"
  BY DEF UserStarts, boardVars, Stored
<1>1. TypeOK' /\ Sending' /\ NotYet'
  BY <1>b DEF IInv, TypeOK, Sending, NotYet
<1>2. InStep'
  BY <1>b DEF IInv, InStep
<1>3. Unmistakable'
  BY <1>b DEF IInv, Unmistakable, OnlyNext, Passes
<1>4. PrefixReceived' /\ BufferHolds'
  BY <1>b DEF IInv, PrefixReceived, IsPrefixOfFile, BufferHolds
<1> QED  BY <1>1, <1>2, <1>3, <1>4 DEF IInv

\* The user cancels: one more byte, which is no CRC.
LEMMA UserCancelsIInv ==
  ASSUME IInv, UserCancels
  PROVE  IInv'
<1>b. /\ pc' = pc /\ starting' = starting /\ packnum' = packnum /\ retries' = retries
      /\ limit' = limit /\ received' = received /\ result' = result /\ Stored' = Stored
      /\ next' = next /\ reply' = reply /\ faults' = faults /\ framed' = framed
      /\ line' = line \o <<CAN>> /\ snd' = "cancelled" /\ snd \in {"block", "eot"}
  BY DEF UserCancels, boardVars, Stored
<1>t. line \in Seq(LineBytes)  BY DEF IInv, TypeOK
<1>1. <<CAN>> \in Seq(LineBytes) /\ CAN \in Data
  <2>1. CAN \in Data /\ CAN \in LineBytes  BY CheckBytes DEF CAN, Data
  <2> QED  BY <2>1
<1>2. TypeOK'
  <2>1. line' \in Seq(LineBytes)  BY <1>t, <1>b, <1>1, Joined, Zenon
  <2> QED  BY <1>b, <2>1 DEF IInv, TypeOK
<1>3. Sending' /\ NotYet'
  BY <1>b DEF IInv, Sending, NotYet
<1>4. InStep'
  BY <1>b DEF IInv, InStep
<1>5. Unmistakable'
  <2>1. SUFFICES ASSUME pc # "returned" PROVE OnlyNext(line)'
    BY <1>b DEF Unmistakable
  <2> DEFINE a == <<CAN>>
  <2>2. OnlyNext(line)  BY <2>1 DEF IInv, Unmistakable
  <2>3. \A m \in 1..Len(a), x \in LineBytes : a[m] = Crc(x) =>
          /\ m = Len(a) /\ Len(a) >= 4
          /\ Passes(a, Len(a) - 3, packnum) =>
               next = Stored + 1 /\ next <= Len(File) /\ a[Len(a) - 1] = File[next]
    BY <1>1, NoCrc, Zenon
  <2>4. a \in Seq(LineBytes)  BY <1>1
  <2> HIDE DEF a
  <2>5. \A j \in 1..(Len(line \o a) - 3) : Passes(line \o a, j, packnum) =>
          next = Stored + 1 /\ next <= Len(File) /\ (line \o a)[j + 2] = File[next]
    BY <1>t, <2>2, <2>3, <2>4, OnlyNextJoined, Zenon
  <2>6. line' = line \o a  BY <1>b DEF a
  <2> QED  BY <1>b, <2>5, <2>6, Zenon DEF OnlyNext, Passes
<1>6. PrefixReceived' /\ BufferHolds'
  BY <1>b DEF IInv, PrefixReceived, IsPrefixOfFile, BufferHolds
<1> QED  BY <1>2, <1>3, <1>4, <1>5, <1>6 DEF IInv

\* The line loses an answer.
LEMMA LoseReplyIInv ==
  ASSUME IInv, LoseReply
  PROVE  IInv'
<1>1. /\ reply # <<>> /\ reply' = Tail(reply) /\ UNCHANGED <<line, next, boardVars>>
      /\ snd' \in {snd, "ended"}
  BY DEF LoseReply, senderVars
<1>2. faults' \in Nat /\ framed' \in BOOLEAN
  BY DEF LoseReply, IInv, TypeOK
<1> QED  BY <1>1, <1>2, AnswerGoneIInv, Zenon

\* Every step keeps the invariant.
LEMMA NextIInv == IInv /\ [Next]_vars => IInv'
<1> SUFFICES ASSUME IInv, [Next]_vars PROVE IInv'  OBVIOUS
<1>1. CASE Loop  BY <1>1, LoopIInv
<1>2. CASE Listen  BY <1>2, ListenIInv
<1>3. CASE ListenTimeout  BY <1>3, ListenTimeoutIInv
<1>4. CASE BadRecord  BY <1>4, BadRecordIInv
<1>5. CASE StoreRecord  BY <1>5, StoreRecordIInv
<1>6. CASE OutOfMemory  BY <1>6, OutOfMemoryIInv
<1>7. CASE UserStarts  BY <1>7, UserStartsIInv
<1>8. CASE SenderRead  BY <1>8, SenderReadIInv
<1>9. CASE SenderTimeout  BY <1>9, SenderTimeoutIInv
<1>10. CASE UserCancels  BY <1>10, UserCancelsIInv
<1>11. CASE LoseReply  BY <1>11, LoseReplyIInv
<1>12. CASE UNCHANGED vars
  <2>1. TypeOK' /\ Sending' /\ NotYet'
    BY <1>12 DEF vars, IInv, TypeOK, Sending, NotYet, Stored
  <2>2. InStep'
    BY <1>12 DEF vars, IInv, InStep, Stored
  <2>3. Unmistakable'
    BY <1>12 DEF vars, IInv, Unmistakable, OnlyNext, Passes, Stored
  <2>4. PrefixReceived' /\ BufferHolds'
    BY <1>12 DEF vars, IInv, PrefixReceived, IsPrefixOfFile, BufferHolds
  <2> QED  BY <2>1, <2>2, <2>3, <2>4 DEF IInv
<1> QED
  BY <1>1, <1>2, <1>3, <1>4, <1>5, <1>6, <1>7, <1>8, <1>9, <1>10, <1>11, <1>12
     DEF Next, Receiver

-----------------------------------------------------------------------------
(* Framing                                                                 *)

\* Reading on keeps what is left aligned.
LEMMA AlignedRest ==
  ASSUME NEW S, NEW s \in Seq(S), NEW k \in 0..Len(s), NEW f \in Nat \ {0}, Aligned(s, k + f)
  PROVE  Aligned(SubSeq(s, k + 1, Len(s)), f)
<1> DEFINE t == SubSeq(s, k + 1, Len(s))
<1>1. Len(s) \in Nat /\ Len(t) = Len(s) - k /\ \A j \in 1..(Len(s) - k) : t[j] = s[k + j]
  BY Rest
<1> HIDE DEF t
<1>2. PICK A \in SUBSET (1..(Len(s) + 1)) :
        /\ k + f \in A /\ Len(s) + 1 \in A
        /\ \A i \in A : i <= Len(s) =>
             \/ s[i] = SOH /\ i + 5 \in A
             \/ s[i] = EOT /\ Stored = Len(File) /\ i + 1 \in A
             \/ s[i] = CAN /\ i + 1 \in A
  BY Zenon DEF Aligned
<1> DEFINE B == {i \in 1..(Len(t) + 1) : k + i \in A}
<1>3. B \in SUBSET (1..(Len(t) + 1))  OBVIOUS
<1>4. f \in B /\ Len(t) + 1 \in B
  <2>1. k + f \in 1..(Len(s) + 1)  BY <1>2
  <2>2. f \in 1..(Len(t) + 1)  BY <1>1, <2>1
  <2>3. k + (Len(t) + 1) = Len(s) + 1 /\ Len(t) + 1 \in 1..(Len(t) + 1)  BY <1>1
  <2> QED  BY <1>2, <2>2, <2>3
<1>5. ASSUME NEW i \in B, i <= Len(t)
      PROVE  \/ t[i] = SOH /\ i + 5 \in B
             \/ t[i] = EOT /\ Stored = Len(File) /\ i + 1 \in B
             \/ t[i] = CAN /\ i + 1 \in B
  <2>1. /\ i \in 1..(Len(s) - k) /\ k + i \in A /\ k + i <= Len(s)
        /\ k + i + 5 = k + (i + 5) /\ k + i + 1 = k + (i + 1)
    BY <1>1, <1>5
  <2>2. t[i] = s[k + i]  BY <1>1, <2>1
  <2>3. ASSUME NEW d \in {1, 5}, k + (i + d) \in A PROVE i + d \in B
    <3>1. k + (i + d) \in 1..(Len(s) + 1)  BY <1>2, <2>3
    <3>2. i + d \in 1..(Len(t) + 1)  BY <1>1, <2>1, <3>1
    <3> QED  BY <2>3, <3>2
  <2> QED  BY <1>2, <2>1, <2>2, <2>3
<1> HIDE DEF B
<1> QED  BY <1>3, <1>4, <1>5, Zenon DEF Aligned, t

\* What arrives when no byte within a record is lost.
Whole(a) ==
  \/ a = <<>>
  \/ Len(a) = 5 /\ a[1] = SOH
  \/ Len(a) = 1 /\ a[1] = EOT /\ Stored = Len(File)
  \/ Len(a) = 1 /\ a[1] = CAN

\* It keeps the line aligned.
LEMMA AlignedJoined ==
  ASSUME NEW s \in Seq(LineBytes), NEW a \in Seq(LineBytes), Whole(a), NEW f, Aligned(s, f)
  PROVE  Aligned(s \o a, f)
<1> DEFINE t == s \o a
<1>1. /\ t \in Seq(LineBytes) /\ Len(t) = Len(s) + Len(a)
      /\ \A k \in 1..Len(s) : t[k] = s[k]
      /\ \A k \in 1..Len(a) : t[Len(s) + k] = a[k]
  BY Joined
<1>0. Len(s) \in Nat /\ Len(a) \in Nat  OBVIOUS
<1>2. PICK A \in SUBSET (1..(Len(s) + 1)) :
        /\ f \in A /\ Len(s) + 1 \in A
        /\ \A i \in A : i <= Len(s) =>
             \/ s[i] = SOH /\ i + 5 \in A
             \/ s[i] = EOT /\ Stored = Len(File) /\ i + 1 \in A
             \/ s[i] = CAN /\ i + 1 \in A
  BY Zenon DEF Aligned
<1>3. CASE a = <<>>
  <2>1. s \o a = s  BY <1>3
  <2> QED  BY <2>1
<1> HIDE DEF t
<1>4. CASE a # <<>>
  <2> DEFINE B == A \cup {Len(t) + 1}
  <2>1. B \in SUBSET (1..(Len(t) + 1))
    <3>1. \A i \in 1..(Len(s) + 1) : i \in 1..(Len(t) + 1)  BY <1>0, <1>1
    <3>2. Len(t) + 1 \in 1..(Len(t) + 1)  BY <1>0, <1>1
    <3> QED  BY <3>1, <3>2
  <2>2. f \in B /\ Len(t) + 1 \in B  BY <1>2
  <2>3. ASSUME NEW i \in B, i <= Len(t)
        PROVE  \/ t[i] = SOH /\ i + 5 \in B
               \/ t[i] = EOT /\ Stored = Len(File) /\ i + 1 \in B
               \/ t[i] = CAN /\ i + 1 \in B
    <3>1. i \in A /\ i \in 1..(Len(s) + 1)  BY <1>0, <1>1, <2>3
    <3>2. CASE i <= Len(s)
      <4>1. t[i] = s[i]  BY <1>0, <1>1, <3>1, <3>2
      <4> QED  BY <1>2, <3>1, <3>2, <4>1
    <3>3. CASE ~(i <= Len(s))
      <4>1. i = Len(s) + 1  BY <1>0, <3>1, <3>3
      <4>2. Len(a) >= 1  BY <1>4, <1>0
      <4>3. t[i] = a[1]  BY <1>0, <1>1, <4>1, <4>2
      <4>4. Len(a) = 5 => i + 5 = Len(t) + 1  BY <1>0, <1>1, <4>1
      <4>5. Len(a) = 1 => i + 1 = Len(t) + 1  BY <1>0, <1>1, <4>1
      <4> QED  BY <1>4, <4>3, <4>4, <4>5 DEF Whole
    <3> QED  BY <3>2, <3>3
  <2> HIDE DEF B
  <2> QED  BY <2>1, <2>2, <2>3, Zenon DEF Aligned, t
<1> QED  BY <1>3, <1>4

\* The first byte of a command that is aligned.
LEMMA AlignedHead ==
  ASSUME NEW S, NEW s \in Seq(S), s # <<>>, Aligned(s, 1)
  PROVE  \/ Head(s) = SOH /\ Aligned(s, 6)
         \/ Head(s) = EOT /\ Stored = Len(File)
         \/ Head(s) = CAN
<1>1. PICK A \in SUBSET (1..(Len(s) + 1)) :
        /\ 1 \in A /\ Len(s) + 1 \in A
        /\ \A i \in A : i <= Len(s) =>
             \/ s[i] = SOH /\ i + 5 \in A
             \/ s[i] = EOT /\ Stored = Len(File) /\ i + 1 \in A
             \/ s[i] = CAN /\ i + 1 \in A
  BY Zenon DEF Aligned
<1>2. 1 <= Len(s) /\ Head(s) = s[1] /\ 1 + 5 = 6  OBVIOUS
<1>3. 6 \in A => Aligned(s, 6)
  BY <1>1, Zenon DEF Aligned
<1> QED  BY <1>1, <1>2, <1>3, Zenon

\* What a sender in step sends arrives whole or is counted.
LEMMA SendWhole ==
  ASSUME TypeOK, framed => faults > 0, Stored <= Len(File),
         NEW n \in 1..(Len(File) + 1), SendBlock(n),
         pc # "returned" => n \in {Stored, Stored + 1}
  PROVE  /\ framed => framed'
         /\ framed' => faults' > 0
         /\ pc # "returned" /\ ~framed' =>
              \E a \in Seq(LineBytes) : Whole(a) /\ line' = line \o a
<1>0. faults \in Nat /\ framed \in BOOLEAN /\ Len(File) \in Nat /\ Stored \in Nat
  BY XmodemAssumption DEF TypeOK, Stored
<1>1. CASE n <= Len(File)
  <2>1. n \in 1..Len(File)  BY <1>0, <1>1
  <2>2. PICK a \in Arrivals(Record(n)) :
          /\ line' = line \o a
          /\ faults' = IF a = Record(n) THEN faults ELSE faults + 1
          /\ framed' = (framed \/ Len(a) \in 1..(Len(Record(n)) - 1))
    BY <1>1 DEF SendBlock, Transmit
  <2>3. Len(Record(n)) = 5 /\ Record(n)[1] = SOH  BY <2>1, RecordBytes
  <2>4. framed' <=> (framed \/ Len(a) \in 1..4)
    <3>1. 5 - 1 = 4  OBVIOUS
    <3> QED  BY <2>2, <2>3, <3>1
  <2>5. Len(a) \in 1..4 => a # Record(n)
    <3>1. 5 \notin 1..4  OBVIOUS
    <3> QED  BY <2>3, <3>1, Zenon
  <2>6. framed' => faults' > 0  BY <1>0, <2>2, <2>4, <2>5
  <2>7. ASSUME ~framed' PROVE Whole(a) /\ a \in Seq(LineBytes)
    <3>1. Len(a) \notin 1..4  BY <2>4, <2>7
    <3>2. ASSUME NEW i \in 2..5, \A k \in 1..5 : a[k] = IF k = i THEN Garbled ELSE Record(n)[k]
          PROVE  a[1] = SOH
      BY <2>3, <3>2
    <3>3. Len(a) # 4  BY <3>1
    <3>4. /\ a \in Seq(LineBytes)
          /\ \/ a = Record(n) \/ a = <<>>
             \/ Len(a) = 5 /\ \E i \in 2..5 : \A k \in 1..5 :
                  a[k] = IF k = i THEN Garbled ELSE Record(n)[k]
             \/ Len(a) = 4
      BY <2>1, RecordArrivals, Zenon
    <3>5. CASE a = Record(n)  BY <2>3, <3>4, <3>5, Zenon DEF Whole
    <3>6. CASE a = <<>>  BY <3>4, <3>6, Zenon DEF Whole
    <3>7. CASE Len(a) = 5 /\ \E i \in 2..5 : \A k \in 1..5 :
                 a[k] = IF k = i THEN Garbled ELSE Record(n)[k]
      <4>1. a[1] = SOH  BY <3>2, <3>7, Zenon
      <4> QED  BY <3>4, <3>7, <4>1, Zenon DEF Whole
    <3> QED  BY <3>3, <3>4, <3>5, <3>6, <3>7, Zenon
  <2> QED  BY <2>2, <2>4, <2>6, <2>7
<1>2. CASE ~(n <= Len(File))
  <2>2. PICK a \in Arrivals(<<EOT>>) :
          /\ line' = line \o a
          /\ faults' = IF a = <<EOT>> THEN faults ELSE faults + 1
          /\ framed' = (framed \/ Len(a) \in 1..(Len(<<EOT>>) - 1))
    BY <1>2 DEF SendBlock, Transmit
  <2>3. framed' = framed
    <3>1. Len(<<EOT>>) = 1 /\ Len(<<>>) = 0 /\ 1 \notin 1..(1 - 1) /\ 0 \notin 1..(1 - 1)  OBVIOUS
    <3>2. Len(a) \notin 1..(Len(<<EOT>>) - 1)  BY <2>2, <3>1, EotArrivals, Zenon
    <3> QED  BY <1>0, <2>2, <3>2
  <2>4. pc # "returned" => Stored = Len(File)  BY <1>0, <1>2
  <2>5. ASSUME pc # "returned" PROVE a \in Seq(LineBytes) /\ Whole(a)
    <3>1. EOT \in LineBytes  BY CheckBytes DEF EOT, Data
    <3>2. <<EOT>> \in Seq(LineBytes) /\ Len(<<EOT>>) = 1 /\ <<EOT>>[1] = EOT
          /\ <<>> \in Seq(LineBytes)
      BY <3>1
    <3> QED  BY <2>4, <2>5, <3>2, EotArrivals, Zenon DEF Whole
  <2>6. framed' => faults' > 0  BY <1>0, <2>2, <2>3
  <2> QED  BY <2>2, <2>3, <2>5, <2>6
<1> QED  BY <1>1, <1>2

\* A file as long as the one sent is the one sent.
LEMMA AllStored ==
  ASSUME TypeOK, PrefixReceived, Stored = Len(File)
  PROVE  received = File
<1>1. received \in Seq(LineBytes)  BY DEF TypeOK
<1>2. File \in Seq(Data)  BY XmodemAssumption DEF Data
<1>3. \A i \in 1..Len(received) : received[i] = File[i]
  BY DEF PrefixReceived, IsPrefixOfFile
<1>4. received \in Seq(LineBytes \cup Data) /\ File \in Seq(LineBytes \cup Data)
  BY <1>1, <1>2
<1> QED  BY <1>3, <1>4, SeqEqual, Zenon DEF Stored

\* Sent bytes keep the framing.
LEMMA SendFraming ==
  ASSUME IInv, Framing, NEW n \in 1..(Len(File) + 1), SendBlock(n), UNCHANGED boardVars,
         pc # "returned" => n \in {Stored, Stored + 1}
  PROVE  Framing' /\ (framed => framed')
<1>1. TypeOK /\ (framed => faults > 0) /\ Stored <= Len(File) /\ line \in Seq(LineBytes)
  BY DEF IInv, TypeOK, Framing, PrefixReceived, IsPrefixOfFile, Stored
<1>2. /\ framed => framed'
      /\ framed' => faults' > 0
      /\ pc # "returned" /\ ~framed' =>
           \E a \in Seq(LineBytes) : Whole(a) /\ line' = line \o a
  BY <1>1, SendWhole, Zenon
<1>3. pc' = pc /\ Stored' = Stored  BY DEF boardVars, Stored
<1> DEFINE f == IF pc = "record" THEN 5 ELSE 1
<1>4. ASSUME pc # "returned", ~framed' PROVE Aligned(line, f)'
  <2>1. PICK a \in Seq(LineBytes) : Whole(a) /\ line' = line \o a  BY <1>2, <1>4
  <2>2. ~framed  BY <1>2, <1>4
  <2>3. Aligned(line, f)  BY <1>4, <2>2 DEF Framing
  <2> HIDE DEF f
  <2>4. Aligned(line \o a, f)  BY <1>1, <2>1, <2>3, AlignedJoined, Zenon
  <2>5. Aligned(line', f)  BY <2>1, <2>4, Zenon
  <2>6. f' = f  BY <1>3 DEF f
  <2> QED  BY <1>3, <2>5, <2>6 DEF Aligned
<1> QED  BY <1>2, <1>3, <1>4 DEF Framing

\* Reading an answer, or losing one, does not touch the line.
LEMMA SameFraming ==
  ASSUME Framing, UNCHANGED <<line, framed, boardVars>>, faults' >= faults, faults \in Nat, faults' \in Nat
  PROVE  Framing'
<1>1. pc' = pc /\ Stored' = Stored /\ line' = line /\ framed' = framed  BY DEF boardVars, Stored
<1>2. framed' => faults' > 0  BY <1>1 DEF Framing
<1> QED  BY <1>1, <1>2 DEF Framing, Aligned

\* Every step keeps the framing, and what is done whole stays so.
LEMMA NextFraming ==
  ASSUME IInv, Framing, DoneMeansWhole, [Next]_vars
  PROVE  Framing' /\ DoneMeansWhole'
<1>t. /\ TypeOK /\ line \in Seq(LineBytes) /\ faults \in Nat /\ Stored \in Nat
      /\ Len(line) \in Nat /\ next \in 1..(Len(File) + 1)
  BY DEF IInv, TypeOK, Stored
<1>f. Len(File) \in Nat  BY XmodemAssumption
<1>k. ASSUME framed' = framed, result' = result, received' = received PROVE DoneMeansWhole'
  BY <1>k DEF DoneMeansWhole
<1>r. ASSUME pc' = "returned", framed' = framed, faults' = faults PROVE Framing'
  BY <1>r DEF Framing
<1>1. CASE Loop
  <2>1. pc = "loop" /\ framed' = framed /\ faults' = faults /\ received' = received
    BY <1>1 DEF Loop
  <2>2. CASE retries = 0
    <3>1. pc' = "returned" /\ result' = "retryexceed"  BY <1>1, <2>2 DEF Loop, Return
    <3> QED  BY <1>r, <2>1, <3>1 DEF DoneMeansWhole
  <2>3. CASE retries # 0
    <3>1. pc' = "listen" /\ line' = line /\ result' = result  BY <1>1, <2>3 DEF Loop
    <3>2. Framing'  BY <2>1, <3>1 DEF Framing, Aligned, Stored
    <3> QED  BY <1>k, <2>1, <3>1, <3>2
  <2> QED  BY <2>2, <2>3
<1>2. CASE Listen
  <2>1. pc = "listen" /\ framed' = framed /\ faults' = faults /\ received' = received /\ line # <<>>
    BY <1>2 DEF Listen
  <2>2. ~framed => \/ Head(line) = SOH /\ Aligned(line, 6)
                   \/ Head(line) = EOT /\ Stored = Len(File)
                   \/ Head(line) = CAN
    <3>1. ~framed => Aligned(line, 1)  BY <2>1 DEF Framing
    <3> QED  BY <1>t, <2>1, <3>1, AlignedHead, Zenon
  <2>3. CASE Head(line) \in {EOT, CAN}
    <3>1. /\ pc' = "returned"
          /\ result' = IF Head(line) = EOT THEN "done" ELSE "remotecancel"
      BY <1>2, <2>3 DEF Listen, Return
    <3>2. ASSUME ~framed', result' = "done" PROVE received' = File
      <4>1. Head(line) = EOT  BY <3>1, <3>2
      <4>2. Stored = Len(File)  BY <2>1, <2>2, <3>2, <4>1 DEF SOH, EOT, CAN
      <4>3. PrefixReceived  BY DEF IInv
      <4> QED  BY <1>t, <2>1, <4>2, <4>3, AllStored, Zenon
    <3> QED  BY <1>r, <2>1, <3>1, <3>2 DEF DoneMeansWhole
  <2>4. CASE Head(line) \notin {EOT, CAN}
    <3>1. /\ line' = Tail(line) /\ pc' = IF Head(line) = SOH THEN "record" ELSE "loop"
          /\ result' = result
      BY <1>2, <2>4 DEF Listen
    <3>2. ASSUME ~framed PROVE pc' = "record" /\ Aligned(line', 5)
      <4>1. Head(line) = SOH /\ Aligned(line, 6)  BY <2>2, <2>4, <3>2
      <4>2. 1 \in 0..Len(line) /\ 5 \in Nat \ {0} /\ 1 + 5 = 6 /\ 1 + 1 = 2
            /\ Tail(line) = SubSeq(line, 2, Len(line))
        BY <1>t, <2>1, TailRest
      <4>3. Aligned(SubSeq(line, 1 + 1, Len(line)), 5)
        BY <1>t, <4>1, <4>2, AlignedRest, Zenon
      <4> QED  BY <3>1, <4>1, <4>2, <4>3
    <3>3. ~framed => Aligned(line, 5)'
      BY <2>1, <3>2 DEF Aligned, Stored
    <3>4. Framing'
      BY <2>1, <3>2, <3>3 DEF Framing
    <3> QED  BY <1>k, <2>1, <3>1, <3>4
  <2> QED  BY <2>3, <2>4
<1>3. CASE ListenTimeout
  <2>1. pc = "listen" /\ pc' = "loop"
        /\ UNCHANGED <<line, received, result, faults, framed>>
    BY <1>3 DEF ListenTimeout
  <2>2. Framing'  BY <2>1 DEF Framing, Aligned, Stored
  <2> QED  BY <1>k, <2>1, <2>2
<1>4. CASE BadRecord
  <2>1. pc = "record" /\ pc' = "loop" /\ UNCHANGED <<received, result, faults, framed>>
    BY <1>4 DEF BadRecord
  <2>2. ~framed => Aligned(line, 5)  BY <2>1 DEF Framing
  <2>3. ASSUME ~framed PROVE Aligned(line', 1)
    <3>1. Len(line) >= 4
      <4>1. 5 \in 1..(Len(line) + 1)  BY <2>2, <2>3 DEF Aligned
      <4> QED  BY <1>t, <4>1
    <3>2. line' = SubSeq(line, 5, Len(line))  BY <1>t, <1>4, <3>1 DEF BadRecord
    <3>3. 4 \in 0..Len(line) /\ 1 \in Nat \ {0} /\ 4 + 1 = 5  BY <1>t, <3>1
    <3>4. Aligned(SubSeq(line, 4 + 1, Len(line)), 1)
      BY <1>t, <2>2, <2>3, <3>3, AlignedRest, Zenon
    <3> QED  BY <3>2, <3>3, <3>4, Zenon
  <2>4. ~framed => Aligned(line, 1)'
    BY <2>1, <2>3 DEF Aligned, Stored
  <2>5. Framing'  BY <2>1, <2>4 DEF Framing
  <2> QED  BY <1>k, <2>1, <2>5
<1>5. CASE StoreRecord
  <2>1. /\ pc = "record" /\ pc' = "loop" /\ line' = <<>>
        /\ result' = result /\ faults' = faults /\ framed' = framed
    BY <1>5 DEF StoreRecord
  <2>2. Aligned(line, 1)'
    <3>1. Len(line') = 0 /\ {1} \in SUBSET (1..(0 + 1)) /\ 0 + 1 \in {1} /\ \A i \in {1} : ~(i <= 0)
      BY <2>1
    <3> DEFINE A == {1}
    <3>2. A \in SUBSET (1..(Len(line') + 1)) /\ 1 \in A /\ Len(line') + 1 \in A
          /\ \A i \in A : ~(i <= Len(line'))
      BY <3>1
    <3> HIDE DEF A
    <3> QED  BY <3>2, Zenon DEF Aligned
  <2>3. Framing'  BY <2>1, <2>2 DEF Framing
  <2>4. result' # "done"  BY <2>1 DEF IInv, Sending
  <2> QED  BY <2>3, <2>4 DEF DoneMeansWhole
<1>6. CASE OutOfMemory
  <2>1. /\ pc' = "returned" /\ result' = "outofmem" /\ faults' = faults /\ framed' = framed
    BY <1>6 DEF OutOfMemory, Return
  <2> QED  BY <1>r, <2>1 DEF DoneMeansWhole
<1>7. CASE UserStarts
  <2>1. UNCHANGED <<line, framed, boardVars>> /\ faults' = faults /\ faults' >= faults /\ faults' \in Nat
    BY <1>t, <1>7 DEF UserStarts
  <2>2. framed' = framed /\ result' = result /\ received' = received  BY <2>1 DEF boardVars
  <2>3. Framing'  BY <1>t, <2>1, SameFraming, Zenon
  <2> QED  BY <1>k, <2>2, <2>3
<1>s. ASSUME NEW n \in 1..(Len(File) + 1), SendBlock(n), UNCHANGED boardVars,
             pc # "returned" => n \in {Stored, Stored + 1}
      PROVE  Framing' /\ DoneMeansWhole'
  <2>1. Framing' /\ (framed => framed')  BY <1>s, SendFraming, Zenon
  <2>2. result' = result /\ received' = received  BY <1>s DEF boardVars
  <2> QED  BY <2>1, <2>2 DEF DoneMeansWhole
<1>8. CASE SenderRead
  <2>1. UNCHANGED boardVars /\ snd \in {"waiting", "block", "eot"} /\ reply # <<>>
    BY <1>8 DEF SenderRead
  <2>2. pc # "returned" => /\ next \in {Stored, Stored + 1}
                           /\ HasAck(reply) => next = Stored
                           /\ snd = "waiting" => Stored = 0
    BY DEF IInv, InStep, NotYet
  <2>3. CASE snd = "waiting" /\ SendBlock(1)
    <3>1. 1 \in 1..(Len(File) + 1) /\ (pc # "returned" => 1 \in {Stored, Stored + 1})
      BY <1>f, <2>2, <2>3
    <3> QED  BY <1>s, <2>1, <2>3, <3>1, Zenon
  <2>4. CASE SendBlock(next)
    BY <1>s, <1>t, <2>1, <2>2, <2>4, Zenon
  <2>5. CASE snd = "block" /\ Head(reply) = "ACK" /\ SendBlock(next + 1)
    <3>1. next + 1 \in 1..(Len(File) + 1)
      <4>1. next <= Len(File)  BY <2>5 DEF IInv, Sending
      <4> QED  BY <1>f, <1>t, <4>1
    <3>2. HasAck(reply)
      <4>1. reply \in Seq(ReplyBytes)  BY DEF IInv, TypeOK
      <4>2. 1 \in 1..Len(reply) /\ reply[1] = "ACK"  BY <2>1, <2>5, <4>1, TailRest
      <4> QED  BY <4>2, Zenon DEF HasAck
    <3>3. pc # "returned" => next + 1 \in {Stored, Stored + 1}  BY <2>2, <3>2
    <3> QED  BY <1>s, <2>1, <2>5, <3>1, <3>3, Zenon
  <2>6. CASE UNCHANGED <<line, next, faults, framed>>
    <3>1. UNCHANGED <<line, framed, boardVars>> /\ faults' >= faults /\ faults' \in Nat
      BY <1>t, <2>1, <2>6
    <3>2. framed' = framed /\ result' = result /\ received' = received  BY <3>1 DEF boardVars
    <3>3. Framing'  BY <1>t, <3>1, SameFraming, Zenon
    <3> QED  BY <1>k, <3>2, <3>3
  <2> QED  BY <1>8, <2>3, <2>4, <2>5, <2>6 DEF SenderRead
<1>9. CASE SenderTimeout
  <2>1. UNCHANGED boardVars /\ SendBlock(next)  BY <1>9 DEF SenderTimeout
  <2>2. pc # "returned" => next \in {Stored, Stored + 1}  BY DEF IInv, InStep
  <2> QED  BY <1>s, <1>t, <2>1, <2>2, Zenon
<1>10. CASE UserCancels
  <2>1. /\ line' = line \o <<CAN>> /\ pc' = pc /\ result' = result /\ received' = received
        /\ framed' = framed /\ faults' = faults /\ Stored' = Stored
    BY <1>10 DEF UserCancels, boardVars, Stored
  <2> DEFINE f == IF pc = "record" THEN 5 ELSE 1
  <2>2. ASSUME pc # "returned", ~framed PROVE Aligned(line, f)'
    <3>1. CAN \in LineBytes  BY CheckBytes DEF CAN, Data
    <3> DEFINE a == <<CAN>>
    <3>2. a \in Seq(LineBytes) /\ Len(a) = 1 /\ a[1] = CAN  BY <3>1
    <3>3. Aligned(line, f)  BY <2>2 DEF Framing
    <3> HIDE DEF a, f
    <3>4. Whole(a)  BY <3>2 DEF Whole
    <3>5. Aligned(line \o a, f)  BY <1>t, <3>2, <3>3, <3>4, AlignedJoined, Zenon
    <3>6. Aligned(line', f)  BY <2>1, <3>5, Zenon DEF a
    <3>7. f' = f  BY <2>1 DEF f
    <3> QED  BY <2>1, <3>6, <3>7 DEF Aligned
  <2>3. Framing'  BY <2>1, <2>2 DEF Framing
  <2> QED  BY <1>k, <2>1, <2>3
<1>11. CASE LoseReply
  <2>1. UNCHANGED <<line, framed, boardVars>> /\ faults' >= faults /\ faults' \in Nat
    BY <1>t, <1>11 DEF LoseReply
  <2>2. framed' = framed /\ result' = result /\ received' = received  BY <2>1 DEF boardVars
  <2>3. Framing'  BY <1>t, <2>1, SameFraming, Zenon
  <2> QED  BY <1>k, <2>2, <2>3
<1>12. CASE UNCHANGED vars
  <2>1. UNCHANGED <<line, framed, boardVars>> /\ faults' >= faults /\ faults' \in Nat
    BY <1>t, <1>12 DEF vars, boardVars
  <2>2. framed' = framed /\ result' = result /\ received' = received  BY <2>1 DEF boardVars
  <2>3. Framing'  BY <1>t, <2>1, SameFraming, Zenon
  <2> QED  BY <1>k, <2>2, <2>3
<1> QED
  BY <1>1, <1>2, <1>3, <1>4, <1>5, <1>6, <1>7, <1>8, <1>9, <1>10, <1>11, <1>12
     DEF Next, Receiver

-----------------------------------------------------------------------------
(* A line that loses nothing                                               *)

\* What is sent while nothing fails is what arrives.
LEMMA PerfectSend ==
  ASSUME TypeOK, NEW n, SendBlock(n), faults' = 0, line = <<>>
  PROVE  /\ faults = 0 /\ next' = n
         /\ IF n <= Len(File) THEN snd' = "block" /\ line' = Record(n)
                              ELSE snd' = "eot" /\ line' = <<EOT>>
<1>0. faults \in Nat  BY DEF TypeOK
<1>1. ASSUME NEW s, Len(s) \in Nat, Transmit(s), <<>> \o s = s PROVE faults = 0 /\ line' = s
  <2>1. PICK a \in Arrivals(s) :
          line' = line \o a /\ faults' = IF a = s THEN faults ELSE faults + 1
    BY <1>1 DEF Transmit
  <2>2. faults + 1 # 0  BY <1>0
  <2>3. a = s /\ faults = 0  BY <2>1, <2>2
  <2> QED  BY <1>1, <2>1, <2>3
<1>2. Len(Record(n)) \in Nat /\ <<>> \o Record(n) = Record(n)  BY DEF Record
<1>3. Len(<<EOT>>) \in Nat /\ <<>> \o <<EOT>> = <<EOT>>  OBVIOUS
<1>4. CASE n <= Len(File)
  <2>1. Transmit(Record(n)) /\ snd' = "block" /\ next' = n  BY <1>4 DEF SendBlock
  <2> QED  BY <1>1, <1>2, <1>4, <2>1
<1>5. CASE ~(n <= Len(File))
  <2>1. Transmit(<<EOT>>) /\ snd' = "eot" /\ next' = n  BY <1>5 DEF SendBlock
  <2> QED  BY <1>1, <1>3, <1>5, <2>1
<1> QED  BY <1>4, <1>5

\* The bytes the board finds after SOH.
LEMMA RecordTail ==
  ASSUME NEW n \in 1..Len(File)
  PROVE  /\ Record(n) # <<>> /\ Head(Record(n)) = SOH
         /\ Tail(Record(n)) # <<>> /\ Len(Tail(Record(n))) = 4
         /\ Tail(Record(n))[1] = Number(n) /\ Tail(Record(n))[2] = Complement(Number(n))
         /\ CrcSender => Tail(Record(n))[4] = Crc(Tail(Record(n))[3])
<1> DEFINE r == Record(n)
<1>1. /\ r \in Seq(LineBytes) /\ Len(r) = 5 /\ r[1] = SOH /\ r[2] = Number(n)
      /\ r[3] = Complement(Number(n)) /\ r[4] = File[n] /\ r[5] = CheckByte(File[n])
  BY RecordBytes
<1> HIDE DEF r
<1>2. r # <<>>
  <2>1. Len(<<>>) = 0 /\ 5 # 0  OBVIOUS
  <2> QED  BY <1>1, <2>1, Zenon
<1>3. /\ Len(Tail(r)) = Len(r) - 1 /\ Head(r) = r[1]
      /\ \A j \in 1..(Len(r) - 1) : Tail(r)[j] = r[j + 1]
  BY <1>1, <1>2, TailRest, Zenon
<1>4. 5 - 1 = 4 /\ \A j \in 1..4 : Tail(r)[j] = r[j + 1]
  <2>1. 5 - 1 = 4  OBVIOUS
  <2> QED  BY <1>1, <1>3, <2>1, Zenon
<1>5. Len(Tail(r)) = 4  BY <1>1, <1>3, <1>4, Zenon
<1>6. Tail(r)[1] = r[2] /\ Tail(r)[2] = r[3] /\ Tail(r)[3] = r[4] /\ Tail(r)[4] = r[5]
  <2>1. /\ 1 \in 1..4 /\ 2 \in 1..4 /\ 3 \in 1..4 /\ 4 \in 1..4
        /\ 1 + 1 = 2 /\ 2 + 1 = 3 /\ 3 + 1 = 4 /\ 4 + 1 = 5
    OBVIOUS
  <2> QED  BY <1>4, <2>1, Zenon
<1>7. Tail(r) # <<>>
  <2>1. Len(<<>>) = 0 /\ 4 # 0  OBVIOUS
  <2> QED  BY <1>5, <2>1, Zenon
<1>8. CrcSender => r[5] = Crc(r[4])  BY <1>1 DEF CheckByte
<1> QED  BY <1>1, <1>2, <1>3, <1>5, <1>6, <1>7, <1>8, Zenon DEF r

\* Every step keeps a transfer over such a line on track.
LEMMA NextOnTrack ==
  ASSUME IInv, OnTrack, [Next]_vars
  PROVE  OnTrack'
<1> SUFFICES ASSUME CrcSender, faults' = 0, snd' \notin {"idle", "cancelled"}
             PROVE  /\ result' # "retryexceed"
                    /\ pc' # "returned" => (Asking \/ BlockSent \/ Answered \/ EndSent)'
  BY DEF OnTrack
<1>t. /\ TypeOK /\ line \in Seq(LineBytes) /\ reply \in Seq(ReplyBytes) /\ faults \in Nat
      /\ Stored \in Nat /\ Len(line) \in Nat /\ next \in 1..(Len(File) + 1) /\ Len(File) \in Nat
      /\ retries \in Nat
  BY XmodemAssumption DEF IInv, TypeOK, Stored
<1>n. /\ snd = "block" => next \in 1..Len(File)
      /\ pc # "returned" => result = "none" /\ packnum = Number(Stored + 1)
      /\ pc # "returned" /\ snd \in {"idle", "waiting"} =>
           /\ Stored = 0 /\ next = 1 /\ line = <<>> /\ starting /\ pc # "record"
           /\ snd = "idle" => reply = <<>>
  BY <1>t DEF IInv, Sending, InStep, NotYet
<1>e. \/ Replied(<<"C">>) = reply \o <<"C">> /\ Replied(<<"ACK">>) = reply \o <<"ACK">>
      \/ snd = "idle"
  BY DEF Replied
<1>p. ASSUME faults = 0, snd \notin {"idle", "cancelled"}
      PROVE  /\ result # "retryexceed"
             /\ pc # "returned" => Asking \/ BlockSent \/ Answered \/ EndSent
  BY <1>p DEF OnTrack
<1>b. BlockSent => /\ line # <<>> /\ next \in 1..Len(File)
                   /\ line = Record(next) => Head(line) = SOH
  BY <1>n, RecordTail DEF BlockSent
<1>1. CASE Loop
  <2>1. /\ pc = "loop" /\ snd' = snd /\ faults' = faults /\ next' = next /\ Stored' = Stored
        /\ starting' = starting
    BY <1>1 DEF Loop, senderVars, Stored
  <2>2. Asking \/ BlockSent \/ Answered \/ EndSent  BY <1>p, <2>1
  <2>3. retries > 0 /\ (Asking => starting) /\ (~Asking => ~starting)
    BY <1>n, <2>1, <2>2 DEF Asking, BlockSent, Answered, EndSent, Underway
  <2>4. /\ pc' = "listen" /\ line' = line /\ result' = result
        /\ reply' = IF starting THEN Replied(<<"C">>) ELSE reply
    BY <1>1, <2>3 DEF Loop
  <2>5. CASE Asking
    <3>1. reply = <<>> /\ snd = "waiting"  BY <2>1, <2>5 DEF Asking
    <3>2. reply' = <<"C">>  BY <1>e, <2>3, <2>4, <2>5, <3>1
    <3>3. Asking'  BY <2>1, <2>4, <3>1, <3>2 DEF Asking
    <3> QED  BY <1>n, <2>1, <2>4, <3>3
  <2>6. CASE ~Asking
    <3>1. reply' = reply  BY <2>3, <2>4, <2>6
    <3>2. Underway'  BY <2>4 DEF Underway
    <3>3. BlockSent => BlockSent'
      BY <2>1, <2>4, <3>1, <3>2 DEF BlockSent, Record
    <3>4. (Answered => Answered') /\ (EndSent => EndSent')
      BY <2>1, <2>3, <2>4, <2>6, <3>1, <3>2 DEF Answered, EndSent
    <3> QED  BY <1>n, <2>1, <2>2, <2>4, <2>6, <3>3, <3>4
  <2> QED  BY <2>5, <2>6
<1>2. CASE Listen
  <2>1. /\ pc = "listen" /\ line # <<>> /\ snd' = snd /\ faults' = faults /\ next' = next
        /\ Stored' = Stored
    BY <1>2 DEF Listen, senderVars, Stored
  <2>2. BlockSent \/ EndSent
    <3>1. Asking \/ BlockSent \/ Answered \/ EndSent  BY <1>p, <2>1
    <3>2. ~Asking /\ ~Answered  BY <1>n, <2>1 DEF Asking, Answered
    <3> QED  BY <3>1, <3>2
  <2>3. CASE BlockSent
    <3>1. line = Record(next) /\ Head(line) = SOH  BY <1>b, <2>1, <2>3 DEF BlockSent
    <3>2. SOH \notin {EOT, CAN}  BY DEF SOH, EOT, CAN
    <3>3. /\ line' = Tail(line) /\ pc' = "record" /\ starting' = FALSE
          /\ reply' = reply /\ result' = result
      BY <1>2, <3>1, <3>2 DEF Listen
    <3>4. line' = Tail(Record(next))'
      BY <2>1, <3>1, <3>3 DEF Record
    <3>5. BlockSent'  BY <2>1, <2>3, <3>3, <3>4 DEF BlockSent
    <3> QED  BY <1>n, <2>1, <3>3, <3>5
  <2>4. CASE EndSent
    <3>1. Head(line) = EOT  BY <2>4 DEF EndSent
    <3>2. pc' = "returned" /\ result' = "done"  BY <1>2, <3>1 DEF Listen, Return
    <3> QED  BY <3>2
  <2> QED  BY <2>2, <2>3, <2>4
<1>3. CASE ListenTimeout
  <2>1. /\ pc = "listen" /\ line = <<>> /\ SenderSilent /\ pc' = "loop"
        /\ UNCHANGED <<line, reply, retries, result, snd, faults>>
    BY <1>3 DEF ListenTimeout, senderVars
  <2>2. Asking \/ BlockSent \/ Answered \/ EndSent  BY <1>p, <2>1
  <2>3. ~BlockSent /\ ~EndSent /\ ~Answered
    <3>1. ~BlockSent  BY <1>b, <2>1
    <3>2. <<EOT>> # <<>> /\ <<"ACK">> # <<>>  OBVIOUS
    <3> QED  BY <2>1, <3>1, <3>2 DEF EndSent, Answered, SenderSilent
  <2>4. Asking'
    <3>1. <<"C">> # <<>>  OBVIOUS
    <3> QED  BY <2>1, <2>2, <2>3, <3>1 DEF Asking, SenderSilent
  <2> QED  BY <1>n, <2>1, <2>4
<1>g. ASSUME pc = "record", faults = 0, snd \notin {"idle", "cancelled"}
      PROVE  /\ BlockSent /\ line = Tail(Record(next)) /\ ~starting /\ reply = <<>>
             /\ next = Stored + 1 /\ snd = "block"
             /\ Len(line) = 4 /\ GoodRecord(line)
  <2>1. Asking \/ BlockSent \/ Answered \/ EndSent  BY <1>p, <1>g
  <2>2. BlockSent  BY <1>g, <2>1 DEF Asking, Answered, EndSent, Underway
  <2>3. /\ line = Tail(Record(next)) /\ ~starting /\ reply = <<>> /\ next = Stored + 1
        /\ snd = "block" /\ next \in 1..Len(File)
    BY <1>b, <1>g, <2>2 DEF BlockSent, Underway
  <2>4. /\ Len(line) = 4 /\ line[1] = Number(next) /\ line[2] = Complement(Number(next))
        /\ line[4] = Crc(line[3])
    BY <2>3, RecordTail, Zenon
  <2>5. packnum = Number(next)  BY <1>n, <1>g, <2>3
  <2>6. GoodRecord(line)  BY <2>4, <2>5, Zenon DEF GoodRecord
  <2> QED  BY <2>2, <2>3, <2>4, <2>6
<1>4. CASE BadRecord
  <2>1. pc = "record" /\ snd' = snd /\ faults' = faults  BY <1>4 DEF BadRecord, senderVars
  <2>2. Len(line) = 4 /\ GoodRecord(line)  BY <1>g, <2>1
  <2>3. ~(Len(line) < 4)  BY <2>2
  <2> QED  BY <1>4, <2>2, <2>3 DEF BadRecord
<1>5. CASE StoreRecord
  <2>1. /\ pc = "record" /\ pc' = "loop" /\ line' = <<>> /\ retries' = RetryLimit
        /\ reply' = Replied(<<"ACK">>) /\ received' = Append(received, line[3])
        /\ UNCHANGED <<starting, result, snd, next, faults>>
    BY <1>5 DEF StoreRecord, senderVars
  <2>2. ~starting /\ reply = <<>> /\ next = Stored + 1 /\ snd = "block"  BY <1>g, <2>1
  <2>3. reply' = <<"ACK">>  BY <1>e, <2>1, <2>2
  <2>4. Stored' = Stored + 1
    <3>1. received \in Seq(LineBytes)  BY <1>t DEF TypeOK
    <3> QED  BY <2>1, <3>1, AppendProperties DEF Stored
  <2>5. retries' > 0  BY <2>1, XmodemAssumption
  <2>6. Answered'  BY <2>1, <2>2, <2>3, <2>4, <2>5 DEF Answered, Underway
  <2> QED  BY <1>n, <2>1, <2>6
<1>6. CASE OutOfMemory
  BY <1>6 DEF OutOfMemory, Return
<1>7. CASE UserStarts
  <2>1. /\ snd = "idle" /\ pc # "returned" /\ retries > 0 /\ snd' = "waiting"
        /\ UNCHANGED <<line, reply, pc, retries, result>>
    BY <1>7 DEF UserStarts, boardVars
  <2>2. Asking'  BY <1>t, <1>n, <2>1 DEF Asking, TypeOK
  <2> QED  BY <1>n, <2>1, <2>2
<1>8. CASE SenderRead
  <2>1. /\ snd \in {"waiting", "block", "eot"} /\ reply # <<>> /\ reply' = Tail(reply)
        /\ UNCHANGED boardVars
    BY <1>8 DEF SenderRead
  <2>b. pc' = pc /\ result' = result /\ starting' = starting /\ retries' = retries
        /\ Stored' = Stored
    BY <2>1 DEF boardVars, Stored
  <2>s. ASSUME NEW n, SendBlock(n) PROVE faults = 0
    <3>1. faults' = faults \/ faults' = faults + 1  BY <2>s DEF SendBlock, Transmit
    <3> QED  BY <1>t, <3>1
  <2>2. faults = 0  BY <1>8, <2>s DEF SenderRead
  <2>3. result # "retryexceed" /\ (pc # "returned" => Asking \/ BlockSent \/ Answered \/ EndSent)
    BY <1>p, <2>1, <2>2
  <2>4. SUFFICES ASSUME pc # "returned" PROVE BlockSent' \/ EndSent'
    BY <2>3, <2>b
  <2>5. Asking \/ Answered  BY <2>1, <2>3, <2>4 DEF BlockSent, EndSent
  <2>q. ASSUME NEW n \in Nat, SendBlock(n), line = <<>>, n = Stored + 1, Underway, reply' = <<>>
        PROVE  BlockSent' \/ EndSent'
    <3>1. /\ next' = n
          /\ IF n <= Len(File) THEN snd' = "block" /\ line' = Record(n)
                               ELSE snd' = "eot" /\ line' = <<EOT>>
      BY <1>t, <2>q, PerfectSend
    <3>2. Underway'  BY <2>b, <2>q DEF Underway
    <3>3. line' = Record(n) => line' = Record(next)'  BY <3>1 DEF Record
    <3> QED  BY <2>b, <2>q, <3>1, <3>2, <3>3 DEF BlockSent, EndSent
  <2>6. CASE Asking
    <3>1. reply = <<"C">> /\ pc = "listen" /\ snd = "waiting"  BY <2>1, <2>6 DEF Asking
    <3>2. Head(reply) = "C" /\ reply' = <<>>  BY <2>1, <3>1
    <3>3. SendBlock(1)
      <4>1. StartByte = "C"  BY DEF StartByte
      <4> QED  BY <1>8, <3>1, <3>2, <4>1 DEF SenderRead
    <3>4. line = <<>> /\ 1 = Stored + 1 /\ Underway  BY <1>n, <2>4, <3>1 DEF Underway
    <3>5. 1 \in Nat  OBVIOUS
    <3> QED  BY <2>q, <3>2, <3>3, <3>4, <3>5
  <2>7. CASE Answered
    <3>1. reply = <<"ACK">> /\ snd = "block" /\ next = Stored /\ line = <<>> /\ Underway
      BY <2>7 DEF Answered
    <3>2. Head(reply) = "ACK" /\ reply' = <<>>  BY <2>1, <3>1
    <3>3. SendBlock(next + 1)  BY <1>8, <3>1, <3>2 DEF SenderRead
    <3>4. next + 1 \in Nat /\ next + 1 = Stored + 1  BY <1>t, <3>1
    <3> QED  BY <2>q, <3>1, <3>2, <3>3, <3>4
  <2> QED  BY <2>5, <2>6, <2>7
<1>9. CASE SenderTimeout
  <2>1. /\ snd \in {"block", "eot"} /\ line = <<>> /\ reply = <<>> /\ pc # "returned"
        /\ SendBlock(next)
    BY <1>9 DEF SenderTimeout
  <2>2. faults = 0
    <3>1. faults' = faults \/ faults' = faults + 1  BY <2>1 DEF SendBlock, Transmit
    <3> QED  BY <1>t, <3>1
  <2>3. Asking \/ BlockSent \/ Answered \/ EndSent  BY <1>p, <2>1, <2>2
  <2>4. <<"ACK">> # <<>> /\ <<EOT>> # <<>>  OBVIOUS
  <2> QED  BY <1>b, <2>1, <2>3, <2>4 DEF Asking, Answered, EndSent
<1>10. CASE UserCancels
  BY <1>10 DEF UserCancels
<1>11. CASE LoseReply
  <2>1. faults' = faults + 1  BY <1>11 DEF LoseReply
  <2> QED  BY <1>t, <2>1
<1>12. CASE UNCHANGED vars
  <2>1. UNCHANGED <<line, reply, pc, starting, retries, received, result, snd, next, faults>>
    BY <1>12 DEF vars
  <2>2. result # "retryexceed" /\ (pc # "returned" => Asking \/ BlockSent \/ Answered \/ EndSent)
    BY <1>p, <2>1
  <2>3. (Asking => Asking') /\ (Answered => Answered') /\ (EndSent => EndSent')
    BY <2>1 DEF Asking, Answered, EndSent, Underway, Stored
  <2>4. BlockSent => BlockSent'
    BY <2>1 DEF BlockSent, Underway, Stored, Record
  <2> QED  BY <2>1, <2>2, <2>3, <2>4
<1> QED
  BY <1>1, <1>2, <1>3, <1>4, <1>5, <1>6, <1>7, <1>8, <1>9, <1>10, <1>11, <1>12
     DEF Next, Receiver

-----------------------------------------------------------------------------
(* The theorems                                                            *)

\* The invariant holds throughout.
THEOREM Invariant == Spec => []IInv
<1>1. Init => IInv  BY InitIInv
<1>2. IInv /\ [Next]_vars => IInv'  BY NextIInv
<1> QED  BY <1>1, <1>2, PTL DEF Spec

\* Whatever the line loses or damages, xmodem_get_record lets through the blocks of
\* the file, each once and in order.
THEOREM StoresOnlyTheFile == Spec => []PrefixReceived
<1>1. IInv => PrefixReceived  BY DEF IInv
<1> QED  BY <1>1, Invariant, PTL

\* However many blocks come, memcpy stays inside the buffer.
THEOREM NeverPastTheBuffer == Spec => []BufferHolds
<1>1. IInv => BufferHolds  BY DEF IInv
<1> QED  BY <1>1, Invariant, PTL

\* The framing and the phases, too, hold throughout.
THEOREM FramedInvariant == Spec => [](IInv /\ Framing /\ DoneMeansWhole /\ OnTrack)
<1> DEFINE J == IInv /\ Framing /\ DoneMeansWhole /\ OnTrack
<1>1. Init => J
  <2> SUFFICES ASSUME Init PROVE J  OBVIOUS
  <2>1. IInv  BY InitIInv
  <2>2. Aligned(line, 1)
    <3> DEFINE A == {1}
    <3>1. Len(line) = 0  BY DEF Init
    <3>2. A \in SUBSET (1..(Len(line) + 1)) /\ 1 \in A /\ Len(line) + 1 \in A
          /\ \A i \in A : ~(i <= Len(line))
      BY <3>1
    <3> HIDE DEF A
    <3> QED  BY <3>2, Zenon DEF Aligned
  <2>3. Framing /\ DoneMeansWhole /\ OnTrack
    BY <2>2 DEF Init, Framing, DoneMeansWhole, OnTrack
  <2> QED  BY <2>1, <2>3
<1>2. J /\ [Next]_vars => J'
  BY NextIInv, NextFraming, NextOnTrack
<1> QED  BY <1>1, <1>2, PTL DEF Spec

\* As long as no byte was lost within a record, the script that recv runs is the
\* whole file.
THEOREM RunsTheWholeFile == Spec => []DoneMeansWhole
BY FramedInvariant, PTL

\* On a line that loses nothing, a transfer from a sender that uses CRC ends well
\* unless the user cancels it or memory runs out.
THEOREM PerfectLine == Spec => []PerfectLineDelivers
<1>1. IInv /\ Framing /\ DoneMeansWhole /\ OnTrack => PerfectLineDelivers
  <2> SUFFICES ASSUME IInv, Framing, DoneMeansWhole, OnTrack,
                      CrcSender, faults = 0, snd \notin {"idle", "cancelled"},
                      result \notin {"none", "remotecancel", "outofmem"}
               PROVE  result = "done" /\ received = File
    BY DEF PerfectLineDelivers
  <2>1. ~framed  BY DEF Framing
  <2>2. result = "done"  BY DEF IInv, TypeOK, OnTrack
  <2> QED  BY <2>1, <2>2 DEF DoneMeansWhole
<1> QED  BY <1>1, FramedInvariant, PTL

=============================================================================
