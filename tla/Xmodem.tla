-------------------------------- MODULE Xmodem --------------------------------
(***************************************************************************)
(* Receiving a file over a serial line (elua_src_base/src/xmodem.c) for    *)
(* the shell command recv, with the sender at the other end of the line.   *)
(*                                                                         *)
(* The receiver reads bytes: when the byte that starts a record is lost,   *)
(* the bytes after it are read as commands.  A record is cut down to five  *)
(* bytes: SOH, block number, its complement, one data byte for the 128 of  *)
(* the code, one check byte for the two of the code.                       *)
(***************************************************************************)
EXTENDS Integers, Sequences

CONSTANTS
  File,          \* what is sent: a sequence of data bytes, one per block
  BlockMod,      \* block numbers are unsigned char: 256 in the code
  RetryLimit,    \* XMODEM_RETRY_LIMIT
  InitialBlocks, \* XMODEM_INITIAL_BUFFER_SIZE, in blocks
  MoreBlocks,    \* XMODEM_INCREMENT_AMMOUNT, in blocks
  CrcSender,     \* TRUE: the sender uses CRC, FALSE: the checksum
  FaultKinds,    \* what the line may do: "lost", "damaged", "framing", "reply"
  MaxFaults      \* bound: how often

SOH == 1
EOT == 4
CAN == 24
Garbled == 300        \* a damaged byte: equal to none the protocol uses

ASSUME XmodemAssumption ==
  /\ File \in Seq(0..255) /\ BlockMod \in 2..256
  /\ RetryLimit \in Nat \ {0} /\ InitialBlocks \in Nat \ {0} /\ MoreBlocks \in Nat \ {0}
  /\ CrcSender \in BOOLEAN /\ MaxFaults \in Nat
  /\ FaultKinds \subseteq {"lost", "damaged", "framing", "reply"}

VARIABLES
  line,      \* bytes on their way to the board
  reply,     \* bytes on their way back
  pc,        \* the receiver: "loop", "listen", "record", "returned"
  starting, packnum, retries, limit,   \* its local variables
  received,  \* the blocks copied to *dest, size = Len(received)
  result,    \* what xmodem_receive returned
  snd,       \* the sender: "idle", "waiting", "block", "eot", "ended", "cancelled"
  next,      \* the block the sender is sending
  faults,    \* how often the line has failed
  framed     \* history: a record has arrived with a byte missing

vars == <<line, reply, pc, starting, packnum, retries, limit, received, result,
          snd, next, faults, framed>>
boardVars  == <<pc, starting, packnum, retries, limit, received, result>>
senderVars == <<snd, next>>

Crc(d) == 400 + d
Checksum(d) == 1000 + d   \* apart from Crc of any byte, Garbled too
Complement(b) == 255 - b
Number(n)   == n % BlockMod

Record(n) == <<SOH, Number(n), Complement(Number(n)), File[n],
               IF CrcSender THEN Crc(File[n]) ELSE Checksum(File[n])>>

Init ==
  /\ line = <<>> /\ reply = <<>>
  /\ pc = "loop" /\ starting = TRUE /\ packnum = Number(1) /\ retries = RetryLimit
  /\ limit = InitialBlocks /\ received = <<>> /\ result = "none"
  /\ snd = "idle" /\ next = 1 /\ faults = 0 /\ framed = FALSE

-----------------------------------------------------------------------------
(* The line                                                                *)

Without(s, i) == SubSeq(s, 1, i - 1) \o SubSeq(s, i + 1, Len(s))

\* What may arrive of the bytes s: all of them, none, all with one damaged
\* after the first, or all but one.
Arrivals(s) ==
  {s} \cup (IF faults = MaxFaults THEN {} ELSE
    (IF "lost"    \in FaultKinds THEN {<<>>} ELSE {}) \cup
    (IF "damaged" \in FaultKinds THEN {[s EXCEPT ![i] = Garbled] : i \in 2..Len(s)} ELSE {}) \cup
    (IF "framing" \in FaultKinds THEN {Without(s, i) : i \in 1..Len(s)} ELSE {}))

Transmit(s) == \E a \in Arrivals(s) :
  /\ line' = line \o a
  /\ faults' = IF a = s THEN faults ELSE faults + 1
  /\ framed' = (framed \/ Len(a) \in 1..(Len(s) - 1))

\* What the board sends is shown on the terminal until the sender is started.
Replied(s) == IF snd = "idle" THEN reply ELSE reply \o s

-----------------------------------------------------------------------------
(* The sender, as any terminal program: it waits for the receiver's first  *)
(* byte, repeats a block for a NAK or for want of an answer, and goes on for an   *)
(* ACK.                                                                    *)

StartByte == IF CrcSender THEN "C" ELSE "NAK"

SendBlock(n) ==
  IF n <= Len(File)
  THEN Transmit(Record(n)) /\ snd' = "block" /\ next' = n
  ELSE Transmit(<<EOT>>) /\ snd' = "eot" /\ next' = n

\* the user starts it while the board still waits; later it is of no use
UserStarts ==
  /\ snd = "idle" /\ pc # "returned" /\ retries > 0
  /\ snd' = "waiting"
  /\ UNCHANGED <<line, reply, next, faults, framed, boardVars>>

SenderRead ==
  /\ snd \in {"waiting", "block", "eot"} /\ reply # <<>>
  /\ reply' = Tail(reply)
  /\ \/ /\ snd = "waiting" /\ Head(reply) = StartByte
        /\ SendBlock(1)
     \/ /\ snd \in {"block", "eot"} /\ Head(reply) = "NAK"
        /\ SendBlock(next)
     \/ /\ snd = "block" /\ Head(reply) = "ACK"
        /\ SendBlock(next + 1)
     \/ /\ \/ Head(reply) = "CAN"
           \/ snd = "eot" /\ Head(reply) = "ACK"
        /\ snd' = "ended"
        /\ UNCHANGED <<line, next, faults, framed>>
     \/ /\ \/ snd = "waiting" /\ Head(reply) \notin {StartByte, "CAN"}
           \/ Head(reply) = "C" /\ snd # "waiting"
        /\ UNCHANGED <<line, snd, next, faults, framed>>
  /\ UNCHANGED boardVars

\* Without any answer the sender repeats what it sent last.
SenderTimeout ==
  /\ snd \in {"block", "eot"} /\ line = <<>> /\ reply = <<>> /\ pc # "returned"
  /\ SendBlock(next)
  /\ UNCHANGED <<reply, boardVars>>

UserCancels ==
  /\ snd \in {"block", "eot"}
  /\ line' = line \o <<CAN>>
  /\ snd' = "cancelled"
  /\ UNCHANGED <<reply, next, faults, framed, boardVars>>

LoseReply ==
  /\ "reply" \in FaultKinds /\ faults < MaxFaults /\ reply # <<>>
  /\ reply' = Tail(reply)
  /\ faults' = faults + 1
  /\ UNCHANGED framed
  /\ UNCHANGED <<line, senderVars, boardVars>>

-----------------------------------------------------------------------------
(* The receiver                                                            *)

\* A read times out only when the sender has nothing to react to: it answers
\* well within the second that XMODEM_TIMEOUT is.
SenderSilent == snd \in {"idle", "ended", "cancelled"} \/ reply = <<>>

Return(r, answer) ==
  /\ pc' = "returned" /\ result' = r
  /\ line' = <<>>                                \* xmodem_flush
  /\ reply' = Replied(answer)

\* while( retries-- )
Loop ==
  /\ pc = "loop"
  /\ IF retries = 0
     THEN /\ Return("retryexceed", <<"CAN", "CAN", "CAN">>)
          /\ UNCHANGED retries
     ELSE /\ retries' = retries - 1
          /\ pc' = "listen"
          /\ reply' = IF starting THEN Replied(<<"C">>) ELSE reply
          /\ UNCHANGED <<line, result>>
  /\ UNCHANGED <<starting, packnum, limit, received, senderVars, faults, framed>>

\* mutant: a short silence counts as the end of the file
TimeoutEnds ==
  /\ pc = "listen" /\ line = <<>> /\ SenderSilent
  /\ IF starting THEN pc' = "loop" /\ UNCHANGED <<line, reply, result>>
                 ELSE Return("done", <<"ACK">>)
  /\ UNCHANGED <<starting, packnum, retries, limit, received, senderVars, faults, framed>>

Listen ==
  /\ pc = "listen"
  /\ line # <<>>
  /\ IF Head(line) \in {EOT, CAN}
     THEN /\ Return(IF Head(line) = EOT THEN "done" ELSE "remotecancel", <<"ACK">>)
          /\ UNCHANGED starting
     ELSE /\ line' = Tail(line)
          /\ pc' = IF Head(line) = SOH THEN "record" ELSE "loop"
          /\ starting' = (starting /\ Head(line) # SOH)
          /\ UNCHANGED <<reply, result>>
  /\ UNCHANGED <<packnum, retries, limit, received, senderVars, faults, framed>>

ListenTimeout ==
  /\ pc = "listen" /\ line = <<>> /\ SenderSilent
  /\ pc' = "loop"
  /\ UNCHANGED <<line, reply, starting, packnum, retries, limit, received, result, senderVars,
                 faults, framed>>

\* mutant: any block number is taken
GoodCrcOnly(s) ==
  /\ s[2] = Complement(s[1])
  /\ s[4] = Crc(s[3])

\* the checks of xmodem_get_record on the bytes after SOH
GoodRecord(s) ==
  /\ s[1] = packnum
  /\ s[2] = Complement(packnum)
  /\ s[4] = Crc(s[3])

\* mutant: a record cut short is waited for without a time out
BadRecordWaits ==
  /\ pc = "record" /\ Len(line) >= 4 /\ ~GoodRecord(line)
  /\ line' = SubSeq(line, 5, Len(line))
  /\ pc' = "loop"
  /\ reply' = Replied(<<"NAK">>)
  /\ UNCHANGED <<starting, packnum, retries, limit, received, result, senderVars, faults, framed>>

\* A record that fails a check, or that ends early, is answered with NAK.
BadRecord ==
  /\ pc = "record"
  /\ \/ /\ Len(line) >= 4 /\ ~GoodRecord(line)
        /\ line' = SubSeq(line, 5, Len(line))
     \/ /\ Len(line) < 4 /\ SenderSilent
        /\ line' = <<>>
  /\ pc' = "loop"
  /\ reply' = Replied(<<"NAK">>)
  /\ UNCHANGED <<starting, packnum, retries, limit, received, result, senderVars, faults, framed>>

\* mutant: off by one
NeedsMoreLate == Len(received) > limit
NeedsMore == Len(received) + 1 > limit

\* A good one: flush, reset the retries, enlarge the buffer if needed,
\* acknowledge and copy.
\* mutant: the retries are not reset
StoreRecordKeepsRetries ==
  /\ pc = "record" /\ Len(line) >= 4 /\ GoodRecord(line)
  /\ line' = <<>>
  /\ packnum' = Number(packnum + 1)
  /\ limit' = IF NeedsMore THEN limit + MoreBlocks ELSE limit
  /\ reply' = Replied(<<"ACK">>)
  /\ received' = Append(received, line[3])
  /\ pc' = "loop"
  /\ UNCHANGED <<retries, starting, result, senderVars, faults, framed>>

StoreRecord ==
  /\ pc = "record" /\ Len(line) >= 4 /\ GoodRecord(line)
  /\ line' = <<>>
  /\ retries' = RetryLimit
  /\ packnum' = Number(packnum + 1)
  /\ limit' = IF NeedsMore THEN limit + MoreBlocks ELSE limit
  /\ reply' = Replied(<<"ACK">>)
  /\ received' = Append(received, line[3])
  /\ pc' = "loop"
  /\ UNCHANGED <<starting, result, senderVars, faults, framed>>

\* realloc may fail: the record is dropped and the sender cancelled
OutOfMemory ==
  /\ pc = "record" /\ Len(line) >= 4 /\ GoodRecord(line) /\ NeedsMore
  /\ Return("outofmem", <<"CAN", "CAN", "CAN">>)
  /\ retries' = RetryLimit
  /\ packnum' = Number(packnum + 1)
  /\ limit' = limit + MoreBlocks
  /\ UNCHANGED <<starting, received, senderVars, faults, framed>>

-----------------------------------------------------------------------------
Receiver == Loop \/ Listen \/ ListenTimeout \/ BadRecord \/ StoreRecord \/ OutOfMemory

Next == Receiver \/ UserStarts \/ SenderRead \/ SenderTimeout \/ UserCancels \/ LoseReply

Spec == Init /\ [][Next]_vars

\* the board runs, and a started sender reads what it is sent
FairSpec == Spec /\ WF_vars(Receiver) /\ WF_vars(SenderRead)

-----------------------------------------------------------------------------
IsPrefixOfFile(s) == Len(s) <= Len(File) /\ \A i \in 1..Len(s) : s[i] = File[i]

\* Whatever the line does, no block is stored twice, out of order, or damaged:
\* what xmodem_get_record lets through is always the next block of the file.
PrefixReceived == IsPrefixOfFile(received)

\* memcpy stays inside the buffer as realloc made it.
BufferHolds == Len(received) <= limit

\* As long as no byte was lost within a record, whatever else was lost or
\* damaged, what recv executes is the whole file.
DoneMeansWhole == ~framed /\ result = "done" => received = File

\* On a line that loses nothing, a transfer from a sender that uses CRC, started and
\* not cancelled by the user, ends well unless memory runs out.  (The receiver asks
\* for CRC only: any other sender waits for a NAK that does not come.)
PerfectLineDelivers ==
  CrcSender /\ faults = 0 /\ snd \notin {"idle", "cancelled"}
  /\ result \notin {"none", "remotecancel", "outofmem"} =>
    result = "done" /\ received = File

\* recv always comes back to the shell, whatever happens to the line.
Returns == <>(pc = "returned")
=============================================================================
