# A verification project for eLua Builder

This directory holds TLA+ modules, TLC configurations and TLAPS proofs about the
code in this repository: the eLua Builder web application (`app/`) and the eLua
runtime it compiles (`elua_src_base/`). Everything is translated from the
source; the line ranges each definition stands for are in `PROJECT.json`.

## 1. Inventory

### 1.1 The web application (`app/`, `lib/`, `web/`)

| part | state | operations | hard behaviour | what makes it correct |
|---|---|---|---|---|
| build pipeline: `models/builder/model.lua`, `controllers/builder.lua` | rows of `builds` and `builds_files`; one directory per build and the shared parent directory `users/<login>/builds` | save, generate (copy the eLua tree, copy the ROM file system, run scons, zip, clear, move back), delete, download | requests are separate processes; every SQL statement and every `os.execute` is a step of its own; a step can fail without stopping the next | an image reported as generated comes from this generation and this build; rows and directories agree; links survive an edit |
| file store: `models/file/model.lua`, `controllers/files.lua` | rows of `files`, the user's `rom_fs` directory, the suggested files | upload, delete, touch on save | check-then-insert, truncate-then-write, two tables with overlapping ids | one row per name, a row per file |
| accounts: `models/user/model.lua`, `controllers/user.lua`, `lib/events.lua` | rows of `users`, session cookie, recovery hash | register, log in, edit, forgot password, reset | check-then-insert on the login, a hash that several actions overwrite | a recovery link works once; one account per login |
| suggestions, flash messages, pages, table widgets | - | - | - | presentation, not modelled |

### 1.2 The eLua runtime (`elua_src_base/src`)

| part | state | operations | hard behaviour | what makes it correct |
|---|---|---|---|---|
| device buffers: `buf.c` | size, read and write pointer, count, memory | set, flush, write (interrupt), read (main program) | the handler runs between any two steps of an unlocked reader; overflow drops the oldest element | the fields describe one queue; copies are whole; order is kept |
| ADC: `elua_adc.c`, `platform/lm3s/platform.c`, `modules/adc.c` | per channel: request, pending flag, smoothing ring; the sequence of active channels | sample, getsample(s), set smoothing, stop, interrupt | the interrupt handler changes everything the main program reads | a blocked reader wakes; a flushed channel holds no old samples |
| serial receive and virtual timers: `common.c` | timer counters and reset indexes | recv with timeout, set clock, delay, timer interrupt | a timeout racing an arriving byte, counter wrap-around | a timeout is neither early nor lost |
| XMODEM: `xmodem.c` with `shell_recv` of `shell.c` | packet number, retries, received size, the buffer | receive | lost, corrupted, repeated bytes and acknowledgements, memory exhaustion | what is accepted is a prefix of what was sent; the receiver always returns |
| TCP/IP: `elua_uip.c`, `modules/net.c`, the connections of `uip/uip.c` | per connection: uIP's state and unacknowledged data, the request of the program and its result; the pending accept | socket, connect, accept, send, recv, close, the uIP callback, retransmission | the callback runs in an interrupt while the main program waits in a loop; segments are lost, late, repeated; a connection ends at any moment | a waiting call returns; what send reports has arrived once and in order; what was acknowledged is not lost |
| remote calls: `modules/luarpc.c` with `luarpc_desktop_serial.c` and `luarpc_elua_uart.c` | the two byte streams; the server's connection and count of link errors; the client's handle | connect, call, get, assign, dispatch | nothing marks where a request begins; a client gives up while the server works; a lost byte | both ends agree where a message starts; an answer belongs to its request; a client gets back in step |
| ROM file system: `romfs.c`, `mkfs.py` | the image; the table of open files and their count | pack, open, read, seek, close, list | a full table, two readers of one format, sizes and names at their limit | the board reads what was packed |
| device manager: `newlib/devman.c`, `newlib/stubs.c`; MMC file system: `mmcfs.c` | registered devices; FatFs's own tables | register, and the calls passed on | - | the call reaches the device of the path |
| shell: `shell.c` | the line, the arguments | parse, run, cat, ls, recv | quoting | arguments are what was typed |
| small modules `modules/*.c`, `term.c`, `linenoise.c` | - | register access and bindings | - | thin wrappers |
| Lua core, dlmalloc, uIP, FatFs, vendor libraries, platform start-up code | - | - | - | third-party code, taken as given |

## 2. The modules

| module | models | built from |
|---|---|---|
| `Buf` | the operations of `src/buf.c` on one descriptor, as operators | - |
| `LossyFifo` | abstract specification: what a device buffer promises a handler and a reader | - |
| `RingBuffer` | one buffer between the interrupt handler and an unlocked `buf_read` | `Buf`; refines `LossyFifo` |
| `RingBufferProofs` | the theorems about `RingBuffer`, and that it implements `LossyFifo` | `RingBuffer`, `TLAPS` |
| `Adc` | the Lua module `adc` against `ADCIntHandler` of the LM3S | `Buf` |
| `Xmodem`, `MCXmodem` | `xmodem_receive`, a sender and a faulty line | - |
| `FileStore` | uploads, deletions and links of one user's files, as the steps of a request | - |
| `BuildPipeline`, `MCBuildPipeline` | save, generate and delete of builds, next to the requests of the file store | `FileStore` (extended: the same rows, disk and links) |
| `ElNet` | the TCP services of a program against the uIP callback, uIP's connections, and remote hosts | - |
| `LuaRpc`, `MCLuaRpc` | an `rpc` client and `rpc.server` over a serial line | - |
| `RomFs`, `MCRomFs` | the image `mkfs.py` packs, and what `romfs.c` reads from it | - |
| `XmodemProofs` | the theorems about `Xmodem` | `Xmodem`, `TLAPS` |
| `ElNetProofs` | the theorems about `ElNet` | `ElNet`, `TLAPS` |
| `BuildPipelineProofs` | the theorems about the files of a user, with the builds running next to them, and about the images builds hand out | `BuildPipeline`, `TLAPS` |
| `BuildSelectionProofs` | the theorems about what a build consists of | `BuildPipelineProofs` |
| `LuaRpcProofs` | the theorems about `LuaRpc` | `LuaRpc`, `TLAPS` |
| `AdcProofs` | the theorems about `Adc` | `Adc`, `TLAPS` |
| `RomFsProofs` | the theorems about `RomFs` | `RomFs`, `TLAPS` |

### 2.1 From the code to the modules

**Buf, RingBuffer.** The C pointers count bytes masked with a power of two; the
model counts elements. `RingBuffer` splits `buf_read` at every access the handler
can come between: `ReadCheck` (count test), `ReadAddress` (the source pointer),
`ReadByte` (one byte of the copy), `ReadCommit` (the locked tail). `Interrupt` is
`buf_write`, atomic because it runs in the handler. `Setup` and `SetupFails` are the
resize in `adc_setup_channel`, whose early return leaves interrupts off; for a
buffer of one element `buf_set` ignores a failed reallocation, so there is none.
`buf_flush` outside a lock (`adc_update_smoothing`) is one step in `Adc`.

**Adc.** The program is a process with a program counter, one step per access to
what the handler also changes; the handler is `IntEnter` (read the converter),
`IntChannel` once per channel, `IntLeave` (new sequence, next trigger), and no
step of the program comes in between. The four status bits of a channel share a
byte, so each assignment to one is `LoadByte` and `StoreByte`. `ch_active &= ~bit`
is split in the same way. Sample values are the pair *channel, number of the
conversion*, so a property can tell whose sample it sees. `Habits` says what the
programs of a run do beyond sampling and reading: set the smoothing of resting
channels, of sampling ones, set the clock, run out of memory. Left out: the
zeroing loop of the ring is one step; a store outside a ring that is too small
changes nothing the model holds; an empty sequence, which dereferences `NULL`,
either stops the processor (`StartFaults`) or is carried on with; the clock bit, which
shares a byte with `running`, and the two reads of `adc_samples_available` are one
step each.

**Xmodem.** The receiver is byte-exact in its control: outside a record any byte is
a command, so a lost byte turns the rest of a record into commands. A record has
one data byte and one check byte. `ListenTimeout` is the expiry of the receive
timeout: possible whenever the line is empty and the sender has nothing to answer.
The user may start the sender any time while the board waits; until then what
the board sends goes to the terminal. The sender is the
environment, as XMODEM prescribes it.

**FileStore, BuildPipeline.** A request is a process. Each SQL statement, file
operation and `os.execute` is one step; a shell command line that is one
`os.execute` is one step with the effects of all its commands, including those
after a failed `cd`. `BuildPipeline` extends `FileStore`: a save first writes the
build row, then walks the selection with `FileStore`'s actions, then generates.
The compiled image is abstract: whose build, which generation, which files. Its
binary is named by the CPU (`SConstruct:269`), so a member of `Targets` is a CPU: two
boards that share one, as STR9-COMSTICK and STR-E912 do, are one target. Merged into
one step are the queries of `validate` with the first write of `save`, and the test of
a deleted directory with the delete of its row. Left out are the renaming of `.lua` to
`.lc` in the mode that compiles and the error of `mkfs` at an unreadable file. Each
request has a Lua state of its own, so the globals `file_bin` and `file_elf` of
`checksAndCopyBin` are local to it. The `Faults` of a run say what the environment
does: `scons` (the compiler fails), `crash` (a request is killed), `overlap`
(requests share builds and targets), `retarget` (the target of a build is changed),
`oldpage` (an edit arrives from the page of a deleted build).

**ElNet.** The program is at rest, between the test of a connection and the posting
of a request (`Request`, `Post`), or spins until the state of the request is idle
(`Returns`). A step of the interrupt handler is its work for one connection:
`Segment`, `Fin`, `Reset`, `Connected` and so on are what `uip_process` does with
one arriving segment, `Retransmit`, `GiveUp` and `Poll` what it does in a timer
interrupt; each calls `Callback`, which is `elua_uip_appcall`. `Poll` is also the
forced poll, which every Ethernet interrupt before the next tick makes
(`elua_uip.c:100-107`): it calls the callback with data in flight, sends that data
again and starts the count of retransmissions anew (`uip.c:1775`). Bytes are numbered,
so a byte that is lost, repeated or out of place shows. A lost segment or a lost
acknowledgement is one that does not come: `PeerGets` and the `ack` of `Segment`
are separate, and `Retransmit` does not know which of the two was lost. The peers
may do all of that in any order or never. Left out: DHCP, DNS, ARP, IP, UDP, the
telnet console, the `'\r'` that a recv up to the end of a line skips, and an interrupt
between the assignments of `uip_connect`.

**LuaRpc.** The two streams are sequences of bytes, since what a desynchronised
server does depends on the bytes it takes for commands, lengths and types. A
cursor (`Piece`, `Str`, `Item`, `Vars`) says whether a read of the code finds all
its bytes, waits where a read of the transport begins (the board waits for ever
there), or stops inside one (a timeout, and with it a link error). Everything a
request or answer reads is then taken at once; what has been read before an error
is gone. A length read from the stream goes to `alloca` before any byte of the string
is read, so `Str` compares it with `Stack`, the longest string a stack holds: above it
the board faults (`ServerDies`), or the client's program does, and the next one has to
connect (`ClientDies`). `Quiet` is the one assumption about time: the client's second, or the
fifth of a second of opening the port, is longer than all the server does except
running the called function. Left out: sending functions and references, names
with dots, globals of the server other than the two it has here, converting number
formats, `rpc.listen`, `rpc.peek` and `rpc.close`.

**RomFs.** `Mkfs` is the array of bytes, `Find` and `Directory` are the two readers
of it (`romfs_open_file`, and `romfs_get_dir_entry` for `ls`). A byte has four
values and a name two letters, so that the limits of sizes and names are reached.

### 2.2 Abstract specifications

`LossyFifo` is a queue that never makes its writer wait, loses its oldest element
when full, and delivers an untorn element unless it overflowed during the get.
`RingBuffer` is checked, and proved, to implement it with the queue read off the
slots (`BufContents`), so the pointers and the count are implementation. The
program's copy maps to a get that is begun and ended.

## 3. What the runs check

| run | configuration | what it shows |
|---|---|---|
| `ring` | sizes 1, 2 and 4, two-byte elements, bounded writes | `PointersAgree`, `NoUnderflow`, `CopyIntact`, `MostRecent`; `ImplementsFifo` (refinement); `Drains` |
| `adc` | two channels, counts 1 and 2, smoothing off or over 2 samples, three calls, every habit | `Served`, `Filed`, `SumIsRing`, `RequestKept`, `WarmMeansFull`, `WaitEndsIfConverting` |
| `xmodem` | four blocks, block numbers modulo 3, three faults of any kind | `BufferHolds`, `PrefixReceived`, `DoneMeansWhole`, `PerfectLineDelivers`, `Returns` |
| `builder` | two requests on different builds, targets and files | `OwnFreshImage`, `BuildsAgree`, `ParentClean`, `ImageIsSelection` |
| `builder_races` | two requests that may share all: uploads, deletions, saves, generations | `OneRowPerName`, `RowsMatchDisk`, `LinksAlive`, `PAnswered` |
| `builder_faults` | one request at a time: failures, crashes, changed targets, old pages | `OwnImage`, `OwnLog`, `FailureIsReal` |
| `net` | two connections, two peers, three calls, segments of two bytes, one retransmission | `SentArrived`, `NothingLost`, `AcceptedOnce`, `ShortMeansError`, `CallsEnd`, `SendEnds` |
| `rpc` | four requests, two link errors, one byte lost in either direction | `HandleInStep`, `RightAnswer`, `RunsAsAsked`, `Recovers` |
| `romfs` | lists of up to three of seven files, two descriptors | `ReadsBack`, `ListsAll` |

Some properties have a premise; each marks a place where the unconditional
property is false of the code:

* `CopyIntact` excepts a buffer that overflowed during the copy.
* `OneRowPerName`, `RowsMatchDisk` and `LinksAlive` except names that two requests
  worked on at once (`overlapped`): check-then-insert without a transaction does
  make two rows.
* The properties of `builder` are those of generations that do not overlap while
  they share a target: all of them park their image in one directory under a name
  given by the CPU, and overlapping ones swap images (`MCBuildOverlap.cfg`).
* `ImageIsSelection` says that the image has, under each name, a selected file that
  belongs there, whole, and nothing where there is none. That every selected file is
  in it is false: two of one name share a place (`MCBuildNames.cfg`).
* `RequestKept` speaks of the channels in `due`: samples asked for that no call has
  called off, and whose flag byte no store has overwritten after the handler
  changed it. The lost update of `op_pending` makes a blocking `getsample` wait for
  ever.
* `DoneMeansWhole` excepts transfers in which a byte was lost inside a record: the
  rest of the record is then read as commands, and a data byte with the value of
  EOT ends the transfer with success and a part of the file.
* `NothingLost` excepts the peers in `rough`. Data they were told has arrived is
  dropped when a recv has timed out (the connection stays open, and the callback
  throws away what comes), when a segment holds more than the recv asked for or
  goes on after the end of the line, and when data comes with the handshake or the
  FIN. A recv that overflows does not even report it: `ERR_OVERFLOW` is overwritten
  with `ERR_OK` at the end of the same callback.
* `CallsEnd`, about connect and close, and `SendEnds` start from a connection that has
  not ended. One that ends between `uip_conn_active` and the posting of the request is
  served by no callback, and the call spins for ever. `SendEnds` also needs peers that
  answer (its premise `PeersAnswer`): with a silent one, polls start the count of
  retransmissions anew, the connection is never given up, and send spins for ever
  (`MCElNetSilent.cfg`).
* `RightAnswer` and `HandleInStep` speak of handles nothing has gone wrong with: a
  late answer stays in the stream until the client connects again. `RunsAsAsked`
  allows late clients, but neither lost bytes nor a value that cannot be sent: after the latter the commands that follow are taken for the missing
  argument, and a call nobody asked for runs. A type of value the server does not
  know shuts it down, and so does a length its stack does not hold (`MCLuaRpcLength.cfg`):
  `Recovers` ends with a handle or with a server that is gone.
* `ReadsBack` and `ListsAll` speak of lists the format can hold: `mkfs.py` writes the
  low 16 bits of a larger size, and of two names that differ in case only, the
  second is never found.

### 3.1 Where the code disagrees with its documents

| run | what TLC finds |
|---|---|
| `builder_stale` | the command that should empty a build directory is a syntax error for the shell; after a failed compilation the previous binary is reported as the new one |
| `adc_channel` | an unread sample lies in a slot that the next sequence gives to another channel; `getsample` returns that channel's value |
| `net_window` | an acknowledgement that announces another window is counted with the new segment size; bytes that have arrived are sent again, while send returns the full length |

Four more configurations, with one property each, are kept for statements the models
refute. They are not among the runs of `PROJECT.json`; in each TLC stops at a violation.

| configuration | property, and what TLC finds |
|---|---|
| `MCElNetSilent.cfg` | `SendReturns`. A peer stops answering after it has connected. Each retransmission is followed by a forced poll, which clears the count of retransmissions (`uip.c:1775`): `UIP_MAXRTX`, "the maximum number of times a segment should be retransmitted before the connection should be aborted" (`uip/uipopt.h:294`), is never reached, and send never returns |
| `MCLuaRpcLength.cfg` | `StaysUp`. One late client is enough: the command byte it leaves behind and the bytes of the next `rpc.connect` are read as the length of a name, which goes to `alloca` (`luarpc.c:1186`) and which no stack holds: the server is gone |
| `MCBuildNames.cfg` | `EverySelected`. A user's file and a suggested one of the same name are copied to one place (`model.lua:233`), and the image lacks one of the selected files |
| `MCBuildOverlap.cfg` | `OwnImage`. Two builds for one CPU are generated at once; both park their binary under one name (`model.lua:257`), and one is offered the image of the other |

Met while modelling, outside the models or of no consequence to a property, and not
hidden by them: the empty sequence of `platform_adc_update_sequence`, which
dereferences `NULL`; a `rm -rf *` after a failed `cd` (`builder/model.lua:331`); an edit
of a configuration lost to a generation that began before it (`:335`); links of a
suggested file dropped with a user's file of the same number
(`file/model.lua:197`); `luarpc_elua_uart.c` sends on `CON_UART_ID` whatever UART the
connection is on, and as a client takes its timer from the argument that names the
UART; `shell.c:146` walks in front of an empty transfer while stripping its padding;
a name of more than 30 letters opens the ROM file whose name is its first 30.

### 3.2 Bounds

Every bound is a named constant. `ring`: the largest size is reached and overflowed
during a copy, and writes go on after a wrap. `adc`: two channels are enough for
a slot to be dealt to another channel and for one channel to stop while the other
goes on; three calls are *sample, sample, read* and *setsmoothing, sample, read*,
the shortest sequences in which the shared state of two calls meets; the ring of
two wraps. Conversions beyond `MaxConv` share a number, which no property of the
passing runs depends on. `xmodem`: four blocks make the block number wrap and the
buffer grow; three faults reach the retry limit and recover from it. `builder`,
`builder_races`: two requests give every pairwise interleaving; two names separate a
user's file from a suggested one; two generations of a build are enough to find
something stale. Requests and targets are interchangeable in `builder`, which uses
that symmetry; it checks one action property and no liveness. `net`: sends and
receives of three bytes need two segments of two, so there is a middle and an end;
three calls are *accept, recv, recv* or *socket, connect, send*; with one
retransmission a segment is sent again and then given up. `Windows` has one member in
`net` (peers with a constant window) and two in `net_window`. `MCElNetSilent.cfg` needs
one connection and one peer. `rpc`: the numbers sent
look like `RPC_READY` and like return codes; more than two link errors close the
connection, and a stream of 12 bytes holds several attempts to connect; with lengths
of two bytes, a `Stack` of 255 takes every length that is meant and no length made of
the bytes of a header, as 64 KB do with lengths of four. `MCBuildNames.cfg`
and `MCBuildOverlap.cfg` are the smallest instances with two files of one name, and with two
builds of one CPU. `romfs`: the
data of the files look like ends of names, sizes and names, one name is too long to
be packed, one file is one byte too large, two names differ in case.

The runs with `CHECK_DEADLOCK FALSE` are those whose system may rightly stop: the
bounded calls of `Adc` and `ElNet`, a finished transfer, an `rpc` server that is down,
a web server whose bounds on builds and generations are used up. `ring` and `romfs`
check for deadlock.

### 3.3 Fairness

* `RingBuffer`: the reader polls for ever, as the input loops of the shell and of
  XMODEM do. The device is not required to deliver.
* `Adc`: weak fairness of the handler (a raised interrupt is taken) and of the
  timer; strong fairness of the program, which runs between interrupts: a
  conversion takes longer than the handler.
* `Xmodem`: the receiver runs, and a sender that has started reads its input.
  Nothing is assumed of the line.
* `BuildPipeline`: the server runs each request it has accepted, per request; no
  fairness between requests, and none of new requests.
* `ElNet`: the program runs, and the timer interrupts that drive `uip_periodic` go
  on. Nothing is assumed of the peers or the network, and no timeout of a call is
  needed for `CallsEnd`. `SendEnds` has its premise in the property: `PeersAnswer`, peers
  that take what is sent and acknowledge it, each of which is weakly fair.
* `LuaRpc`: both programs run, and a client without a handle calls `rpc.connect`
  again. Nothing forces a request, and the called function may fail, but returns.

## 4. What is proved

The theorems hold for every value of the constants the named assumptions of a
module allow. Where one has a premise, the premise marks a place where the code
does not keep the property, as in section 3, and some run satisfies it. `PROJECT.json`
lists the theorems with the property each of them states.

### 4.1 Device buffers: `RingBufferProofs`

For every set of sizes, every element width and every number of writes `Spec`
implies always `TypeOK`, `PointersAgree`, `NoUnderflow`, `CopyIntact`, `MostRecent`
and `MaskLeftOnlyByFailure`. The assumptions are those of `RingBuffer`: sizes and
width are positive naturals, the bound on writes is a natural.

None of these is inductive alone. `IInv` is their conjunction: that a copy is
intact needs the reader's slot to be the oldest (`CopyIntact`), which survives a
write only because the write pointer is `count` ahead (`PointersAgree`) and the
buffer is not full; that a commit does not underflow needs `NoUnderflow`; that the
slots hold consecutive elements (`MostRecent`) needs the pointers. The lemmas
`At...` are the modular arithmetic of an index in a ring, stated once;
`WriteRoom`, `WriteFull` and `ConsumeSlots` say what the two operations do to the
slots; one lemma per action shows that the action preserves `IInv`, and `NextIInv`
puts them together.

`BufferIsAFifo` is the refinement: `Spec => ImplementsFifo`. The mapping reads the
queue off the slots, which `MostRecent` makes the last `count` numbers written, so
each step is a computation with consecutive numbers: a write appends and drops the
oldest when full, a flush or a resize empties, a commit ends the get. `GetInv` adds
what the mapped get needs: it is begun exactly while the bytes are copied, and no
byte copied is older than the element it began with.

### 4.2 XMODEM: `XmodemProofs`

For every file of bytes, every modulus of the block numbers, every buffer size,
retry limit and number of faults: `PrefixReceived`, `BufferHolds`, `DoneMeansWhole`
and, for a sender that uses the CRC, `PerfectLineDelivers`.

`PrefixReceived` rests on two facts. `InStep` is stop and wait: the sender is at the
last stored block or the next one, and at most one ACK is on its way. `Unmistakable`
says that four bytes anywhere on the line that pass the checks of
`xmodem_get_record` are the next block, wherever the receiver begins to read; it is
needed because after a lost byte the receiver reads records out of the middle of
others. `DoneMeansWhole` needs `Framing`: as long as no byte was lost inside a
record, there is a way to cut the line into records, cancels and ends of
transmission. `PerfectLineDelivers` needs `OnTrack`, the phases of a transfer in
which nothing goes wrong; with a sender that uses the arithmetic checksum the
receiver, which asks for the CRC and knows nothing else, gives up, hence the premise.

The proof corrected the model: a one-byte checksum had been modelled by a value
that data can have, which let a wrong record pass; and the premise about the sender
was missing from the property.

### 4.3 TCP: `ElNetProofs`

For any number of connections, peers, calls, bytes and retransmissions:
`AcceptedOnce`, `NothingLost`, the action property `ShortMeansError`, and
`SentArrived` as long as no peer announces a window smaller than a segment (`Steady`;
without it the statement is false, which is what `net_window` shows).

What makes the proofs long is that an entry of `uip_conns` is used again as soon as
its connection ends, while the program still holds a socket for it. `IInv` says whose
an entry is: `OneCall` (only the connection of the call in progress has a request),
`OneSlot` (a peer has one entry, ever), `Once` and `Handing` (where a connection is
on its way to `accept`), `Reception` (an established connection takes data only for a
recv) and `Account` (what a request says it has left). For `SentArrived` the
invariant goes on with `Flight` (what is unacknowledged belongs to a send), `Books`,
`Fresh` and `Accounts`: what a peer has got, what send has reported of it and what
the call in progress has sent add up, in every order of segments,
acknowledgements, retransmissions (by the timer or by a poll) and resets.

### 4.4 Files: the first part of `BuildPipelineProofs`

About `PSpec`, so with saves, generations and deletions of builds running next to
uploads and deletions of files, for any number of requests, names, builds and
suggested files. Requests and names are finite sets (`StoreAssumption`), so there is
always a free inode.

Under every fault, killed requests included, `RowsInv` is invariant and with it
`OneRowPerName`: what a request has looked up and still relies on (`Chosen`,
`Looked`, `Deleting`, `Wanted`) holds as long as nobody else works on the same name,
and two requests that do share a name have put it into `overlapped` (`Apart`).

When no request is killed, `FilesInv` adds the disk: an inode has one name
(`Disks`), a name nobody is at work on has a row exactly when it has a whole file
(`Match`), and a name a request is half way through is as that half leaves it
(`Half`). From it follow `RowsMatchDisk` and `LinksAlive`. The premise is needed: a
request killed between its row and its file leaves one without the other.

### 4.5 Builds: the second part of `BuildPipelineProofs`, and `BuildSelectionProofs`

Under `Separate` requests that run at the same time have different builds, targets
and files, and the target of a build changes only where there is one request. All
generations of a user park their binary in one directory under a name given by the
CPU, so requests that share one swap images, and nothing holds of them.

`PipeInv` is invariant whatever fails and whoever is killed: generations have numbers
of their own (`Numbers`), what lies in a directory was made for its build, and for
its target if targets do not change (`Dirs`), what a request knows from the steps
it has made is so (`Phases`: compiling, compiled, parked, answered), and what lies
in the parent directory belongs to a request that still has to move it back
(`Clean`, when nobody is killed). From it follow

* `OwnImage` and `FailureIsReal`, with nothing more;
* `OwnFreshImage`, when compilers do not fail and targets do not change. When a
  compiler fails the old binary is offered, which is the finding of `builder_stale`;
* `OwnLog`, with one request at a time, who may be killed half way: two would share
  the one log of the parent directory;
* `ParentClean`, when nobody is killed.

`BuildsAgree` and `ImageIsSelection` hold for any number of requests, builds, names,
generations and selections when runs are `Orderly`: concurrent requests have different
builds and files (`Separate`); nobody is killed (a save that is killed leaves links
missing, a delete that is killed leaves links of a build that is gone); no page posts
the build of a deleted row; and the files of users are numbered above the suggested
ones, as `sql/create_db.sql:57` (from 77) and `sql/default_values.sql` (25 files) have
it. The last is needed: with a user's file of the number of a suggested one, TLC finds
`BuildsAgree` violated, because `file/model.lua:197` drops links by number alone.
Compilers may fail, and targets may change. Both properties follow from `SelInv`, the
invariant `SelectionInvariant` establishes:

* `Rooted`: a directory has its row, and a row that a delete has dropped stays so.
* `LinksOwed`: a link has its build, which selected its file, unless the request that
  will drop it is at the step that does.
* `LinksMade`: a selected file has its link, unless the save that makes it is still
  on its way to it, or was ended by a selected file that is gone.
* `Saves`: how far a save has come. The files it has dealt with keep their names,
  because it has claimed them; after the old files are cleared the directory holds
  nothing but selected files, whole, each under a name of its own or that of the
  autorun file it was chosen as (`Pure`, `Belongs`); while they are copied each is either
  still to be copied or in its place (`Copying`), and from then on all of them are.

### 4.6 ADC: `AdcProofs`

For every number of channels, request counts, smoothing lengths, habits of the
program, and any number of calls and conversions. The premise `calm` is in the
properties themselves: it holds until the program calls `setsmoothing` for a channel
that is being sampled, calls `setclock`, or runs out of memory. `RequestKept` is about
the channels in `due`, which a store to the flag byte that overwrites a change of the
handler's leaves out: the bit fields are written without a lock. `MCAdc` has programs
of every habit, so the premise is met by some of its states and not by others.

No lock protects what the program and `ADCIntHandler` share, apart from
`adc_setup_channel`. `AInv` (`calm` implies `TypeOK`, `Underway`, `Table` and
`Requests`) says why it is right all the same:

* `Underway`: where a conversion, the handler and the start of a sequence can be at
  the same time. A busy converter converts the channels of `ch_state` for a sequence
  that runs; while the program is in `platform_adc_start_sequence` the sequence does
  not run, so no conversion is under way and the handler cannot come. `Served` and
  `Filed` follow from it.
* `Table`: `ch_state` holds the channels of `last_ch_active`, each once, and the
  handler still has to visit only channels that are active. Otherwise it would serve
  a request twice, or one that has ended.
* `Requests`: `op_pending` is set exactly for the active channels (`Marked`), and the
  samples of a request that has been served are there, but for the one the program
  has taken and not counted yet (`Ready`, `Taken`). `RequestKept` follows.

`WarmMeansFull` (theorem `WarmWhenFull`) needs more than `AInv`, because the flag byte
is loaded in one access and stored in another, with the handler in between: a store
must not bring an old `smooth_ready` back, and the program must not empty a ring that
the handler goes on filling. `WInv` adds `WarmInv`:

* `Pointed`: `value_ptr` of a channel in the table is its slot, so that the sample
  the handler files and filters is one of the channel.
* `Busy`: a channel whose filter is being set is not sampled, and no store to it in
  progress has an old, clear `op_pending`.
* `Stored`: what the program has loaded of `smooth_ready` may be too early but never
  too late, as only the program clears the bit; and the program takes samples of a
  filtered channel only once its filter is warm.
* `Rings`: a ring has the size of its channel's length except while it is allocated;
  it is empty once flushed; and the ring of a filter that is not warm, or is about to
  lose the mark of it, holds samples of its own channel up to `smoothidx`.

The handler is then the only one to set `smooth_ready` (`MarkedBy`), and it does so at
a full ring (`Filtered`, `SmoothFills`).

`SumIsRing` (theorem `SumOfRingKept`) adds `SumInv`. The sum is a recursive function over
the ring, so what replacing one sample does to it (`SumReplaced`) and what a ring of zeros
sums to (`SumEmptied`) are inductions, as in 4.7. The rest says that only samples can get
into a ring: those in `sample_buf`, in the buffers and in the hand of the program
(`Numbers`, `Slotted`), which includes that a buffer is never read outside its slots. While
`adc_update_smoothing` is at work the sum is zeroed some steps before the ring is; that
nobody adds a sample in between is `Busy`. `PowerAssumption`, that `2^l` is a natural
number, is there because the prover knows nothing of powers.

That a table can be made (`SortedIs`) rests on lemmas about the order of a finite set
of numbers (`Ranks`, `OrderExists`).

### 4.7 ROM file system: `RomFsProofs`

For every list of files with bytes below any `Base`, any length of names, any number
of descriptors, and any reads and seeks: `ListsAll` and `ReadsBack`. Both have the
premise `Holds`: every size fits its two bytes, and names differ in more than case.
`mkfs.py` checks neither; with a file of `Base * Base` bytes, or with two names that
differ in case, some states of `MCRomFs` are not as the properties have it.

`mkfs` appends entries, and `romfs.c` walks from one to the next by the lengths it
reads: three recursive functions. An induction is an argument about a least number:
`Least` (every set of numbers that is not empty has one, from the well-foundedness
of `<`) and `Induction`, which says of a set what induction says of a property.
`AppendsExists` and `WalkExists` show with it that the functions exist.

`Layout(a)` says at which address each file that is kept begins; at that address lie
its name, a zero, its size and its data (`EntryIs`, `BytesAt`). So whoever reads a
name and a size there reads those of the file, and the next address is that of the
next file (`EntryAt`, `EndAt`). `Backwards` goes from the end of the list to its
beginning: there `Find` has nothing to find and `Directory` nothing to list, and each
file before adds itself. `FindIs` and `DirectoryIs` are the results.

For the descriptors `IInv` is invariant:

* `TypeOK`: the image is that of the list, and the count is that of the used
  entries of the table, and of the files the program has open.
* `OwnFd`: an open file has a used descriptor that no other one has; a close would
  otherwise end somebody else's file. It needs the count: a table is full exactly
  when the count says so, so that there is a slot for whoever passes the test.
* `InFile`: behind a descriptor are the data of the file of that name, and its offset
  is where the program is, never behind the end.

### 4.8 Remote calls: `LuaRpcProofs`

For any numbers sent, any number of requests and link errors, and streams of any
length, `HandleInStep` and `RightAnswer` hold as long as no byte has been lost
(`lost = 0`). Clients that lose patience, values that cannot be sent and functions
that fail are all allowed, so before a client connects the streams can hold late
answers, halves of requests and commands nobody waits for.

The premise is needed if any bound on the lost bytes is to be covered: with
`MaxLost = 5` TLC finds `HandleInStep` violated. A client tries to connect twice while
a function runs, all five bytes of the late answer are lost, and the header the server
sends for the first attempt is taken for the answer to the second, which the server
has yet to read. The run `rpc` loses one byte.

`Vars`, which reads nested tables, is a recursive function. `ReadsExists` shows that
it exists, with `Least` and `Induction` as in 4.7, and `VarsTyped` that it returns a
cursor whatever the stream holds. `OneVar` and `TwoVars` say what it does to the
variables of a request and `VarsStopped` that a cursor that has stopped stays. From
these follow the lemmas that say of each request and answer that it is read to its
end and as what it is: `CallReads`, `GetReads`, `NewindexReads`, `NumberReads`,
`ErrorReads`, `VariableReads`, `NilReads`, `DoneReads`. Nothing has to be known of how
other streams are cut up, because of the two parts of `Inv`:

* `Attempt`: what a client that connects can meet. The client begins when nothing
  happens (`Quiet`), and empties what it receives. Either the server takes the bytes
  for what they are (`Greeted`), and both ends are in step once it has answered
  (`Met`); or it is in the middle of something (`Deaf`), and then the first byte it
  says is none of a header (`Strange`), or it says nothing and comes to a rest. No
  answer but the header begins with `'L'`, so the client never takes the
  first for the second.
* `Talk`: while nothing has gone wrong since the handle was returned, where the
  request is: its command byte (`Asked`), all of it (`InFull`), the running function
  (`Running`), the answer (`Told`). A command byte is followed by nothing until the
  server has taken it, so both ends are in step whenever the client is idle.

`Alone` says that a client without a handle has just tried to connect; otherwise the
value `last` holds would be that of a request whose `store` is no longer the same.

### 4.9 Only model-checked

* Every liveness property (`Drains`, `WaitEndsIfConverting`, `Returns`, `PAnswered`,
  `CallsEnd`, `SendEnds`, `Recovers`): liveness under fairness and `ENABLED` are outside the
  prover's reach.
* `RunsAsAsked`. What late clients leave behind is read from its middle, so a proof has
  to say what the cursor functions make of every suffix of the client's stream.
* `HandleInStep` and `RightAnswer` after a byte has been lost.

## 5. What is not modelled

The components with status `not_modelled` in `PROJECT.json`, with the reason
there: presentation, thin wrappers around registers, third-party code, start-up
code. Of what has logic of its own: the receive with timeout and the virtual
timers of `common.c`, whose promises depend on the speed of the processor; the
shell's splitting of a line and stripping of padding, which are text processing
without state; registration and password recovery, single SQL statements.

Within the modelled parts: the length limit with which `mkfs` skips long names is in
`RomFs`, not in `BuildPipeline`, whose names are model values; the contents of log
files, HTTP and sessions; pictures of memory beyond the buffers; `BUF_SIZE` values
that overflow 16 bits; sampling in free-running mode (no caller); the smoothing
lengths above 2 (the arithmetic is the same); drivers of chips other than the
LM3S; and what 2.1 names under each module.

## 6. The plan

Done, in the order of importance: `Buf`/`RingBuffer` with its proofs, `FileStore`,
`BuildPipeline`, `Xmodem`, `Adc`, `ElNet`, `LuaRpc`, `RomFs`.

Proved since: that `RingBuffer` implements `LossyFifo`, and the theorems of sections
4.2 to 4.8. Every invariant of a passing run but `RunsAsAsked` is now stated by a theorem, the
two of `LuaRpc` for a line that loses nothing.

Next, to prove more: the same two for a single lost byte, which the run shows, and
`RunsAsAsked`.
