-------------------------------- MODULE LuaRpc --------------------------------
(***************************************************************************)
(* Remote calls over a serial line (src/modules/luarpc.c): a client on a   *)
(* desktop (src/luarpc_desktop_serial.c) and rpc.server on a board         *)
(* (src/luarpc_elua_uart.c).  A request is a command byte, which the       *)
(* server answers with RPC_READY, then the rest; nothing in the stream     *)
(* marks where a request or an answer begins.                              *)
(*                                                                         *)
(* The streams are streams of bytes, the protocol is scaled: a u32 has two *)
(* bytes instead of four, a number one, a name and a message one, and the  *)
(* header three.  Left out: variables that are functions or remote ones,   *)
(* which are refused here, and globals of the server other than f and x.   *)
(***************************************************************************)
EXTENDS Integers, Sequences, FiniteSets

CONSTANTS
  Values,     \* Values[k]: the number the k-th request carries, if it carries one
  MaxLinkErrs,\* MAX_LINK_ERRS
  Stack,      \* the longest string either end has the stack for
  MaxLost,    \* bound: bytes lost on the line
  MaxStream   \* bound: bytes waiting for the board when a client connects

ASSUME RpcAssumption ==
  /\ Values \in Seq(0..255) /\ MaxLinkErrs \in Nat /\ Stack \in Nat \ {0}
  /\ MaxLost \in Nat /\ MaxStream \in Nat

VARIABLES
  c2s, s2c,   \* the bytes sent and not read
  srv,        \* up: rpc.server runs; open: atpt; errs: link_errs; pc, cmd; arg of the call
  store,      \* the global x of the server
  cl,         \* has a handle; pc; the request it is in
  nextReq,
  last,       \* history: the last request that ended, and what it returned
  pending,    \* history: calls written in full and not yet run
  trouble,    \* history: what went wrong since the last handle was returned
  lost        \* history: bytes lost

vars == <<c2s, s2c, srv, store, cl, nextReq, last, pending, trouble, lost>>

\* commands
RPC_CMD_CALL == 1
RPC_CMD_GET == 2
RPC_CMD_CON == 3
RPC_CMD_NEWINDEX == 4

\* answers to a command
RPC_READY == 64
RPC_UNSUPPORTED_CMD == 65

\* types of variables
RPC_NIL == 0
RPC_NUMBER == 1
RPC_BOOLEAN == 2
RPC_STRING == 3
RPC_TABLE == 4
RPC_TABLE_END == 5

F == 102    \* a function of the server, which returns its argument
U == 117    \* an undefined one
X == 120    \* a variable

NoValue == -1

U32(n)    == <<n % 256, n \div 256>>
Header    == <<76, 3, 1>>     \* 'L' .., the version, the number format
Number(n) == <<RPC_NUMBER, n>>
String(c) == U32(1) \o <<c>>
Error(c)  == <<1>> \o U32(2) \o String(c)

-----------------------------------------------------------------------------
(* Reading.  A cursor says how far a stream has been read: st is "ok", or  *)
(* "more" when it ended where a read of the transport begins, "gap" when   *)
(* it ended inside one, "bad" when what was read is refused, "fault" when  *)
(* it is the length of a string the stack cannot hold.                     *)

Start == [at |-> 1, st |-> "ok"]

\* transport_read_buffer of n bytes
Piece(s, c, n) ==
  CASE c.st # "ok" -> c
    [] c.st = "ok" /\ c.at + n - 1 <= Len(s) -> [c EXCEPT !.at = @ + n]
    [] OTHER -> [c EXCEPT !.st = IF c.at = Len(s) + 1 THEN "more" ELSE "gap"]

\* a string: its length, which goes to alloca unseen, then its bytes
Str(s, c) ==
  LET d == Piece(s, c, 2)
      n == s[d.at - 2] + 256 * s[d.at - 1]
  IN CASE d.st # "ok" -> d
       [] d.st = "ok" /\ n > Stack -> [d EXCEPT !.st = "fault"]
       [] OTHER -> Piece(s, d, n)

\* the first part of read_variable: a type, and the value unless that is a table
Item(s, c) ==
  LET d == Piece(s, c, 1) IN
  IF d.st # "ok" THEN d
  ELSE CASE s[c.at] \in {RPC_NIL, RPC_TABLE, RPC_TABLE_END} -> d
         [] s[c.at] \in {RPC_NUMBER, RPC_BOOLEAN} -> Piece(s, d, 1)
         [] s[c.at] = RPC_STRING -> Str(s, d)
         [] OTHER -> [d EXCEPT !.st = "bad"]

\* One item more of variables: left are to be read, in open are the tables begun, each
\* with whether a key comes next; a key may not be nil.
ReadItem(s, r) ==
  LET d == Item(s, r.c)
      b == s[r.c.at]
      After(open) == IF open = <<>> THEN [c |-> d, left |-> r.left - 1, open |-> <<>>]
                     ELSE [r EXCEPT !.c = d, !.open = <<~Head(open)>> \o Tail(open)]
  IN CASE r.c.st # "ok" \/ (r.left = 0 /\ r.open = <<>>) -> r
       [] OTHER ->
          CASE d.st # "ok" -> [r EXCEPT !.c = d]
            [] d.st = "ok" /\ b = RPC_TABLE -> [r EXCEPT !.c = d, !.open = <<TRUE>> \o @]
            [] d.st = "ok" /\ b = RPC_TABLE_END /\ r.open # <<>> -> After(Tail(r.open))
            [] d.st = "ok" /\ b = RPC_NIL /\ r.open # <<>> /\ Head(r.open) ->
                 [r EXCEPT !.c.st = "bad"]
            [] OTHER -> After(r.open)

\* read_variable, n times; a set of one element holds what has been read so far
Vars(s, c, n) ==
  LET read[i \in 0..(Len(s) + 1)] ==
        IF i = 0 THEN {[c |-> c, left |-> n, open |-> <<>>]}
        ELSE {ReadItem(s, r) : r \in read[i - 1]}
  IN (CHOOSE r \in read[Len(s) + 1] : TRUE).c

\* a count, and as many variables
Counted(s, c) ==
  LET d == Piece(s, c, 2) IN
  IF d.st = "ok" THEN Vars(s, d, s[d.at - 2] + 256 * s[d.at - 1]) ELSE d

\* what the server reads after a command ..
Request(s, cmd) ==
  LET name == Str(s, Start) IN
  CASE cmd = RPC_CMD_CALL     -> Counted(s, name)
    [] cmd = RPC_CMD_GET      -> name
    [] cmd = RPC_CMD_NEWINDEX -> Vars(s, name, 2)
    [] OTHER                  -> Piece(s, Start, Len(Header))

\* mutant: of an error the message is not read
ReplyShort(s, cmd) ==
  LET code == Piece(s, Start, 1) IN
  CASE cmd = RPC_CMD_CON -> Piece(s, Start, Len(Header))
    [] cmd = RPC_CMD_GET -> Vars(s, Start, 1)
    [] OTHER -> CASE code.st # "ok" -> code
                  [] code.st = "ok" /\ s[1] # 0 -> Piece(s, code, 2)
                  [] OTHER -> IF cmd = RPC_CMD_CALL THEN Counted(s, code) ELSE code

\* .. and what the client reads after its request
Reply(s, cmd) ==
  LET code == Piece(s, Start, 1) IN
  CASE cmd = RPC_CMD_CON -> Piece(s, Start, Len(Header))
    [] cmd = RPC_CMD_GET -> Vars(s, Start, 1)
    [] OTHER -> CASE code.st # "ok" -> code
                  [] code.st = "ok" /\ s[1] # 0 -> Str(s, Piece(s, code, 2))
                  [] OTHER -> IF cmd = RPC_CMD_CALL THEN Counted(s, code) ELSE code

Rest(s, c) == SubSeq(s, c.at, Len(s))

\* the number a variable at position i holds
NumberAt(s, i) == IF i < Len(s) /\ s[i] = RPC_NUMBER THEN s[i + 1] ELSE NoValue

-----------------------------------------------------------------------------
(* The server: rpc_server, rpc_dispatch_helper                             *)

Init ==
  /\ c2s = <<>> /\ s2c = <<>>
  /\ srv = [up |-> TRUE, open |-> FALSE, errs |-> 0, pc |-> "cmd", cmd |-> 0, arg |-> NoValue]
  /\ store = NoValue
  /\ cl = [handle |-> FALSE, pc |-> "idle", cmd |-> RPC_CMD_CON, name |-> F, fits |-> TRUE]
  /\ nextReq = 1 /\ last = [cmd |-> RPC_CMD_CON, req |-> 0, got |-> <<"nil">>]
  /\ pending = {} /\ trouble = {} /\ lost = 0

clientVars == <<cl, nextReq, last>>

\* a non-fatal error: a connection that has been set up has MAX_LINK_ERRS of them
LinkError(v) ==
  LET w == [v EXCEPT !.pc = "cmd", !.cmd = 0] IN
  IF v.open /\ v.errs < MaxLinkErrs THEN [w EXCEPT !.errs = @ + 1]
                                    ELSE [w EXCEPT !.open = FALSE, !.errs = 0]

Served == [up |-> TRUE, open |-> TRUE, errs |-> 0, pc |-> "cmd", cmd |-> 0, arg |-> NoValue]
Down   == [Served EXCEPT !.up = FALSE, !.open = FALSE]

\* A command is read, and RPC_READY sent.  Without a connection only RPC_CMD_CON is
\* taken, anything else closes the transport that was accepted.
Command ==
  /\ srv.up /\ srv.pc = "cmd" /\ c2s # <<>>
  /\ c2s' = Tail(c2s)
  /\ LET b == Head(c2s) IN
     CASE b = RPC_CMD_CON ->
            /\ srv' = [srv EXCEPT !.pc = "read", !.cmd = b]
            /\ UNCHANGED s2c
       [] b \in {RPC_CMD_CALL, RPC_CMD_GET, RPC_CMD_NEWINDEX} /\ srv.open ->
            /\ srv' = [srv EXCEPT !.pc = "read", !.cmd = b]
            /\ s2c' = Append(s2c, RPC_READY)
       [] OTHER ->
            /\ srv' = LinkError(srv)
            /\ s2c' = IF srv.open THEN Append(s2c, RPC_UNSUPPORTED_CMD) ELSE s2c
  /\ UNCHANGED <<store, clientVars, pending, trouble, lost>>

HasRead(st) == srv.pc = "read" /\ Request(c2s, srv.cmd).st = st

\* server_negotiate
Negotiate ==
  /\ srv.cmd = RPC_CMD_CON /\ HasRead("ok")
  /\ c2s' = Rest(c2s, Request(c2s, RPC_CMD_CON))
  /\ IF SubSeq(c2s, 1, Len(Header)) = Header
     THEN srv' = Served /\ s2c' = s2c \o Header
     ELSE srv' = LinkError(srv) /\ UNCHANGED s2c
  /\ UNCHANGED <<store, clientVars, pending, trouble, lost>>

\* the global a request names
Named(s) == IF U32(1) = SubSeq(s, 1, 2) THEN s[3] ELSE U

\* read_cmd_call, up to the call; pending is struck off what is run
ReadCall ==
  /\ srv.cmd = RPC_CMD_CALL /\ HasRead("ok")
  /\ c2s' = Rest(c2s, Request(c2s, RPC_CMD_CALL))
  /\ LET v == NumberAt(c2s, 6) IN
     IF Named(c2s) = F
     THEN /\ srv' = [srv EXCEPT !.pc = "run", !.arg = v]
          /\ pending' = pending \ {k \in pending : Values[k] = v}
          /\ UNCHANGED s2c
     ELSE /\ srv' = Served
          /\ s2c' = s2c \o Error(U)
          /\ UNCHANGED pending
  /\ UNCHANGED <<store, clientVars, trouble, lost>>

\* The function returns, or fails; it may return what cannot be sent: the server
\* stops then, in the middle of its answer.
Run ==
  /\ srv.up /\ srv.pc = "run"
  /\ \/ s2c' = s2c \o <<0>> \o U32(1) \o Number(srv.arg) /\ srv' = Served /\ UNCHANGED trouble
     \/ s2c' = s2c \o Error(F) /\ srv' = Served /\ UNCHANGED trouble
     \/ s2c' = s2c \o <<0>> \o U32(1) /\ srv' = Down /\ trouble' = trouble \cup {"raised"}
  /\ UNCHANGED <<c2s, store, clientVars, pending, lost>>

\* read_cmd_get
ReadGet ==
  /\ srv.cmd = RPC_CMD_GET /\ HasRead("ok")
  /\ c2s' = Rest(c2s, Request(c2s, RPC_CMD_GET))
  /\ s2c' = s2c \o (IF Named(c2s) = X /\ store # NoValue THEN Number(store) ELSE <<RPC_NIL>>)
  /\ srv' = Served
  /\ UNCHANGED <<store, clientVars, pending, trouble, lost>>

\* read_cmd_newindex: a global when the name is empty; indexing anything else here
\* fails, and nothing catches that
ReadNewindex ==
  /\ srv.cmd = RPC_CMD_NEWINDEX /\ HasRead("ok")
  /\ c2s' = Rest(c2s, Request(c2s, RPC_CMD_NEWINDEX))
  /\ IF SubSeq(c2s, 1, 2) = U32(0)
     THEN /\ store' = IF Len(c2s) > 6 /\ SubSeq(c2s, 3, 6) = <<RPC_STRING>> \o String(X)
                      THEN NumberAt(c2s, 7) ELSE store
          /\ s2c' = Append(s2c, 0)
          /\ srv' = Served
          /\ UNCHANGED trouble
     ELSE /\ srv' = Down
          /\ trouble' = trouble \cup {"raised"}
          /\ UNCHANGED <<store, s2c>>
  /\ UNCHANGED <<clientVars, pending, lost>>

\* the rest of a read is late by a tenth of a second: what was read is gone
ServerTimeout ==
  /\ HasRead("gap")
  /\ c2s' = <<>> /\ srv' = LinkError(srv)
  /\ UNCHANGED <<s2c, store, clientVars, pending, trouble, lost>>

\* a type that is none is fatal: server_handle_shutdown
Refuse ==
  /\ HasRead("bad")
  /\ c2s' = Rest(c2s, Request(c2s, srv.cmd)) /\ srv' = Down
  /\ UNCHANGED <<s2c, store, clientVars, pending, trouble, lost>>

\* alloca leaves the memory of the board, and the first use of the string faults
ServerDies ==
  /\ HasRead("fault")
  /\ c2s' = Rest(c2s, Request(c2s, srv.cmd)) /\ srv' = Down
  /\ UNCHANGED <<s2c, store, clientVars, pending, trouble, lost>>

Server == \/ Command \/ Negotiate \/ ReadCall \/ Run \/ ReadGet \/ ReadNewindex
          \/ ServerTimeout \/ Refuse \/ ServerDies

-----------------------------------------------------------------------------
(* The client                                                              *)

\* the request is over
Ends(got, handle) ==
  /\ cl' = [cl EXCEPT !.pc = "idle", !.handle = handle]
  /\ last' = [cmd |-> cl.cmd, req |-> nextReq - 1, got |-> got]

\* Nothing happens for some tenths of a second: for all it does but to run the
\* function the server needs less, and a tenth of a second to give up.
Quiet == ~srv.up \/ srv.pc = "run" \/ (srv.pc = "cmd" /\ c2s = <<>>) \/ HasRead("more")

\* mutant: the port is not emptied
ConnectKeeps ==
  /\ cl.pc = "idle" /\ Quiet /\ Len(c2s) <= MaxStream
  /\ cl' = [cl EXCEPT !.pc = "answer", !.cmd = RPC_CMD_CON, !.handle = FALSE]
  /\ c2s' = c2s \o <<RPC_CMD_CON>> \o Header
  /\ UNCHANGED <<s2c, srv, store, nextReq, last, pending, trouble, lost>>

\* rpc.connect opens the port, waits a fifth of a second and empties it
Connect ==
  /\ cl.pc = "idle" /\ Quiet /\ Len(c2s) <= MaxStream
  /\ cl' = [cl EXCEPT !.pc = "answer", !.cmd = RPC_CMD_CON, !.handle = FALSE]
  /\ s2c' = <<>> /\ c2s' = c2s \o <<RPC_CMD_CON>> \o Header
  /\ UNCHANGED <<srv, store, nextReq, last, pending, trouble, lost>>

\* handle.name(v), handle.name:get() and handle.name = v; v may be of a type that
\* cannot be sent
Ask(cmd, name, fits) ==
  /\ cl.pc = "idle" /\ cl.handle /\ nextReq \in DOMAIN Values
  /\ cmd = RPC_CMD_GET => fits
  /\ cl' = [cl EXCEPT !.pc = "ready", !.cmd = cmd, !.name = name, !.fits = fits]
  /\ nextReq' = nextReq + 1
  /\ c2s' = Append(c2s, cmd)
  /\ UNCHANGED <<s2c, srv, store, last, pending, trouble, lost>>

\* the rest of a request; a value that cannot be sent raises a Lua error where it
\* should have been written
Body ==
  CASE cl.cmd = RPC_CMD_CALL -> String(cl.name) \o U32(1)
    [] cl.cmd = RPC_CMD_GET  -> String(cl.name)
    [] OTHER         -> U32(0) \o <<RPC_STRING>> \o String(cl.name)
Argument == IF cl.cmd = RPC_CMD_GET \/ ~cl.fits THEN <<>> ELSE Number(Values[nextReq - 1])

\* the request, when it is a call of F that is written in full
Calling == IF cl.cmd = RPC_CMD_CALL /\ cl.name = F /\ cl.fits THEN {nextReq - 1} ELSE {}

\* mutant: a value that cannot be sent is skipped
WaitReadySkips ==
  /\ cl.pc = "ready" /\ s2c # <<>>
  /\ s2c' = Tail(s2c)
  /\ IF Head(s2c) # RPC_READY
     THEN Ends(<<"nil">>, cl.handle) /\ UNCHANGED <<c2s, pending>>
     ELSE /\ c2s' = c2s \o Body \o Argument
          /\ pending' = pending \cup Calling
          /\ cl' = [cl EXCEPT !.pc = "answer"] /\ UNCHANGED last
  /\ UNCHANGED <<srv, store, nextReq, trouble, lost>>

\* helper_wait_ready, and the rest of the request
WaitReady ==
  /\ cl.pc = "ready" /\ s2c # <<>>
  /\ s2c' = Tail(s2c)
  /\ IF Head(s2c) # RPC_READY
     THEN Ends(<<"nil">>, cl.handle) /\ UNCHANGED <<c2s, pending, trouble>>
     ELSE /\ c2s' = c2s \o Body \o Argument
          /\ pending' = pending \cup Calling
          /\ IF cl.fits
             THEN cl' = [cl EXCEPT !.pc = "answer"] /\ UNCHANGED <<last, trouble>>
             ELSE Ends(<<"raised">>, cl.handle) /\ trouble' = trouble \cup {"raised"}
  /\ UNCHANGED <<srv, store, nextReq, lost>>

\* what a complete answer is worth
Result ==
  CASE cl.cmd = RPC_CMD_GET -> <<"number", NumberAt(s2c, 1)>>
    [] cl.cmd # RPC_CMD_GET /\ s2c[1] # 0 -> <<"error">>
    [] cl.cmd = RPC_CMD_NEWINDEX /\ s2c[1] = 0 -> <<"done">>
    [] OTHER -> <<"number", IF SubSeq(s2c, 2, 3) = U32(1) THEN NumberAt(s2c, 4) ELSE NoValue>>

HasAnswer(st) == cl.pc = "answer" /\ Reply(s2c, cl.cmd).st = st

\* mutant: the header is not compared
HandleOfAny == HasAnswer("ok") /\ cl.cmd = RPC_CMD_CON
Handle == HasAnswer("ok") /\ cl.cmd = RPC_CMD_CON /\ SubSeq(s2c, 1, Len(Header)) = Header

Answered ==
  /\ HasAnswer("ok")
  /\ s2c' = Rest(s2c, Reply(s2c, cl.cmd))
  /\ IF cl.cmd = RPC_CMD_CON THEN Ends(<<"connected">>, Handle) ELSE Ends(Result, cl.handle)
  /\ trouble' = IF Handle THEN {} ELSE trouble
  /\ UNCHANGED <<c2s, srv, store, nextReq, pending, lost>>

\* A fatal error closes the port if there is an error handler; if there is none, the
\* Lua error it becomes leaves it open.
Refused ==
  /\ HasAnswer("bad")
  /\ s2c' = Rest(s2c, Reply(s2c, cl.cmd))
  /\ \E open \in {FALSE, cl.handle} : Ends(<<"nil">>, open)
  /\ UNCHANGED <<c2s, srv, store, nextReq, pending, trouble, lost>>

\* The same on the desktop: the program dies, the next one has to connect.
ClientDies ==
  /\ HasAnswer("fault")
  /\ s2c' = Rest(s2c, Reply(s2c, cl.cmd))
  /\ Ends(<<"nil">>, FALSE)
  /\ UNCHANGED <<c2s, srv, store, nextReq, pending, trouble, lost>>

\* a second without a byte
ClientTimeout ==
  /\ \/ cl.pc = "ready" /\ s2c = <<>>
     \/ HasAnswer("more") \/ HasAnswer("gap")
  /\ Quiet
  /\ s2c' = <<>>
  /\ Ends(<<"nil">>, cl.handle)
  /\ trouble' = trouble \cup {"late"}
  /\ UNCHANGED <<c2s, srv, store, nextReq, pending, lost>>

Without(s, i) == SubSeq(s, 1, i - 1) \o SubSeq(s, i + 1, Len(s))

\* the UART of either end loses a byte
Lose ==
  /\ lost < MaxLost
  /\ \/ \E i \in DOMAIN c2s : c2s' = Without(c2s, i) /\ UNCHANGED s2c
     \/ \E i \in DOMAIN s2c : s2c' = Without(s2c, i) /\ UNCHANGED c2s
  /\ lost' = lost + 1 /\ trouble' = trouble \cup {"lost"}
  /\ UNCHANGED <<srv, store, clientVars, pending>>

Client == WaitReady \/ Answered \/ Refused \/ ClientDies \/ ClientTimeout

Next ==
  \/ Server \/ Client \/ Connect \/ Lose
  \/ \E fits \in BOOLEAN :
       \/ Ask(RPC_CMD_CALL, F, fits) \/ Ask(RPC_CMD_CALL, U, fits)
       \/ Ask(RPC_CMD_GET, X, fits) \/ Ask(RPC_CMD_NEWINDEX, X, fits)

Spec == Init /\ [][Next]_vars

\* the server and the client run, and a client without a handle tries again
FairSpec == Spec /\ WF_vars(Server) /\ WF_vars(Client) /\ WF_vars(Connect /\ ~cl.handle)

-----------------------------------------------------------------------------
(* Properties                                                              *)

InStep == c2s = <<>> /\ s2c = <<>> /\ srv.up /\ srv.open /\ srv.pc = "cmd"

\* rpc.connect puts both ends in step again, whatever the streams held before: late
\* answers, halves of requests, headers of earlier attempts.  Until something goes
\* wrong again nothing is left over between two requests.
HandleInStep == cl.handle /\ cl.pc = "idle" /\ trouble = {} => InStep

\* What a request returns is the answer to this request, and its call ran, as long as
\* nothing has gone wrong since the handle was returned.
RightAnswer ==
  trouble = {} /\ cl.pc = "idle" /\ last.req # 0 =>
    CASE last.cmd = RPC_CMD_CALL ->
           last.got \in {<<"error">>, <<"number", Values[last.req]>>} /\ last.req \notin pending
      [] last.cmd = RPC_CMD_GET -> last.got = <<"number", store>>
      [] last.cmd = RPC_CMD_NEWINDEX -> last.got = <<"done">> /\ store = Values[last.req]
      [] OTHER -> TRUE

\* A client that loses patience, as often as it may, never makes the server run a call
\* nobody asked for, or run one twice: what it leaves behind is given up as a link
\* error.  (After a value that cannot be sent it may: the commands that follow are
\* taken for the missing arguments.)
RunsAsAsked ==
  [][srv.pc = "read" /\ srv'.pc = "run" /\ trouble \subseteq {"late"} =>
       \E k \in pending : Values[k] = srv'.arg]_vars

\* Nor does it bring the server down: there may be a "Maximum number of framing errors
\* before connection reset" (inc/luarpc_rpc.h), and a reset is all that comes of them.
\* It does: the bytes of an rpc.connect are read as the length of a name.
StaysUp == srv.up \/ ~(trouble \subseteq {"late"})

\* A client that keeps calling rpc.connect gets a handle, unless the server is gone (see
\* StaysUp for one way that happens).
Recovers == ~cl.handle ~> cl.handle \/ ~srv.up
=============================================================================
