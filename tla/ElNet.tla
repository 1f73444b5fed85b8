--------------------------------- MODULE ElNet ---------------------------------
(***************************************************************************)
(* The TCP services of the board (src/elua_uip.c, the Lua module net):     *)
(* the program posts a request in the state of a connection and spins      *)
(* until the uIP callback, which runs in the Ethernet interrupt, has       *)
(* served it.  Connections and timers are those of src/uip/uip.c, the      *)
(* peers are hosts that may lose segments, delay them, or go away.         *)
(*                                                                         *)
(* Bytes are numbered: the n-th byte given to a connection is n.  A step   *)
(* of the handler is its work for one connection.                          *)
(*                                                                         *)
(* The build is one without the telnet console.  Left out: DHCP, DNS, ARP, *)
(* IP and UDP; the check of sequence numbers, of which a segment that does *)
(* not fit is dropped; the '\r' a recv up to the end of a line skips; an   *)
(* interrupt between the assignments of uip_connect, which is one step.    *)
(***************************************************************************)
EXTENDS Integers, Sequences, FiniteSetsExt

CONSTANTS
  NumConns,   \* UIP_CONNS
  Peers,      \* remote hosts; each connects, or is connected to, once
  NoPeer,
  Mss,        \* UIP_TCP_MSS, which is also UIP_RECEIVE_WINDOW
  Windows,    \* the windows peers announce
  MaxRtx,     \* UIP_MAXRTX and UIP_MAXSYNRTX
  Sizes,      \* the sizes send and recv are called with
  Newlines,   \* which bytes of a peer are '\n'
  PeerBytes,  \* bound: bytes a peer sends
  MaxCalls    \* bound: calls of the program

ASSUME NetAssumption ==
  /\ NumConns \in Nat \ {0} /\ NoPeer \notin Peers /\ Mss \in Nat \ {0}
  /\ Windows \subseteq Nat /\ MaxRtx \in Nat /\ Sizes \subseteq Nat \ {0}
  /\ Newlines \subseteq Nat /\ PeerBytes \in Nat /\ MaxCalls \in Nat

VARIABLES
  conn,     \* uip_conns
  app,      \* their elua_uip_state
  accept,   \* listening, elua_uip_accept_request, _sock and _remote
  pc, me,   \* the program: where it is, and the call it is in
  owner,    \* the peer the program takes a socket for, NoPeer if it has none
  calls,
  peer,     \* per peer: what it has got, and how much of its data was acknowledged
  told,     \* history: per peer, bytes given to send for it, and claimed to be sent
  had,      \* history: per peer, how many of its bytes recv has consumed
  rough,    \* history: peers for which some recv did not fit what came, see Rough
  handed,   \* history: per peer, how often accept has returned it
  ret       \* what the last call returned: asked for, done, and get_last_err

vars == <<conn, app, accept, pc, me, owner, calls, peer, told, had, rough, handed, ret>>
programVars == <<pc, me, owner, calls, told, handed, ret>>

Conns == 1..NumConns
None  == 0
Junk  == 0
Upto(m, n) == IF m < n THEN m ELSE n

NoConn == [tcp |-> "closed", peer |-> NoPeer, stopped |-> FALSE, mss |-> Mss,
           flight |-> <<>>, seen |-> FALSE, nrtx |-> 0]
Me0 == [call |-> "none", c |-> None, n |-> 0, line |-> FALSE, timed |-> FALSE]

Init ==
  /\ conn = [c \in Conns |-> NoConn]
  /\ app = [c \in Conns |-> [state |-> "idle", res |-> "ok", ptr |-> 0, len |-> 0, line |-> FALSE]]
  /\ accept = [listening |-> FALSE, request |-> FALSE, sock |-> None, remote |-> NoPeer]
  /\ pc = "idle" /\ me = Me0 /\ owner = [c \in Conns |-> NoPeer] /\ calls = 0
  /\ peer = [p \in Peers |-> [met |-> FALSE, got |-> <<>>, acked |-> 0]]
  /\ told = [p \in Peers |-> [given |-> 0, sent |-> 0]]
  /\ had = [p \in Peers |-> 0] /\ rough = {} /\ handed = [p \in Peers |-> 0]
  /\ ret = [asked |-> 0, done |-> 0, err |-> "ok"]

-----------------------------------------------------------------------------
(* elua_uip_appcall, but for new connections                               *)

Bytes(from, n) == [i \in 1..n |-> from + i - 1]

\* how much of a send an acknowledgement counts for, and the error of one that ended
AckedAll(a, mss) == a.len                                              \* Mutant: everything
Acked(a, mss)    == Upto(a.len, mss)
FailedOk(flags)  == "ok"                                               \* Mutant: no error
Failed(flags)    == IF "aborted" \in flags THEN "aborted"
                    ELSE IF "timedout" \in flags THEN "timedout" ELSE "closed"

\* what the callback leaves in the state, and what it asks uIP to do
Answer(a, does) == [app |-> a, does |-> does, send |-> <<>>, used |-> 0]

\* Mutant: the program is not told that all has been acknowledged.
SendingOn(a, acked, mss) ==
  LET b == [a EXCEPT !.ptr = @ + acked, !.len = @ - acked] IN
  [Answer(b, "nothing") EXCEPT !.send = Bytes(b.ptr, Upto(b.len, mss))]

Sending(a, acked, mss) ==
  LET b == [a EXCEPT !.ptr = @ + acked, !.len = @ - acked,
                     !.state = IF acked = a.len THEN "idle" ELSE @] IN
  [Answer(b, "nothing") EXCEPT !.send = Bytes(b.ptr, Upto(b.len, mss))]

\* A segment of k bytes from byte b: up to the end of a line, or all that fits.
\* A segment smaller than the window is taken for the last one.  After the last one
\* uIP is told does.
Taking(a, b, k, does) ==
  LET fits == Upto(a.len, k)
      ends == {i \in 1..fits : a.line /\ b + i - 1 \in Newlines}
      used == IF ends = {} THEN fits ELSE Min(ends)
      kept == IF ends = {} THEN fits ELSE used - 1
      left == [a EXCEPT !.len = @ - kept]
  IN IF k < Mss \/ kept = a.len \/ ends # {}
     THEN [Answer([left EXCEPT !.res = "ok", !.state = "idle"], does) EXCEPT !.used = used]
     ELSE [Answer(left, "nothing") EXCEPT !.used = used]

ReadingOn(a, b, k) == Taking(a, b, k, "nothing")   \* Mutant: goes on after the last one
Reading(a, b, k)   == Taking(a, b, k, "stop")

Callback(a, flags, mss, b, k) ==
  IF a.state = "idle" THEN Answer(a, "nothing")
  ELSE IF a.state = "recv" THEN Answer([a EXCEPT !.state = "recv_2"], "restart")
  ELSE IF flags \cap {"aborted", "timedout", "closed"} # {}
       THEN Answer([a EXCEPT !.res = Failed(flags), !.state = "idle"], "nothing")
  ELSE CASE a.state = "send" /\ flags # {"newdata"} ->
              Sending(a, IF "acked" \in flags THEN Acked(a, mss) ELSE 0, mss)
         [] a.state = "close" -> Answer([a EXCEPT !.state = "idle"], "close")
         [] a.state = "recv_2" /\ "newdata" \in flags -> Reading(a, b, k)
         [] OTHER -> Answer(a, IF "newdata" \in flags THEN "stop" ELSE "nothing")

-----------------------------------------------------------------------------
(* uip_process                                                             *)

Alive == {"syn_sent", "syn_rcvd", "established", "last_ack", "fin_wait_1", "fin_wait_2",
          "closing", "time_wait"}
Active(c) == conn[c].tcp \in Alive

In(c, states) == conn[c].tcp \in states

\* Data sent again goes out with the length of what is in flight, whatever the callback
\* has given for it.
Resent(cn, r) ==
  [i \in DOMAIN cn.flight |-> IF cn.seen THEN cn.flight[i]
                              ELSE IF i <= Len(r.send) THEN r.send[i] ELSE Junk]

\* label appsend: what follows a callback of an established connection
AppSend(cn, r) ==
  IF r.does = "close"
  THEN [cn EXCEPT !.tcp = "fin_wait_1", !.stopped = FALSE, !.nrtx = 0]
  ELSE [cn EXCEPT !.nrtx = 0,
                  !.stopped = IF r.does = "nothing" THEN @ ELSE r.does = "stop",
                  !.flight = IF r.send = <<>> THEN @
                             ELSE IF @ = <<>> THEN r.send ELSE Resent(cn, r)]

\* the connection ends in state tcp, and the callback is told why
Ends(c, flags, tcp) ==
  /\ conn' = [conn EXCEPT ![c] = [NoConn EXCEPT !.tcp = tcp, !.peer = conn[c].peer]]
  /\ app' = [app EXCEPT ![c] = Callback(@, flags, conn[c].mss, 0, 0).app]

\* A SYN to a port that listens takes a connection that is closed, or else one in
\* TIME_WAIT.
SynSlots ==
  LET free == {c \in Conns : In(c, {"closed"})} IN
  IF free = {} THEN {c \in Conns : In(c, {"time_wait"})} ELSE {Min(free)}

Syn(p) ==
  /\ accept.listening /\ ~peer[p].met
  /\ peer' = [peer EXCEPT ![p].met = TRUE]
  /\ \E c \in SynSlots : conn' = [conn EXCEPT ![c] = [NoConn EXCEPT !.tcp = "syn_rcvd", !.peer = p]]
  /\ UNCHANGED <<app, accept, programVars, had, rough>>

\* uip_connected(): the pending accept gets it, or else the call of connect is over;
\* k bytes may come with the handshake
Connected(c, k) ==
  /\ In(c, {"syn_rcvd", "syn_sent"}) /\ (In(c, {"syn_sent"}) => k = 0)
  /\ LET p == conn[c].peer IN
     /\ peer[p].acked + k <= PeerBytes
     /\ conn' = [conn EXCEPT ![c].tcp = "established", ![c].stopped = TRUE, ![c].nrtx = 0]
     /\ accept' = IF accept.request
                  THEN [accept EXCEPT !.sock = c, !.remote = p, !.request = FALSE] ELSE accept
     /\ app' = IF ~accept.request /\ app[c].state = "connect"
               THEN [app EXCEPT ![c].state = "idle"] ELSE app
     /\ peer' = [peer EXCEPT ![p].acked = @ + k]
     /\ rough' = IF k > 0 THEN rough \cup {p} ELSE rough
  /\ UNCHANGED <<programVars, had>>

\* the peer has got what is in flight
PeerGets(c) ==
  /\ In(c, {"established"}) /\ conn[c].flight # <<>> /\ ~conn[c].seen
  /\ conn' = [conn EXCEPT ![c].seen = TRUE]
  /\ peer' = [peer EXCEPT ![conn[c].peer].got = @ \o conn[c].flight]
  /\ UNCHANGED <<app, accept, programVars, had, rough>>

\* A segment of k bytes, which a stopped connection does not take, and perhaps the
\* acknowledgement of what is in flight, with the peer's window.
Segment(c, k, ack, window) ==
  /\ In(c, {"established"}) /\ (k > 0 \/ ack) /\ (ack => conn[c].seen)
  /\ LET p     == conn[c].peer
         mss   == IF window = 0 THEN Mss ELSE Upto(Mss, window)
         cn    == [conn[c] EXCEPT !.mss = mss, !.flight = IF ack THEN <<>> ELSE @,
                                  !.seen = ~ack /\ @]
         takes == k > 0 /\ ~conn[c].stopped
         flags == (IF ack THEN {"acked"} ELSE {}) \cup (IF takes THEN {"newdata"} ELSE {})
         r     == Callback(app[c], flags, mss, peer[p].acked + 1, k)
     IN
     /\ peer[p].acked + k <= PeerBytes
     /\ conn' = [conn EXCEPT ![c] = IF flags = {} THEN cn ELSE AppSend(cn, r)]
     /\ app' = [app EXCEPT ![c] = IF flags = {} THEN @ ELSE r.app]
     /\ peer' = [peer EXCEPT ![p].acked = IF takes THEN @ + k ELSE @]
     /\ had' = [had EXCEPT ![p] = @ + r.used]
     /\ rough' = IF takes /\ app[c].state = "recv_2" /\ r.used < k THEN rough \cup {p} ELSE rough
  /\ UNCHANGED <<accept, programVars>>

\* The peer closes, with k last bytes.  A stopped connection, or one with data in
\* flight, does not take it.
Fin(c, k, ack) ==
  /\ In(c, {"established"}) /\ ~conn[c].stopped
  /\ IF ack THEN conn[c].seen ELSE conn[c].flight = <<>>
  /\ LET p == conn[c].peer IN
     /\ peer[p].acked + k <= PeerBytes
     /\ peer' = [peer EXCEPT ![p].acked = @ + k]
     /\ rough' = IF k > 0 THEN rough \cup {p} ELSE rough
  /\ Ends(c, {"closed"}, "last_ack")
  /\ UNCHANGED <<accept, programVars, had>>

\* a reset, or an answer to a SYN that is none
Reset(c) ==
  /\ Active(c)
  /\ Ends(c, {"aborted"}, "closed")
  /\ UNCHANGED <<accept, programVars, peer, had, rough>>

LastAck(c) ==
  /\ In(c, {"last_ack"})
  /\ Ends(c, {"closed"}, "closed")
  /\ UNCHANGED <<accept, programVars, peer, had, rough>>

\* the peer's FIN on a connection the board has closed
PeerCloses(c) ==
  /\ In(c, {"fin_wait_1", "fin_wait_2"})
  /\ \E to \in IF In(c, {"fin_wait_1"}) THEN {"closing", "time_wait"} ELSE {"time_wait"} :
       Ends(c, {"closed"}, to)
  /\ UNCHANGED <<accept, programVars, peer, had, rough>>

\* uip_periodic when it is not forced: give up, or send again what is outstanding
Outstanding(c) == In(c, Alive \ {"established", "fin_wait_2", "time_wait"}) \/ conn[c].flight # <<>>

Again(cn, r) == [cn EXCEPT !.nrtx = @ + 1, !.flight = Resent(cn, r)]

Retransmit(c) ==
  /\ Outstanding(c) /\ conn[c].nrtx < MaxRtx
  /\ LET r == Callback(app[c], {"rexmit"}, conn[c].mss, 0, 0) IN
     IF In(c, {"established"})
     THEN /\ conn' = [conn EXCEPT ![c] = Again(@, r)]
          /\ app' = [app EXCEPT ![c] = r.app]
     ELSE /\ conn' = [conn EXCEPT ![c].nrtx = @ + 1]
          /\ UNCHANGED app
  /\ UNCHANGED <<accept, programVars, peer, had, rough>>

\* Mutant: the callback is not told.
GiveUpQuietly(c) ==
  /\ Outstanding(c) /\ conn[c].nrtx = MaxRtx
  /\ conn' = [conn EXCEPT ![c] = [NoConn EXCEPT !.peer = conn[c].peer]]
  /\ UNCHANGED <<app, accept, programVars, peer, had, rough>>

GiveUp(c) ==
  /\ Outstanding(c) /\ conn[c].nrtx = MaxRtx
  /\ Ends(c, {"timedout"}, "closed")
  /\ UNCHANGED <<accept, programVars, peer, had, rough>>

\* after the board's FIN: what goes on without the callback
Forget(c) ==
  /\ In(c, {"fin_wait_1", "closing", "fin_wait_2", "time_wait"})
  /\ conn' = [conn EXCEPT ![c] = [NoConn EXCEPT
       !.tcp = CASE In(c, {"fin_wait_1"}) -> "fin_wait_2"
                 [] In(c, {"closing"}) -> "time_wait"
                 [] OTHER -> "closed",
       !.peer = conn[c].peer]]
  /\ UNCHANGED <<app, accept, programVars, peer, had, rough>>

\* uip_periodic when it is forced, which every interrupt between two ticks of the
\* periodic timer does, or when nothing is outstanding.  What is outstanding goes out
\* again, and the count of retransmissions starts anew.
Poll(c) ==
  /\ In(c, {"established"})
  /\ LET r == Callback(app[c], {"poll"}, conn[c].mss, 0, 0) IN
     /\ conn' = [conn EXCEPT ![c] = AppSend(@, r)]
     /\ app' = [app EXCEPT ![c] = r.app]
  /\ UNCHANGED <<accept, programVars, peer, had, rough>>

-----------------------------------------------------------------------------
(* The program                                                             *)

Goto(p) == pc' = p /\ UNCHANGED me
GoIdle  == pc' = "idle" /\ me' = Me0

\* a call begins, with its arguments
Call(p, args) ==
  /\ pc = "idle" /\ calls < MaxCalls
  /\ calls' = calls + 1
  /\ pc' = p /\ me' = args

\* net.socket: the first closed connection is reserved, all of it locked
Socket ==
  /\ Call("idle", Me0)
  /\ \E c \in Conns :
       /\ In(c, {"closed"}) /\ \A d \in 1..(c - 1) : ~In(d, {"closed"})
       /\ conn' = [conn EXCEPT ![c] = [NoConn EXCEPT !.tcp = "reserved"]]
  /\ UNCHANGED <<app, accept, owner, peer, told, had, rough, handed, ret>>

\* net.connect
Connect(c, p) ==
  /\ In(c, {"reserved"}) /\ ~peer[p].met
  /\ Call("spin", [Me0 EXCEPT !.call = "connect", !.c = c])
  /\ app' = [app EXCEPT ![c] = [@ EXCEPT !.res = "ok", !.len = 0, !.state = "connect"]]
  /\ conn' = [conn EXCEPT ![c] = [NoConn EXCEPT !.tcp = "syn_sent", !.peer = p]]
  /\ peer' = [peer EXCEPT ![p].met = TRUE]
  /\ UNCHANGED <<accept, owner, told, had, rough, handed, ret>>

\* net.send, net.recv and net.close of a socket: the first test
Request(call, c, n, line, timed) ==
  /\ owner[c] # NoPeer
  /\ IF Active(c)
     THEN /\ Call("post", [call |-> call, c |-> c, n |-> n, line |-> line, timed |-> timed])
          /\ UNCHANGED <<owner, ret>>
     ELSE /\ Call("idle", Me0)
          /\ ret' = [asked |-> n, done |-> -1, err |-> app[c].res]
          /\ owner' = IF call = "close" THEN [owner EXCEPT ![c] = NoPeer] ELSE owner
  /\ UNCHANGED <<conn, app, accept, peer, told, had, rough, handed>>

\* elua_prep_socket_state, the state last; res, which says where recv is to store the
\* data, has the value of ERR_TIMEDOUT in a recv of the module net
Post ==
  /\ pc = "post"
  /\ app' = [app EXCEPT ![me.c] =
       [state |-> me.call, line |-> me.line, len |-> me.n,
        ptr |-> told[owner[me.c]].given + 1, res |-> IF me.call = "recv" THEN "timedout" ELSE "ok"]]
  /\ told' = IF me.call = "send" THEN [told EXCEPT ![owner[me.c]].given = @ + me.n] ELSE told
  /\ Goto("spin")
  /\ UNCHANGED <<conn, accept, owner, calls, peer, had, rough, handed, ret>>

\* the locked part of a recv that times out
TimesOut ==
  /\ pc = "spin" /\ me.timed /\ app[me.c].state # "idle"
  /\ app' = [app EXCEPT ![me.c] = [@ EXCEPT !.res = "timedout", !.state = "idle"]]
  /\ rough' = rough \cup {conn[me.c].peer}
  /\ UNCHANGED <<conn, accept, pc, me, owner, calls, peer, told, had, handed, ret>>

Returns ==
  /\ pc = "spin" /\ app[me.c].state = "idle"
  /\ LET a    == app[me.c]
         done == me.n - a.len IN
     /\ ret' = [asked |-> me.n, done |-> done, err |-> a.res]
     /\ told' = IF me.call = "send" THEN [told EXCEPT ![owner[me.c]].sent = @ + done] ELSE told
     /\ owner' = [owner EXCEPT ![me.c] =
          CASE me.call = "connect" -> IF a.res = "ok" THEN conn[me.c].peer ELSE @
            [] me.call = "close" -> NoPeer
            [] OTHER -> @]
  /\ GoIdle
  /\ UNCHANGED <<conn, app, accept, calls, peer, had, rough, handed>>

\* net.accept: listen, forget the last socket, ask
Accept(timed) ==
  /\ Call("ask", [Me0 EXCEPT !.call = "accept", !.timed = timed])
  /\ accept' = [accept EXCEPT !.listening = TRUE]
  /\ UNCHANGED <<conn, app, owner, peer, told, had, rough, handed, ret>>

\* Mutant: the socket of the last call is not forgotten.
AskAgain ==
  /\ pc = "ask"
  /\ accept' = [accept EXCEPT !.request = TRUE]
  /\ Goto("accept")
  /\ UNCHANGED <<conn, app, owner, calls, peer, told, had, rough, handed, ret>>

Ask ==
  /\ pc = "ask"
  /\ accept' = [accept EXCEPT !.sock = None, !.request = TRUE]
  /\ Goto("accept")
  /\ UNCHANGED <<conn, app, owner, calls, peer, told, had, rough, handed, ret>>

\* the time is up, but a connection may still come before the request is withdrawn
AcceptTimesOut ==
  /\ pc = "accept" /\ accept.request /\ me.timed
  /\ Goto("withdraw")
  /\ UNCHANGED <<conn, app, accept, owner, calls, peer, told, had, rough, handed, ret>>

Withdraw ==
  /\ pc = "withdraw"
  /\ accept' = [accept EXCEPT !.request = FALSE]
  /\ Goto("accept")
  /\ UNCHANGED <<conn, app, owner, calls, peer, told, had, rough, handed, ret>>

Accepted ==
  /\ pc = "accept" /\ ~accept.request
  /\ IF accept.sock = None THEN UNCHANGED <<owner, handed>>
     ELSE /\ owner' = [owner EXCEPT ![accept.sock] = accept.remote]
          /\ handed' = [handed EXCEPT ![accept.remote] = @ + 1]
  /\ GoIdle
  /\ UNCHANGED <<conn, app, accept, calls, peer, told, had, rough, ret>>

-----------------------------------------------------------------------------
Calls ==
  \/ Socket
  \/ \E c \in Conns, p \in Peers : Connect(c, p)
  \/ \E timed \in BOOLEAN : Accept(timed)
  \/ \E c \in Conns, n \in Sizes :
       \/ Request("send", c, n, FALSE, FALSE)
       \/ \E line, timed \in BOOLEAN : Request("recv", c, n, line, timed)
  \/ \E c \in Conns : Request("close", c, 0, FALSE, FALSE)

Program == Post \/ Returns \/ Ask \/ Withdraw \/ Accepted

Timers(c) == Retransmit(c) \/ GiveUp(c) \/ Forget(c)

Network(c) ==
  \/ \E k \in 0..Mss : Connected(c, k) \/ \E ack \in BOOLEAN : Fin(c, k, ack)
  \/ PeerGets(c)
  \/ \E k \in 0..Mss, ack \in BOOLEAN, window \in Windows : Segment(c, k, ack, window)
  \/ Reset(c) \/ LastAck(c) \/ PeerCloses(c)

Next ==
  \/ Calls \/ Program \/ TimesOut \/ AcceptTimesOut
  \/ \E p \in Peers : Syn(p)
  \/ \E c \in Conns : Network(c) \/ Timers(c) \/ Poll(c)

Spec == Init /\ [][Next]_vars

\* The program goes on, and the SysTick interrupt, which drives uip_periodic, keeps
\* coming.  Nothing is expected of the peers.
FairSpec == /\ Spec
            /\ WF_vars(Program)
            /\ \A c \in Conns : WF_vars(Timers(c)) /\ WF_vars(Poll(c))

-----------------------------------------------------------------------------
(* Properties                                                              *)

\* The number send returns is the number of bytes actually sent (net.send in the
\* manual): the peer the socket was opened for has got that many of the bytes given
\* for it, each once and in order, whatever was lost, sent again or broken off.  (A
\* socket whose connection ended may be in use for another peer.)
SentArrived ==
  \A c \in Conns : owner[c] # NoPeer /\ owner[c] = conn[c].peer =>
    LET p == owner[c] IN
    /\ told[p].sent <= Len(peer[p].got)
    /\ peer[p].got = Bytes(1, Len(peer[p].got))

\* Data a peer was told has arrived reaches the program, however its segments fall
\* between the calls of recv.  Rough are the peers for which that fails by the design
\* of the callback: a recv for them timed out, which leaves the connection open for
\* data nobody reads; a segment held more than the recv asked for or went on after
\* the end of the line; data came with the handshake or the FIN.
NothingLost ==
  \A p \in Peers : p \notin rough => had[p] = peer[p].acked

\* accept returns each connection once, also when it comes just as the time is up.
AcceptedOnce == \A p \in Peers : handed[p] <= 1

\* A transfer that ends short is explained by get_last_err.
ShortMeansError ==
  [][pc = "spin" /\ pc' = "idle" /\ ret'.err = "ok" =>
       /\ me.call = "send" => ret'.done = me.n
       /\ me.call = "recv" /\ ~me.line => ret'.done > 0]_vars

\* A connect or close posted to a connection that has not ended returns, even when the
\* peer never answers again: the one by the limit of retransmissions, the other by a poll.
CallsEnd ==
  (/\ pc = "spin" /\ me.call \in {"connect", "close"}
   /\ In(me.c, {"syn_sent", "established", "last_ack"}))
    ~> pc = "idle"

\* "The maximum number of times a segment should be retransmitted before the connection
\* should be aborted" (uip/uipopt.h): so a send posted to a connection that has not ended
\* returns.  It does not when the peer falls silent: a poll after each retransmission
\* starts the count anew.
SendReturns ==
  (pc = "spin" /\ me.call = "send" /\ In(me.c, {"established", "last_ack"})) ~> pc = "idle"

\* The peers take what is sent and acknowledge it.
PeersAnswer ==
  \A c \in Conns : /\ WF_vars(PeerGets(c))
                   /\ WF_vars(\E k \in 0..Mss, window \in Windows : Segment(c, k, TRUE, window))

\* With peers that answer a send does return, whatever is lost, sent again, polled for or
\* broken off in between, and whatever the other connections do.
SendEnds == PeersAnswer => SendReturns
=============================================================================
