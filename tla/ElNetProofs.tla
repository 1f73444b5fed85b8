------------------------------ MODULE ElNetProofs ------------------------------
(***************************************************************************)
(* What ElNet promises for every number of connections, peers, sizes and   *)
(* segments.                                                               *)
(*                                                                         *)
(* A connection of uip_conns is used again as soon as it is closed, while  *)
(* the program may still be in a call for it, or hold a socket for it.     *)
(* The invariants therefore say which peer a connection is for, and what   *)
(* of the accounts of that peer the call in progress stands for.           *)
(***************************************************************************)
EXTENDS ElNet, WellFoundedInduction, SequenceTheorems, TLAPS

TcpStates  == Alive \cup {"closed", "reserved"}
Handshake  == {"syn_sent", "syn_rcvd"}
AppStates  == {"idle", "send", "recv", "recv_2", "close", "connect"}
Errors     == {"ok", "aborted", "timedout", "closed"}
Hosts      == Peers \cup {NoPeer}
Stream     == Seq(Nat)
ConnType   == [tcp : TcpStates, peer : Hosts, stopped : BOOLEAN, mss : Nat,
               flight : Stream, seen : BOOLEAN, nrtx : Nat]
AppType    == [state : AppStates, res : Errors, ptr : Nat, len : Nat, line : BOOLEAN]
AnswerType == [app : AppType, does : {"nothing", "restart", "stop", "close"},
               send : Stream, used : Nat]
AcceptType == [listening : BOOLEAN, request : BOOLEAN, sock : 0..NumConns, remote : Hosts]
CallType   == [call : {"none", "connect", "send", "recv", "close", "accept"},
               c : 0..NumConns, n : Nat, line : BOOLEAN, timed : BOOLEAN]
PeerType   == [met : BOOLEAN, got : Stream, acked : Nat]
ToldType   == [given : Nat, sent : Int]
RetType    == [asked : Nat, done : Int, err : Errors]

TypeOK ==
  /\ conn \in [Conns -> ConnType] /\ app \in [Conns -> AppType] /\ accept \in AcceptType
  /\ pc \in {"idle", "post", "spin", "ask", "accept", "withdraw"} /\ me \in CallType
  /\ owner \in [Conns -> Hosts] /\ calls \in Nat
  /\ peer \in [Peers -> PeerType] /\ told \in [Peers -> ToldType]
  /\ had \in [Peers -> Nat] /\ rough \subseteq Hosts /\ handed \in [Peers -> Nat]
  /\ ret \in RetType

\* The program is in one call, and only the connection of that call has a request.
OneCall ==
  /\ pc \in {"post", "spin"} =>
       /\ me.c \in Conns /\ me.call \in {"connect", "send", "recv", "close"}
       /\ me.call # "connect" => owner[me.c] \in Peers
       /\ me.call \in {"send", "recv"} => me.n > 0
       /\ pc = "post" => me.call # "connect"
       /\ me.timed => me.call = "recv"
  /\ \A c \in Conns : app[c].state # "idle" =>
       /\ pc = "spin" /\ me.c = c
       /\ app[c].state = me.call \/ (app[c].state = "recv_2" /\ me.call = "recv")

\* A connection in use is for a peer, and a peer has one connection, ever.
OneSlot ==
  /\ \A c \in Conns : conn[c].tcp \in Alive => conn[c].peer \in Peers
  /\ accept.sock # None => accept.remote \in Peers
  /\ \A c, d \in Conns : conn[c].peer \in Peers /\ conn[c].peer = conn[d].peer => c = d
  /\ \A c, d \in Conns : owner[d] \in Peers /\ conn[c].peer = owner[d] => c = d
  /\ \A c \in Conns : accept.sock # None /\ conn[c].peer = accept.remote => c = accept.sock
  /\ \A p \in Peers : ~peer[p].met =>
       /\ handed[p] = 0 /\ accept.remote # p
       /\ \A c \in Conns : conn[c].peer # p /\ owner[c] # p

\* The connection a pending accept has got.
Handing == pc \in {"accept", "withdraw"} /\ accept.sock # None

\* A connection is handed out at most once, as it is established.
Once ==
  /\ accept.request => pc \in {"accept", "withdraw"} /\ accept.sock = None
  /\ \A c \in Conns : conn[c].tcp \in Handshake =>
       handed[conn[c].peer] = 0 /\ ~(Handing /\ accept.remote = conn[c].peer)
  /\ Handing => handed[accept.remote] = 0

\* Data is taken only while a recv waits for it.
Reception ==
  \A c \in Conns : conn[c].tcp = "established" /\ ~conn[c].stopped =>
    app[c].state = "recv_2" \/ conn[c].peer \in rough

\* What the call in progress leaves of what it was asked for.
Account ==
  pc = "spin" =>
    LET a == app[me.c] IN
    /\ me.call \in {"send", "recv"} => a.len <= me.n
    /\ me.call = "send" => /\ a.state = "idle" /\ a.res = "ok" <=> a.len = 0
                           /\ a.state # "idle" => a.res = "ok"
    /\ me.call = "recv" => /\ a.line = me.line
                           /\ a.state # "idle" => a.len > 0
                           /\ a.state = "idle" /\ a.res = "ok" /\ ~me.line => a.len < me.n

IInv == TypeOK /\ OneCall /\ OneSlot /\ Once /\ AcceptedOnce /\ Reception /\ NothingLost /\ Account

\* The windows of the peers leave the size of a segment alone.
Steady == \A w \in Windows : w = 0 \/ w >= Mss

\* What is in flight belongs to a send.
Flight ==
  \A c \in Conns :
    /\ conn[c].mss = Mss
    /\ conn[c].flight # <<>> => conn[c].tcp = "established" /\ app[c].state = "send"
    /\ conn[c].seen => conn[c].flight # <<>>

SendCall(c) == pc = "spin" /\ me.call = "send" /\ me.c = c

Books ==
  /\ \A p \in Peers : 0 <= told[p].sent /\ told[p].sent <= told[p].given
  /\ pc = "spin" /\ me.call = "send" => told[owner[me.c]].sent + me.n <= told[owner[me.c]].given

\* A connection the program may yet get a socket for has had no data.
Coming(c) ==
  /\ conn[c].peer \in Peers /\ owner[c] # conn[c].peer
  /\ \/ conn[c].tcp \in Handshake
     \/ Handing /\ accept.sock = c /\ accept.remote = conn[c].peer
     \/ pc = "spin" /\ me.call = "connect" /\ me.c = c

Blank(t, got) == t.given = 0 /\ t.sent = 0 /\ got = <<>>
Untouched(p)  == Blank(told[p], peer[p].got)

\* What a peer has got agrees with what send has told of it: n is the connection, a its
\* request, part what the call in progress has sent.
Even(n, a, got, t, part) ==
  /\ got = Bytes(1, Len(got))
  /\ t.sent + part <= Len(got)
  /\ n.tcp \in Handshake \cup {"established"} =>
       IF a.state = "send"
       THEN /\ a.ptr + a.len = t.given + 1
            /\ n.flight = <<>> \/ n.flight = Bytes(a.ptr, Upto(a.len, Mss))
            /\ Len(got) = a.ptr - 1 + (IF n.seen THEN Len(n.flight) ELSE 0)
       ELSE Len(got) = t.given

Part(c) == IF SendCall(c) THEN me.n - app[c].len ELSE 0

\* The accounts of the peer of a socket are even.
Balanced(c) == Even(conn[c], app[c], peer[conn[c].peer].got, told[conn[c].peer], Part(c))

Fresh == \A p \in Peers : ~peer[p].met => Untouched(p)

Accounts ==
  \A c \in Conns :
    /\ conn[c].tcp \in Handshake => peer[conn[c].peer].got = <<>>
    /\ Coming(c) => Untouched(conn[c].peer)
    /\ conn[c].peer \in Peers /\ owner[c] = conn[c].peer => Balanced(c)

SInv == Flight /\ Books /\ Fresh /\ Accounts

-----------------------------------------------------------------------------
(* What the callback does to a request.                                    *)

\* The smallest of a set of numbers is one of them.
LEMMA MinOf == ASSUME NEW T, T \subseteq Nat, T # {}
               PROVE  Min(T) \in T /\ \A y \in T : Min(T) <= y
<1> DEFINE R == OpToRel(<, Nat)
<1>1. IsWellFoundedOn(R, Nat)  BY NatLessThanWellFounded
<1>2. \A x, y \in Nat : x < y => <<x, y>> \in R
  BY DEF OpToRel
<1> HIDE DEF R
<1>3. \E x \in T : \A y \in T : ~(<<y, x>> \in R)
  BY <1>1, WFMin, Zenon
<1>4. \E x \in T : \A y \in T : x <= y
  <2>1. PICK x \in T : \A y \in T : ~(<<y, x>> \in R)  BY <1>3
  <2>2. ASSUME NEW y \in T PROVE x <= y
    <3>1. x \in Nat /\ y \in Nat  OBVIOUS
    <3>2. ~(y < x)  BY <1>2, <2>1, <3>1, Zenon
    <3> QED  BY <3>1, <3>2
  <2> QED  BY <2>2, Zenon
<1> QED  BY <1>4, Zenon DEF Min

\* A run of numbered bytes.
LEMMA BytesType ==
  ASSUME NEW from \in Nat, NEW n \in Nat
  PROVE  /\ Bytes(from, n) \in Stream /\ Len(Bytes(from, n)) = n
         /\ \A i \in 1..n : Bytes(from, n)[i] = from + i - 1
BY DEF Bytes, Stream

\* The empty run is the empty sequence.
LEMMA NoBytes == /\ <<>> \in Stream /\ Len(<<>>) = 0
                 /\ \A from \in Nat : Bytes(from, 0) = <<>>
BY DEF Bytes, Stream

\* What the callback may make of a request: it serves it, ends it with an error, or
\* leaves it; a recv that goes on is in its second state.
Serves(a, b) ==
  /\ b.state = "idle" \/ b.state = a.state \/ (a.state = "recv" /\ b.state = "recv_2")
  /\ a.state = "idle" => b = a
  /\ b.line = a.line /\ b.len <= a.len
  /\ a.state = "send" /\ a.res = "ok" /\ a.len > 0 =>
       /\ b.state = "idle" /\ b.res = "ok" <=> b.len = 0
       /\ b.state # "idle" => b.res = "ok"
  /\ a.state \in {"recv", "recv_2"} /\ a.len > 0 =>
       /\ b.state # "idle" => b.len > 0
       /\ b.state = "idle" /\ b.res = "ok" /\ ~b.line => b.len < a.len

EndFlags == {"aborted", "timedout", "closed"}

\* The part of the callback that acknowledges and sends.
LEMMA SendingFacts ==
  ASSUME NEW a \in AppType, NEW acked \in Nat, acked <= a.len, NEW mss \in Nat,
         a.state = "send"
  PROVE  LET r == Sending(a, acked, mss) IN
         /\ r \in AnswerType /\ Serves(a, r.app) /\ r.used = 0 /\ r.does = "nothing"
         /\ r.app.ptr = a.ptr + acked /\ r.app.len = a.len - acked /\ r.app.res = a.res
         /\ r.app.state = IF acked = a.len THEN "idle" ELSE "send"
         /\ r.send = Bytes(a.ptr + acked, Upto(a.len - acked, mss))
<1> DEFINE b1 == [a EXCEPT !.ptr = @ + acked]
           b2 == [b1 EXCEPT !.len = @ - acked]
           b  == [b2 EXCEPT !.state = IF acked = a.len THEN "idle" ELSE @]
<1>0. /\ a = [state |-> a.state, res |-> a.res, ptr |-> a.ptr, len |-> a.len, line |-> a.line]
      /\ a.len \in Nat /\ a.res \in Errors /\ a.ptr \in Nat /\ a.line \in BOOLEAN
  BY DEF AppType
<1>b. b = [state |-> IF acked = a.len THEN "idle" ELSE "send", res |-> a.res,
           ptr |-> a.ptr + acked, len |-> a.len - acked, line |-> a.line]
  <2>1. b1 = [state |-> "send", res |-> a.res, ptr |-> a.ptr + acked, len |-> a.len,
              line |-> a.line]
    BY <1>0
  <2> HIDE DEF b1
  <2>2. b2 = [state |-> "send", res |-> a.res, ptr |-> a.ptr + acked, len |-> a.len - acked,
              line |-> a.line]
    BY <2>1
  <2> HIDE DEF b2
  <2> QED  BY <2>2
<1>n. a.ptr + acked \in Nat /\ a.len - acked \in Nat
  BY <1>0
<1>c. Sending(a, acked, mss) = [Answer(b, "nothing") EXCEPT !.send = Bytes(b.ptr, Upto(b.len, mss))]
  BY DEF Sending
<1> HIDE DEF b, b1, b2
<1>1. b \in AppType /\ b.len = a.len - acked /\ b.ptr = a.ptr + acked /\ b.len \in Nat /\ b.ptr \in Nat
  BY <1>b, <1>n, <1>0 DEF AppType, AppStates
<1>2. Serves(a, b)
  BY <1>b, <1>0 DEF Serves
<1>3. Upto(b.len, mss) \in Nat
  BY <1>1 DEF Upto
<1>4. Bytes(b.ptr, Upto(b.len, mss)) \in Stream
  BY <1>1, <1>3, BytesType, Zenon
<1>5. Sending(a, acked, mss) = [app |-> b, does |-> "nothing",
                                send |-> Bytes(b.ptr, Upto(b.len, mss)), used |-> 0]
  BY <1>c DEF Answer
<1>6. Sending(a, acked, mss) \in AnswerType
  BY <1>1, <1>4, <1>5 DEF AnswerType
<1> QED
  BY <1>1, <1>2, <1>5, <1>6, <1>b

\* The part of the callback that takes data.
LEMMA TakingFacts ==
  ASSUME NEW a \in AppType, NEW b \in Nat, NEW k \in Nat, NetAssumption,
         a.state = "recv_2", NEW does \in {"nothing", "restart", "stop", "close"}
  PROVE  LET r == Taking(a, b, k, does) IN
         /\ r \in AnswerType /\ r.used <= k /\ r.send = <<>>
         /\ k > 0 => Serves(a, r.app)
         /\ r.does = does \/ (r.does = "nothing" /\ r.app.state = "recv_2")
<1> DEFINE fits == Upto(a.len, k)
           ends == {i \in 1..fits : a.line /\ b + i - 1 \in Newlines}
           used == IF ends = {} THEN fits ELSE Min(ends)
           kept == IF ends = {} THEN fits ELSE used - 1
           left == [a EXCEPT !.len = @ - kept]
           fine == [left EXCEPT !.res = "ok"]
           over == [fine EXCEPT !.state = "idle"]
           last == k < Mss \/ kept = a.len \/ ends # {}
<1>1. a.len \in Nat /\ a.state \in AppStates /\ a.res \in Errors /\ a.ptr \in Nat /\ a.line \in BOOLEAN
  BY DEF AppType
<1>2. fits \in Nat /\ fits <= a.len /\ fits <= k /\ (k > 0 /\ a.len > 0 => fits > 0)
  BY <1>1 DEF Upto
<1> HIDE DEF fits
<1>3. ends # {} => Min(ends) \in 1..fits /\ a.line
  <2>1. ends \subseteq Nat  BY <1>2
  <2>2. ends # {} => Min(ends) \in ends  BY <2>1, MinOf, Zenon
  <2> HIDE DEF ends
  <2>3. \A i \in ends : i \in 1..fits /\ a.line  BY DEF ends
  <2> QED  BY <2>2, <2>3, Zenon
<1> HIDE DEF ends
<1>m. ends # {} => Min(ends) \in Nat /\ Min(ends) - 1 \in Nat /\ Min(ends) <= fits
  BY <1>2, <1>3
<1>4. used \in Nat /\ used <= k /\ kept \in Nat /\ kept <= a.len
      /\ (ends = {} => kept = fits)
  BY <1>1, <1>2, <1>m
<1> HIDE DEF used, kept
<1>5. left \in AppType /\ left = [state |-> a.state, res |-> a.res, ptr |-> a.ptr,
                                  len |-> a.len - kept, line |-> a.line]
  BY <1>1, <1>4 DEF AppType
<1>6. over \in AppType /\ over = [state |-> "idle", res |-> "ok", ptr |-> a.ptr,
                                  len |-> a.len - kept, line |-> a.line]
  <2> HIDE DEF left
  <2>0. fine = [state |-> a.state, res |-> "ok", ptr |-> a.ptr,
                len |-> a.len - kept, line |-> a.line]
    BY <1>5
  <2> HIDE DEF fine
  <2>1. over = [state |-> "idle", res |-> "ok", ptr |-> a.ptr,
                len |-> a.len - kept, line |-> a.line]
    BY <2>0
  <2>2. a.len - kept \in Nat  BY <1>1, <1>4
  <2> HIDE DEF over
  <2> QED  BY <2>1, <2>2, <1>1 DEF AppType, AppStates, Errors
<1>7. Taking(a, b, k, does) =
        IF last
        THEN [app |-> over, does |-> does, send |-> <<>>, used |-> used]
        ELSE [app |-> left, does |-> "nothing", send |-> <<>>, used |-> used]
  <2>1. Taking(a, b, k, does) =
          IF last THEN [Answer(over, does) EXCEPT !.used = used]
          ELSE [Answer(left, "nothing") EXCEPT !.used = used]
    BY DEF Taking, fits, ends, used, kept
  <2> HIDE DEF last, left, fine, over
  <2>2. \A x, d : [Answer(x, d) EXCEPT !.used = used]
                    = [app |-> x, does |-> d, send |-> <<>>, used |-> used]
    BY DEF Answer
  <2> QED  BY <2>1, <2>2, Zenon
<1>8. k > 0 /\ last => Serves(a, over)
  <2> HIDE DEF over, last, left, fine
  <2> SUFFICES ASSUME k > 0, last PROVE Serves(a, over)  OBVIOUS
  <2>1. a.len > 0 /\ ~a.line => kept > 0  BY <1>1, <1>2, <1>3, <1>4
  <2> QED  BY <1>1, <1>2, <1>4, <1>6, <2>1 DEF Serves
<1>9. k > 0 /\ ~last => Serves(a, left)
  <2> HIDE DEF left
  <2> QED  BY <1>1, <1>4, <1>5 DEF Serves
<1> HIDE DEF left, fine, over, last
<1>9a. "nothing" \in {"nothing", "restart", "stop", "close"}  OBVIOUS
<1>10. Taking(a, b, k, does) \in AnswerType
  <2>1. over \in AppType /\ left \in AppType /\ used \in Nat /\ <<>> \in Stream
    BY <1>4, <1>5, <1>6, NoBytes
  <2>2. [app |-> over, does |-> does, send |-> <<>>, used |-> used] \in AnswerType
    BY <2>1, Zenon DEF AnswerType
  <2>3. [app |-> left, does |-> "nothing", send |-> <<>>, used |-> used] \in AnswerType
    BY <2>1, <1>9a, Zenon DEF AnswerType
  <2> QED  BY <1>7, <2>2, <2>3
<1> QED  BY <1>1, <1>4, <1>5, <1>6, <1>7, <1>8, <1>9, <1>10

\* What any callback does: it takes no data that has not come, sends only for a send, and
\* has a recv go on, or end, as uIP is asked to start, go on or stop.
Lawful(a, flags, k, r) ==
  /\ r \in AnswerType /\ Serves(a, r.app) /\ r.used <= k
  /\ "newdata" \notin flags => r.used = 0
  /\ r.send # <<>> => a.state = "send"
  /\ a.state = "recv_2" /\ flags \cap EndFlags = {} =>
       /\ r.does = "stop" \/ (r.does = "nothing" /\ r.app.state = "recv_2")
       /\ "newdata" \notin flags => r.app = a
  /\ r.does = "restart" => r.app.state = "recv_2"
  /\ r.does = "close" => a.state = "close"

\* Every callback is lawful.
LEMMA CallbackFacts ==
  ASSUME NEW a \in AppType, NEW flags, NEW mss \in Nat, NEW b \in Nat, NEW k \in Nat,
         NetAssumption, "newdata" \in flags => k > 0
  PROVE  Lawful(a, flags, k, Callback(a, flags, mss, b, k))
<1>l. SUFFICES LET r == Callback(a, flags, mss, b, k) IN
         /\ r \in AnswerType /\ Serves(a, r.app) /\ r.used <= k
         /\ "newdata" \notin flags => r.used = 0
         /\ r.send # <<>> => a.state = "send"
         /\ a.state = "recv_2" /\ flags \cap EndFlags = {} =>
              /\ r.does = "stop" \/ (r.does = "nothing" /\ r.app.state = "recv_2")
              /\ "newdata" \notin flags => r.app = a
         /\ r.does = "restart" => r.app.state = "recv_2"
         /\ r.does = "close" => a.state = "close"
  BY Zenon DEF Lawful
<1> DEFINE r == Callback(a, flags, mss, b, k)
<1>0. a.len \in Nat /\ a.state \in AppStates /\ a.res \in Errors /\ a.ptr \in Nat /\ a.line \in BOOLEAN
  BY DEF AppType
<1>a. ASSUME NEW x \in AppType, NEW does \in {"nothing", "restart", "stop", "close"}
      PROVE  Answer(x, does) \in AnswerType /\ Answer(x, does).app = x /\ Answer(x, does).used = 0
             /\ Answer(x, does).does = does /\ Answer(x, does).send = <<>>
  BY NoBytes DEF Answer, AnswerType
<1>b. Serves(a, a)
  BY <1>0 DEF Serves
<1>1. CASE a.state = "idle"
  <2>1. r = Answer(a, "nothing")  BY <1>1 DEF Callback
  <2> HIDE DEF r
  <2> QED  BY <1>1, <2>1, <1>a, <1>b DEF r
<1>2. CASE a.state = "recv"
  <2> DEFINE x == [a EXCEPT !.state = "recv_2"]
  <2>1. r = Answer(x, "restart")  BY <1>2 DEF Callback
  <2>2. x \in AppType /\ x.state = "recv_2"  BY DEF AppType, AppStates
  <2>3. Serves(a, x)  BY <1>0, <1>2 DEF Serves, AppType
  <2> HIDE DEF r, x
  <2> QED  BY <1>2, <2>1, <2>2, <2>3, <1>a DEF r
<1>3. CASE a.state \notin {"idle", "recv"} /\ flags \cap EndFlags # {}
  <2> DEFINE x == [a EXCEPT !.res = Failed(flags), !.state = "idle"]
  <2>1. r = Answer(x, "nothing")  BY <1>3 DEF Callback, EndFlags
  <2>2. Failed(flags) \in Errors \ {"ok"}  BY DEF Failed, Errors
  <2>3. x \in AppType  BY <2>2 DEF AppType, AppStates
  <2>4. Serves(a, x)  BY <1>0, <1>3, <2>2 DEF Serves, AppType
  <2> HIDE DEF r, x
  <2> QED  BY <1>3, <2>1, <2>3, <2>4, <1>a DEF r
<1>4. CASE a.state = "send" /\ flags \cap EndFlags = {}
  <2>1. CASE flags # {"newdata"}
    <3> DEFINE acked == IF "acked" \in flags THEN Acked(a, mss) ELSE 0
    <3>1. r = Sending(a, acked, mss)  BY <1>4, <2>1 DEF Callback, EndFlags
    <3>2. acked \in Nat /\ acked <= a.len  BY <1>0 DEF Acked, Upto
    <3> HIDE DEF acked
    <3>2a. a.state = "send"  BY <1>4
    <3>2b. LET s == Sending(a, acked, mss) IN
            s \in AnswerType /\ Serves(a, s.app) /\ s.used = 0 /\ s.does = "nothing"
      BY <3>2a, <3>2, SendingFacts
    <3> HIDE DEF r
    <3>3. /\ r \in AnswerType /\ Serves(a, r.app) /\ r.used = 0 /\ r.does = "nothing"
      BY <3>1, <3>2b
    <3> QED  BY <1>4, <3>3 DEF r
  <2>2. CASE flags = {"newdata"}
    <3>1. r = Answer(a, "stop")  BY <1>4, <2>2 DEF Callback, EndFlags
    <3> HIDE DEF r
    <3> QED  BY <1>4, <3>1, <1>a, <1>b DEF r
  <2> QED  BY <2>1, <2>2
<1>5. CASE a.state = "close" /\ flags \cap EndFlags = {}
  <2> DEFINE x == [a EXCEPT !.state = "idle"]
  <2>1. r = Answer(x, "close")  BY <1>5 DEF Callback, EndFlags
  <2>2. x \in AppType  BY DEF AppType, AppStates
  <2>3. Serves(a, x)  BY <1>0, <1>5 DEF Serves, AppType
  <2> HIDE DEF r, x
  <2> QED  BY <1>5, <2>1, <2>2, <2>3, <1>a DEF r
<1>6. CASE a.state = "recv_2" /\ flags \cap EndFlags = {}
  <2>1. CASE "newdata" \in flags
    <3>1. r = Taking(a, b, k, "stop")  BY <1>6, <2>1 DEF Callback, EndFlags, Reading
    <3> HIDE DEF r
    <3> QED  BY <1>6, <2>1, <3>1, TakingFacts, SMTT(30) DEF r
  <2>2. CASE "newdata" \notin flags
    <3>1. r = Answer(a, "nothing")  BY <1>6, <2>2 DEF Callback, EndFlags
    <3> HIDE DEF r
    <3> QED  BY <1>6, <3>1, <1>a, <1>b DEF r
  <2> QED  BY <2>1, <2>2
<1>7. CASE a.state = "connect" /\ flags \cap EndFlags = {}
  <2>1. \E does \in {"stop", "nothing"} : r = Answer(a, does)  BY <1>7 DEF Callback, EndFlags
  <2> HIDE DEF r
  <2> QED  BY <1>7, <2>1, <1>a, <1>b DEF r
<1> QED  BY <1>0, <1>1, <1>2, <1>3, <1>4, <1>5, <1>6, <1>7 DEF AppStates

-----------------------------------------------------------------------------
(* A step of the handler for one connection.                               *)

\* The fields of the records.
LEMMA Fields ==
  /\ \A a \in AppType : a.state \in AppStates /\ a.res \in Errors /\ a.ptr \in Nat
                        /\ a.len \in Nat /\ a.line \in BOOLEAN
  /\ \A n \in ConnType : n.tcp \in TcpStates /\ n.peer \in Hosts /\ n.stopped \in BOOLEAN
                         /\ n.mss \in Nat /\ n.flight \in Stream /\ n.seen \in BOOLEAN
                         /\ n.nrtx \in Nat
BY DEF AppType, ConnType

\* A connection that begins, or that has ended.
Begun(t, q) == [NoConn EXCEPT !.tcp = t, !.peer = q]

\* Such a connection has nothing in flight.
LEMMA NewConn ==
  ASSUME NetAssumption, NEW t \in TcpStates, NEW q \in Hosts
  PROVE  LET n == Begun(t, q) IN
         /\ n \in ConnType /\ n.tcp = t /\ n.peer = q /\ n.mss = Mss /\ n.flight = <<>>
         /\ ~n.seen /\ ~n.stopped
<1> DEFINE m == [NoConn EXCEPT !.tcp = t]
           n == [m EXCEPT !.peer = q]
<1>1. Mss \in Nat /\ <<>> \in Stream /\ "closed" \in TcpStates /\ NoPeer \in Hosts
  BY NoBytes DEF NetAssumption, TcpStates, Hosts
<1>2. NoConn \in ConnType
  BY <1>1 DEF NoConn, ConnType
<1>3. NoConn.mss = Mss /\ NoConn.flight = <<>> /\ ~NoConn.seen /\ ~NoConn.stopped
  BY DEF NoConn
<1>4. /\ m \in ConnType /\ m.tcp = t /\ m.mss = NoConn.mss /\ m.flight = NoConn.flight
      /\ m.seen = NoConn.seen /\ m.stopped = NoConn.stopped
  BY <1>2 DEF ConnType
<1> HIDE DEF m
<1>5. /\ n \in ConnType /\ n.tcp = m.tcp /\ n.peer = q /\ n.mss = m.mss /\ n.flight = m.flight
      /\ n.seen = m.seen /\ n.stopped = m.stopped
  BY <1>4 DEF ConnType
<1>6. Begun(t, q) = n
  BY DEF m, Begun
<1> HIDE DEF n
<1> QED  BY <1>3, <1>4, <1>5, <1>6

\* What such a step does, whatever the segment: it serves the request of that
\* connection only, gives the connection to nobody else, and loses no data.
NetStep(c, cn, a) ==
  /\ conn' = [conn EXCEPT ![c] = cn] /\ cn \in ConnType /\ cn.peer = conn[c].peer
  /\ cn.tcp \in Alive => conn[c].tcp \in Alive
  /\ cn.tcp \in Handshake => conn[c].tcp \in Handshake
  /\ app' = [app EXCEPT ![c] = a] /\ a \in AppType /\ Serves(app[c], a)
  /\ peer' \in [Peers -> PeerType] /\ \A p \in Peers : peer'[p].met = peer[p].met
  /\ had' \in [Peers -> Nat] /\ rough \subseteq rough' /\ rough' \subseteq Hosts
  /\ accept' = accept /\ pc' = pc /\ me' = me /\ owner' = owner /\ calls' = calls
  /\ told' = told /\ handed' = handed /\ ret' = ret
  /\ cn.tcp = "established" /\ ~cn.stopped => a.state = "recv_2" \/ cn.peer \in rough'
  /\ \A p \in Peers : p \notin rough' => had'[p] = peer'[p].acked

\* Such a step keeps the invariant.
LEMMA NetKeeps ==
  ASSUME NetAssumption, IInv, NEW c \in Conns, NEW cn, NEW a, NetStep(c, cn, a)
  PROVE  IInv'
<1>t. TypeOK /\ OneCall /\ OneSlot /\ Once /\ AcceptedOnce /\ Reception /\ NothingLost /\ Account
  BY DEF IInv
<1>u. /\ accept' = accept /\ pc' = pc /\ me' = me /\ owner' = owner /\ calls' = calls
      /\ told' = told /\ handed' = handed /\ ret' = ret
  BY DEF NetStep
<1>c. /\ conn \in [Conns -> ConnType] /\ conn' = [conn EXCEPT ![c] = cn] /\ cn \in ConnType
      /\ conn' \in [Conns -> ConnType]
      /\ conn'[c] = cn /\ \A d \in Conns : d # c => conn'[d] = conn[d]
  BY <1>t DEF NetStep, TypeOK
<1>p. \A d \in Conns : /\ conn'[d].peer = conn[d].peer
                       /\ conn'[d].tcp \in Alive => conn[d].tcp \in Alive
                       /\ conn'[d].tcp \in Handshake => conn[d].tcp \in Handshake
  BY <1>c, Zenon DEF NetStep
<1>a. /\ app \in [Conns -> AppType] /\ app' \in [Conns -> AppType] /\ app'[c] = a
      /\ \A d \in Conns : d # c => app'[d] = app[d]
  BY <1>t DEF NetStep, TypeOK
<1>s. \A d \in Conns : Serves(app[d], app'[d])
  <2>1. \A x \in AppType : Serves(x, x)  BY Fields DEF Serves
  <2> QED  BY <2>1, <1>a DEF NetStep
<1>m. peer' \in [Peers -> PeerType] /\ \A p \in Peers : peer'[p].met = peer[p].met
  BY DEF NetStep
<1>1. TypeOK'
  BY <1>t, <1>u, <1>c, <1>a DEF TypeOK, NetStep
<1>2. OneCall'
  <2>1. \A d \in Conns : app'[d].state # "idle" =>
          /\ pc = "spin" /\ me.c = d
          /\ app'[d].state = me.call \/ (app'[d].state = "recv_2" /\ me.call = "recv")
    <3> SUFFICES ASSUME NEW d \in Conns, app'[d].state # "idle"
                 PROVE  /\ pc = "spin" /\ me.c = d
                        /\ app'[d].state = me.call \/ (app'[d].state = "recv_2" /\ me.call = "recv")
      OBVIOUS
    <3>1. Serves(app[d], app'[d])  BY <1>s
    <3>2. /\ app'[d].state = app[d].state
             \/ (app[d].state = "recv" /\ app'[d].state = "recv_2")
          /\ app[d].state # "idle"
      BY <3>1 DEF Serves
    <3>3. /\ pc = "spin" /\ me.c = d
          /\ app[d].state = me.call \/ (app[d].state = "recv_2" /\ me.call = "recv")
      BY <3>2, <1>t DEF OneCall
    <3> QED  BY <3>2, <3>3
  <2> QED  BY <2>1, <1>t, <1>u, Zenon DEF OneCall
<1>3. OneSlot'
  <2>1. \A d \in Conns : conn'[d].tcp \in Alive => conn'[d].peer \in Peers
    BY <1>t, <1>p, Zenon DEF OneSlot
  <2>2. accept'.sock # None => accept'.remote \in Peers
    BY <1>t, <1>u, Zenon DEF OneSlot
  <2>3. \A d, e \in Conns : conn'[d].peer \in Peers /\ conn'[d].peer = conn'[e].peer => d = e
    BY <1>t, <1>p, Zenon DEF OneSlot
  <2>4. \A d, e \in Conns : owner'[e] \in Peers /\ conn'[d].peer = owner'[e] => d = e
    <3>1. \A d, e \in Conns : owner[e] \in Peers /\ conn[d].peer = owner[e] => d = e
      BY <1>t, Zenon DEF OneSlot
    <3> QED  BY <3>1, <1>p, <1>u
  <2>5. \A d \in Conns : accept'.sock # None /\ conn'[d].peer = accept'.remote => d = accept'.sock
    BY <1>t, <1>p, <1>u, Zenon DEF OneSlot
  <2>6. \A p \in Peers : ~peer'[p].met =>
          /\ handed'[p] = 0 /\ accept'.remote # p
          /\ \A d \in Conns : conn'[d].peer # p /\ owner'[d] # p
    BY <1>t, <1>p, <1>u, <1>m, Zenon DEF OneSlot
  <2> QED  BY <2>1, <2>2, <2>3, <2>4, <2>5, <2>6, Zenon DEF OneSlot
<1>4. Once'
  <2>1. Handing' <=> Handing  BY <1>u, Zenon DEF Handing
  <2> QED  BY <1>t, <1>u, <1>p, <2>1, Zenon DEF Once
<1>5. AcceptedOnce'
  BY <1>t, <1>u, Zenon DEF AcceptedOnce
<1>6. Reception'
  <2> SUFFICES ASSUME NEW d \in Conns, conn'[d].tcp = "established", ~conn'[d].stopped
               PROVE  app'[d].state = "recv_2" \/ conn'[d].peer \in rough'
    BY DEF Reception
  <2>1. CASE d = c  BY <2>1, <1>c, <1>a DEF NetStep
  <2>2. CASE d # c  BY <2>2, <1>c, <1>a, <1>t DEF NetStep, Reception
  <2> QED  BY <2>1, <2>2
<1>7. NothingLost'
  BY DEF NothingLost, NetStep
<1>8. Account'
  <2> SUFFICES ASSUME pc = "spin" PROVE Account'
    BY <1>u DEF Account
  <2>1. me.c \in Conns /\ me.call \in {"connect", "send", "recv", "close"}
    BY <1>t DEF OneCall
  <2> DEFINE x == app[me.c]
             y == app'[me.c]
  <2>2. Serves(x, y) /\ x \in AppType /\ y \in AppType
    BY <2>1, <1>s, <1>a
  <2>3. x.len \in Nat /\ y.len \in Nat /\ me.n \in Nat
    BY <2>2, <1>t, Fields DEF TypeOK, CallType
  <2>4. /\ x.state # "idle" => x.state = me.call \/ (x.state = "recv_2" /\ me.call = "recv")
        /\ me.call \in {"send", "recv"} => x.len <= me.n
        /\ me.call = "send" => /\ x.state = "idle" /\ x.res = "ok" <=> x.len = 0
                               /\ x.state # "idle" => x.res = "ok"
        /\ me.call = "recv" => /\ x.line = me.line
                               /\ x.state # "idle" => x.len > 0
                               /\ x.state = "idle" /\ x.res = "ok" /\ ~me.line => x.len < me.n
    BY <2>1, <1>t DEF Account, OneCall
  <2> HIDE DEF x, y
  <2>5. /\ me.call \in {"send", "recv"} => y.len <= me.n
        /\ me.call = "send" => /\ y.state = "idle" /\ y.res = "ok" <=> y.len = 0
                               /\ y.state # "idle" => y.res = "ok"
        /\ me.call = "recv" => /\ y.line = me.line
                               /\ y.state # "idle" => y.len > 0
                               /\ y.state = "idle" /\ y.res = "ok" /\ ~me.line => y.len < me.n
    <3>1. CASE x.state = "idle"  BY <3>1, <2>2, <2>4, Zenon DEF Serves
    <3>2. CASE x.state # "idle" /\ me.call = "send"
      BY <3>2, <2>2, <2>3, <2>4 DEF Serves
    <3>3. CASE x.state # "idle" /\ me.call = "recv"
      BY <3>3, <2>2, <2>3, <2>4 DEF Serves
    <3>4. CASE me.call \notin {"send", "recv"}  BY <3>4
    <3> QED  BY <3>1, <3>2, <3>3, <3>4
  <2> QED  BY <2>5, <1>u DEF Account, y
<1> QED  BY <1>1, <1>2, <1>3, <1>4, <1>5, <1>6, <1>7, <1>8 DEF IInv

\* What is sent again has the length of what is in flight.
LEMMA ResentFacts ==
  ASSUME NEW cn \in ConnType, NEW r \in AnswerType
  PROVE  LET f == Resent(cn, r) IN
         /\ f \in Stream /\ Len(f) = Len(cn.flight)
         /\ \A i \in 1..Len(cn.flight) :
              f[i] = IF cn.seen THEN cn.flight[i]
                     ELSE IF i <= Len(r.send) THEN r.send[i] ELSE Junk
<1> DEFINE el(i) == IF cn.seen THEN cn.flight[i]
                    ELSE IF i <= Len(r.send) THEN r.send[i] ELSE Junk
           fl == [i \in DOMAIN cn.flight |-> el(i)]
<1>1. cn.flight \in Seq(Nat) /\ r.send \in Seq(Nat)
  BY Fields DEF AnswerType, Stream
<1>2. ASSUME NEW i \in 1..Len(cn.flight) PROVE el(i) \in Nat
  <2>1. cn.flight[i] \in Nat  BY <1>1, ElementOfSeq
  <2>2. i <= Len(r.send) => r.send[i] \in Nat
    <3>1. Len(r.send) \in Nat  BY <1>1
    <3>2. i <= Len(r.send) => i \in 1..Len(r.send)  BY <3>1
    <3> QED  BY <3>2, <1>1, ElementOfSeq
  <2> QED  BY <2>1, <2>2 DEF Junk
<1>3. Resent(cn, r) = fl  BY DEF Resent
<1> HIDE DEF el
<1>4. DOMAIN cn.flight = 1..Len(cn.flight) /\ Len(cn.flight) \in Nat
  BY <1>1
<1>5. fl \in [1..Len(cn.flight) -> Nat]
  BY <1>2, <1>4
<1>6. fl \in Seq(Nat) /\ Len(fl) = Len(cn.flight)
  BY <1>4, <1>5
<1>7. \A i \in 1..Len(cn.flight) : fl[i] = el(i)
  BY <1>4
<1> HIDE DEF fl
<1> QED  BY <1>3, <1>6, <1>7 DEF el, Stream

\* What follows a callback, of an established connection.
LEMMA AppSendFacts ==
  ASSUME NEW cn \in ConnType, NEW r \in AnswerType
  PROVE  LET n == AppSend(cn, r) IN
         /\ n \in ConnType /\ n.peer = cn.peer /\ n.mss = cn.mss
         /\ n.tcp = IF r.does = "close" THEN "fin_wait_1" ELSE cn.tcp
         /\ r.does # "close" =>
              /\ n.stopped <=> IF r.does = "nothing" THEN cn.stopped ELSE r.does = "stop"
              /\ n.flight = IF r.send = <<>> THEN cn.flight
                            ELSE IF cn.flight = <<>> THEN r.send ELSE Resent(cn, r)
         /\ r.does = "close" => n.flight = cn.flight
         /\ n.seen = cn.seen
<1>1. r.send \in Stream /\ "fin_wait_1" \in TcpStates
  BY DEF AnswerType, TcpStates, Alive
<1>2. CASE r.does = "close"
  <2> DEFINE n1 == [cn EXCEPT !.tcp = "fin_wait_1"]
             n2 == [n1 EXCEPT !.stopped = FALSE]
             n3 == [n2 EXCEPT !.nrtx = 0]
  <2>1. /\ n1 \in ConnType /\ n1.peer = cn.peer /\ n1.mss = cn.mss /\ n1.tcp = "fin_wait_1"
        /\ n1.flight = cn.flight /\ n1.seen = cn.seen
    BY <1>1 DEF ConnType
  <2>2. AppSend(cn, r) = n3
    BY <1>2 DEF AppSend
  <2> HIDE DEF n1
  <2>3. /\ n2 \in ConnType /\ n2.peer = n1.peer /\ n2.mss = n1.mss /\ n2.tcp = n1.tcp
        /\ n2.flight = n1.flight /\ n2.seen = n1.seen
    BY <2>1 DEF ConnType
  <2> HIDE DEF n2
  <2>4. /\ n3 \in ConnType /\ n3.peer = n2.peer /\ n3.mss = n2.mss /\ n3.tcp = n2.tcp
        /\ n3.flight = n2.flight /\ n3.seen = n2.seen
    BY <2>3 DEF ConnType
  <2> HIDE DEF n3
  <2> QED  BY <1>2, <2>1, <2>2, <2>3, <2>4
<1>3. CASE r.does # "close"
  <2> DEFINE n1 == [cn EXCEPT !.nrtx = 0]
             st == IF r.does = "nothing" THEN cn.stopped ELSE r.does = "stop"
             n2 == [n1 EXCEPT !.stopped = st]
             fl == IF r.send = <<>> THEN cn.flight
                   ELSE IF cn.flight = <<>> THEN r.send ELSE Resent(cn, r)
             n3 == [n2 EXCEPT !.flight = fl]
  <2>1. /\ n1 \in ConnType /\ n1.peer = cn.peer /\ n1.mss = cn.mss /\ n1.tcp = cn.tcp
        /\ n1.flight = cn.flight /\ n1.seen = cn.seen /\ n1.stopped = cn.stopped
    BY DEF ConnType
  <2>2. st \in BOOLEAN /\ fl \in Stream
    BY <1>1, Fields, ResentFacts
  <2>3. AppSend(cn, r) = n3
    <3>1. AppSend(cn, r) = [cn EXCEPT !.nrtx = 0,
                  !.stopped = IF r.does = "nothing" THEN @ ELSE r.does = "stop",
                  !.flight = IF r.send = <<>> THEN @
                             ELSE IF @ = <<>> THEN r.send ELSE Resent(cn, r)]
      BY <1>3, Zenon DEF AppSend
    <3>2. n1.stopped = cn.stopped /\ n2.flight = cn.flight
      <4>1. n2.flight = n1.flight  OBVIOUS
      <4> QED  BY <2>1, <4>1, Zenon
    <3> QED  BY <3>1, <3>2
  <2> HIDE DEF n1, st
  <2>4. /\ n2 \in ConnType /\ n2.peer = n1.peer /\ n2.mss = n1.mss /\ n2.tcp = n1.tcp
        /\ n2.flight = n1.flight /\ n2.seen = n1.seen /\ (n2.stopped <=> st)
    BY <2>1, <2>2 DEF ConnType
  <2> HIDE DEF n2, fl
  <2>5. /\ n3 \in ConnType /\ n3.peer = n2.peer /\ n3.mss = n2.mss /\ n3.tcp = n2.tcp
        /\ n3.flight = fl /\ n3.seen = n2.seen /\ n3.stopped = n2.stopped
    BY <2>4, <2>2 DEF ConnType
  <2> HIDE DEF n3
  <2> QED  BY <1>3, <2>1, <2>3, <2>4, <2>5 DEF st, fl
<1> QED  BY <1>2, <1>3

\* The steps that tell no peer anything new.
LEMMA QuietStep ==
  ASSUME IInv, NEW c \in Conns, NEW cn \in ConnType, NEW a \in AppType,
         conn' = [conn EXCEPT ![c] = cn], cn.peer = conn[c].peer,
         cn.tcp \in Alive => conn[c].tcp \in Alive,
         cn.tcp \in Handshake => conn[c].tcp \in Handshake,
         app' = [app EXCEPT ![c] = a], Serves(app[c], a),
         cn.tcp = "established" /\ ~cn.stopped => a.state = "recv_2" \/ cn.peer \in rough,
         UNCHANGED <<accept, programVars, peer, had, rough>>
  PROVE  NetStep(c, cn, a)
<1>1. /\ peer \in [Peers -> PeerType] /\ had \in [Peers -> Nat] /\ rough \subseteq Hosts
      /\ \A p \in Peers : p \notin rough => had[p] = peer[p].acked
  BY DEF IInv, TypeOK, NothingLost
<1>2. /\ accept' = accept /\ pc' = pc /\ me' = me /\ owner' = owner /\ calls' = calls
      /\ told' = told /\ handed' = handed /\ ret' = ret
      /\ peer' = peer /\ had' = had /\ rough' = rough
  BY DEF programVars
<1>3. peer' \in [Peers -> PeerType] /\ \A p \in Peers : peer'[p].met = peer[p].met
  BY <1>1, <1>2
<1>4. had' \in [Peers -> Nat] /\ rough \subseteq rough' /\ rough' \subseteq Hosts
  BY <1>1, <1>2
<1>5. \A p \in Peers : p \notin rough' => had'[p] = peer'[p].acked
  BY <1>1, <1>2
<1> QED  BY <1>2, <1>3, <1>4, <1>5, Zenon DEF NetStep

\* The end of a connection.
EndedConn(c, tcp)   == Begun(tcp, conn[c].peer)
EndedApp(c, flags)  == Callback(app[c], flags, conn[c].mss, 0, 0).app

\* What the end of a connection leaves is a connection, and a request the callback has served.
LEMMA EndsFacts ==
  ASSUME NetAssumption, IInv, NEW c \in Conns, NEW flags, NEW tcp \in TcpStates,
         Ends(c, flags, tcp), "newdata" \notin flags
  PROVE  /\ conn' = [conn EXCEPT ![c] = EndedConn(c, tcp)]
         /\ app' = [app EXCEPT ![c] = EndedApp(c, flags)]
         /\ EndedConn(c, tcp) \in ConnType /\ EndedConn(c, tcp).tcp = tcp
         /\ EndedConn(c, tcp).peer = conn[c].peer
         /\ EndedApp(c, flags) \in AppType /\ Serves(app[c], EndedApp(c, flags))
<1>1. conn[c] \in ConnType /\ app[c] \in AppType
  BY DEF IInv, TypeOK
<1>2. conn[c].peer \in Hosts /\ conn[c].mss \in Nat
  BY <1>1, Fields
<1>3. EndedConn(c, tcp) \in ConnType /\ EndedConn(c, tcp).tcp = tcp
      /\ EndedConn(c, tcp).peer = conn[c].peer
  BY <1>2, NewConn DEF EndedConn
<1>4. /\ Callback(app[c], flags, conn[c].mss, 0, 0) \in AnswerType
      /\ Serves(app[c], EndedApp(c, flags))
  <2>1. Lawful(app[c], flags, 0, Callback(app[c], flags, conn[c].mss, 0, 0))
    BY <1>1, <1>2, CallbackFacts
  <2> QED  BY <2>1, Zenon DEF EndedApp, Lawful
<1>5. EndedApp(c, flags) \in AppType
  BY <1>4 DEF AnswerType, EndedApp
<1> QED  BY <1>3, <1>4, <1>5, Zenon DEF Ends, EndedConn, EndedApp, Begun

\* The end of a connection is such a step.
LEMMA EndsStep ==
  ASSUME NetAssumption, IInv, NEW c \in Conns, NEW flags, NEW tcp \in TcpStates,
         Ends(c, flags, tcp), "newdata" \notin flags,
         tcp \in Alive => Active(c), tcp \notin Handshake, tcp # "established",
         UNCHANGED <<accept, programVars, peer, had, rough>>
  PROVE  NetStep(c, EndedConn(c, tcp), EndedApp(c, flags))
BY EndsFacts, QuietStep DEF Active

\* A reset, the end of the last exchange, the peer's close, the loss of patience.
LEMMA ResetStep ==
  ASSUME NetAssumption, IInv, NEW c \in Conns, Reset(c)
  PROVE  NetStep(c, EndedConn(c, "closed"), EndedApp(c, {"aborted"}))
BY EndsStep DEF Reset, TcpStates, Alive, Handshake

\* The last acknowledgement.
LEMMA LastAckStep ==
  ASSUME NetAssumption, IInv, NEW c \in Conns, LastAck(c)
  PROVE  NetStep(c, EndedConn(c, "closed"), EndedApp(c, {"closed"}))
BY EndsStep DEF LastAck, TcpStates, Alive, Handshake

\* A connection is given up.
LEMMA GiveUpStep ==
  ASSUME NetAssumption, IInv, NEW c \in Conns, GiveUp(c)
  PROVE  NetStep(c, EndedConn(c, "closed"), EndedApp(c, {"timedout"}))
BY EndsStep DEF GiveUp, TcpStates, Alive, Handshake

\* The peer closes a connection the board has closed.
LEMMA PeerClosesStep ==
  ASSUME NetAssumption, IInv, NEW c \in Conns, PeerCloses(c)
  PROVE  \E tcp \in {"closing", "time_wait"} :
           NetStep(c, EndedConn(c, tcp), EndedApp(c, {"closed"}))
<1>1. PICK tcp \in {"closing", "time_wait"} : Ends(c, {"closed"}, tcp)
  BY DEF PeerCloses
<1>2. tcp \in TcpStates /\ tcp \notin Handshake /\ tcp # "established" /\ Active(c)
  BY <1>1 DEF PeerCloses, In, Active, TcpStates, Alive, Handshake
<1>3. UNCHANGED <<accept, programVars, peer, had, rough>>
  BY DEF PeerCloses
<1>4. NetStep(c, EndedConn(c, tcp), EndedApp(c, {"closed"}))
  BY <1>1, <1>2, <1>3, EndsStep
<1> QED  BY <1>4

\* The rest of a close, without the callback.
LEMMA ForgetStep ==
  ASSUME NetAssumption, IInv, NEW c \in Conns, Forget(c)
  PROVE  \E tcp \in {"fin_wait_2", "time_wait", "closed"} :
           NetStep(c, EndedConn(c, tcp), app[c])
<1> DEFINE tcp == CASE In(c, {"fin_wait_1"}) -> "fin_wait_2"
                    [] In(c, {"closing"}) -> "time_wait"
                    [] OTHER -> "closed"
<1>1. tcp \in {"fin_wait_2", "time_wait", "closed"}
  BY DEF In
<1>2. conn' = [conn EXCEPT ![c] = EndedConn(c, tcp)]
  BY Zenon DEF Forget, EndedConn, Begun
<1>3. tcp \in TcpStates /\ tcp \notin Handshake /\ tcp # "established" /\ Active(c)
  BY <1>1 DEF Forget, In, Active, TcpStates, Alive, Handshake
<1> HIDE DEF tcp
<1>4. conn[c] \in ConnType /\ app[c] \in AppType /\ app \in [Conns -> AppType]
  BY DEF IInv, TypeOK
<1>5. EndedConn(c, tcp) \in ConnType /\ EndedConn(c, tcp).tcp = tcp
      /\ EndedConn(c, tcp).peer = conn[c].peer
  BY <1>3, <1>4, Fields, NewConn DEF EndedConn
<1>6. app' = [app EXCEPT ![c] = app[c]] /\ Serves(app[c], app[c])
  BY <1>4, Fields DEF Forget, Serves
<1>7. UNCHANGED <<accept, programVars, peer, had, rough>>
  BY DEF Forget
<1>8. NetStep(c, EndedConn(c, tcp), app[c])
  BY <1>2, <1>3, <1>4, <1>5, <1>6, <1>7, QuietStep DEF Active
<1> QED  BY <1>1, <1>8

\* A callback of an established connection takes no data on the board's behalf that no
\* recv waits for.
LEMMA ReceptionKept ==
  ASSUME NetAssumption, IInv, NEW c \in Conns, conn[c].tcp = "established",
         NEW cn \in ConnType, cn.stopped = conn[c].stopped,
         NEW flags, NEW mss \in Nat, NEW b \in Nat, NEW k \in Nat,
         "newdata" \in flags => k > 0, flags \cap EndFlags = {},
         NEW r, r = Callback(app[c], flags, mss, b, k),
         AppSend(cn, r).tcp = "established", ~AppSend(cn, r).stopped
  PROVE  r.app.state = "recv_2" \/ conn[c].peer \in rough
<1>1. app[c] \in AppType /\ conn[c] \in ConnType
  BY DEF IInv, TypeOK
<1>2. /\ r \in AnswerType
      /\ app[c].state = "recv_2" => r.does = "stop" \/ (r.does = "nothing" /\ r.app.state = "recv_2")
      /\ r.does = "restart" => r.app.state = "recv_2"
  <2> DEFINE s == Callback(app[c], flags, mss, b, k)
  <2>1. Lawful(app[c], flags, k, s)
    BY <1>1, CallbackFacts, Zenon
  <2>2. r = s  OBVIOUS
  <2> HIDE DEF s
  <2> QED  BY <2>1, <2>2 DEF Lawful
<1>3. r.does # "close"
  BY <1>2, AppSendFacts
<1>4. r.does \in {"nothing", "restart", "stop"}
  BY <1>2, <1>3 DEF AnswerType
<1>5. AppSend(cn, r).stopped <=> IF r.does = "nothing" THEN cn.stopped ELSE r.does = "stop"
  BY <1>2, <1>3, AppSendFacts
<1>6. ~conn[c].stopped => app[c].state = "recv_2" \/ conn[c].peer \in rough
  BY DEF IInv, Reception
<1> QED  BY <1>2, <1>4, <1>5, <1>6

\* A poll.
LEMMA PollStep ==
  ASSUME NetAssumption, IInv, NEW c \in Conns, Poll(c)
  PROVE  LET r == Callback(app[c], {"poll"}, conn[c].mss, 0, 0)
         IN  NetStep(c, AppSend(conn[c], r), r.app)
<1> DEFINE r  == Callback(app[c], {"poll"}, conn[c].mss, 0, 0)
           cn == AppSend(conn[c], r)
<1>1. app[c] \in AppType /\ conn[c] \in ConnType /\ conn[c].mss \in Nat
  BY Fields DEF IInv, TypeOK
<1>2. conn[c].tcp = "established"
  BY DEF Poll, In
<1>3. r \in AnswerType /\ Serves(app[c], r.app)
  <2>1. Lawful(app[c], {"poll"}, 0, r)  BY <1>1, CallbackFacts
  <2> QED  BY <2>1, Zenon DEF Lawful
<1>4. conn' = [conn EXCEPT ![c] = cn] /\ app' = [app EXCEPT ![c] = r.app]
      /\ UNCHANGED <<accept, programVars, peer, had, rough>>
  BY DEF Poll
<1>5. "newdata" \notin {"poll"} /\ {"poll"} \cap EndFlags = {}
  BY DEF EndFlags
<1>6. cn.tcp = "established" /\ ~cn.stopped => r.app.state = "recv_2" \/ conn[c].peer \in rough
  BY <1>1, <1>2, <1>5, ReceptionKept
<1> HIDE DEF r
<1>7. cn \in ConnType /\ cn.peer = conn[c].peer /\ cn.tcp \in {"established", "fin_wait_1"}
  BY <1>1, <1>2, <1>3, AppSendFacts
<1> HIDE DEF cn
<1>8. r.app \in AppType
  BY <1>3 DEF AnswerType
<1>9. conn[c].tcp \in Alive /\ cn.tcp \notin Handshake
  BY <1>2, <1>7 DEF Alive, Handshake
<1>10. NetStep(c, cn, r.app)
  BY <1>3, <1>4, <1>6, <1>7, <1>8, <1>9, QuietStep
<1> QED  BY <1>10 DEF r, cn

\* What is sent again.
LEMMA AgainFacts ==
  ASSUME NEW cn \in ConnType, NEW r \in AnswerType
  PROVE  LET n == Again(cn, r) IN
         /\ n \in ConnType /\ n.peer = cn.peer /\ n.mss = cn.mss /\ n.tcp = cn.tcp
         /\ n.stopped = cn.stopped /\ n.seen = cn.seen
         /\ n.flight = Resent(cn, r)
<1> DEFINE n1 == [cn EXCEPT !.nrtx = @ + 1]
           n2 == [n1 EXCEPT !.flight = Resent(cn, r)]
<1>1. cn.nrtx + 1 \in Nat  BY Fields
<1>2. /\ n1 \in ConnType /\ n1.peer = cn.peer /\ n1.mss = cn.mss /\ n1.tcp = cn.tcp
      /\ n1.stopped = cn.stopped /\ n1.seen = cn.seen
  BY <1>1 DEF ConnType
<1>3. Again(cn, r) = n2
  BY DEF Again
<1> HIDE DEF n1
<1>4. Resent(cn, r) \in Stream  BY ResentFacts
<1>5. /\ n2 \in ConnType /\ n2.peer = n1.peer /\ n2.mss = n1.mss /\ n2.tcp = n1.tcp
      /\ n2.stopped = n1.stopped /\ n2.seen = n1.seen /\ n2.flight = Resent(cn, r)
  BY <1>2, <1>4 DEF ConnType
<1> HIDE DEF n2
<1> QED  BY <1>2, <1>3, <1>5

\* A retransmission.
LEMMA RetransmitStep ==
  ASSUME NetAssumption, IInv, NEW c \in Conns, Retransmit(c)
  PROVE  LET r == Callback(app[c], {"rexmit"}, conn[c].mss, 0, 0) IN
         \/ /\ In(c, {"established"})
            /\ NetStep(c, Again(conn[c], r), r.app)
         \/ /\ ~In(c, {"established"})
            /\ NetStep(c, [conn[c] EXCEPT !.nrtx = @ + 1], app[c])
<1> DEFINE r  == Callback(app[c], {"rexmit"}, conn[c].mss, 0, 0)
           cn == Again(conn[c], r)
           n  == [conn[c] EXCEPT !.nrtx = @ + 1]
<1>1. app[c] \in AppType /\ conn[c] \in ConnType /\ conn[c].mss \in Nat /\ conn[c].nrtx \in Nat
  BY Fields DEF IInv, TypeOK
<1>2. "newdata" \notin {"rexmit"} /\ {"rexmit"} \cap EndFlags = {}
  BY DEF EndFlags
<1>3. /\ r \in AnswerType /\ Serves(app[c], r.app)
      /\ app[c].state = "recv_2" => r.app = app[c]
  <2>1. Lawful(app[c], {"rexmit"}, 0, r)  BY <1>1, CallbackFacts
  <2> QED  BY <2>1, <1>2, Zenon DEF Lawful
<1>4. UNCHANGED <<accept, programVars, peer, had, rough>>
  BY DEF Retransmit
<1>5. conn[c].tcp = "established" /\ ~conn[c].stopped =>
        app[c].state = "recv_2" \/ conn[c].peer \in rough
  BY DEF IInv, Reception
<1>6. CASE In(c, {"established"})
  <2>1. conn' = [conn EXCEPT ![c] = cn] /\ app' = [app EXCEPT ![c] = r.app]
    BY <1>6, Zenon DEF Retransmit
  <2> HIDE DEF r
  <2>2. /\ cn \in ConnType /\ cn.peer = conn[c].peer /\ cn.tcp = conn[c].tcp
        /\ cn.stopped = conn[c].stopped
    BY <1>1, <1>3, AgainFacts
  <2> HIDE DEF cn
  <2>3. r.app \in AppType
    BY <1>3 DEF AnswerType
  <2>4. NetStep(c, cn, r.app)
    BY <1>3, <1>4, <1>5, <2>1, <2>2, <2>3, QuietStep
  <2> QED  BY <1>6, <2>4 DEF cn, r
<1>7. CASE ~In(c, {"established"})
  <2>1. conn' = [conn EXCEPT ![c] = n] /\ app' = app
    BY <1>7, Zenon DEF Retransmit
  <2>2. /\ n \in ConnType /\ n.peer = conn[c].peer /\ n.tcp = conn[c].tcp
        /\ n.stopped = conn[c].stopped
    <3>1. conn[c].nrtx + 1 \in Nat  BY <1>1
    <3> QED  BY <3>1, <1>1 DEF ConnType
  <2> HIDE DEF n
  <2>3. app' = [app EXCEPT ![c] = app[c]] /\ Serves(app[c], app[c])
    <3>1. app \in [Conns -> AppType]  BY DEF IInv, TypeOK
    <3> QED  BY <3>1, <2>1, <1>1, Fields DEF Serves
  <2>4. NetStep(c, n, app[c])
    BY <1>1, <1>4, <1>5, <2>1, <2>2, <2>3, QuietStep
  <2> QED  BY <1>7, <2>4 DEF n
<1> QED  BY <1>6, <1>7

\* Data that arrives at a peer.
LEMMA PeerGetsStep ==
  ASSUME NetAssumption, IInv, NEW c \in Conns, PeerGets(c)
  PROVE  NetStep(c, [conn[c] EXCEPT !.seen = TRUE], app[c])
<1> DEFINE n == [conn[c] EXCEPT !.seen = TRUE]
           q == conn[c].peer
<1>1. app[c] \in AppType /\ conn[c] \in ConnType /\ app \in [Conns -> AppType]
      /\ conn[c].flight \in Stream
  BY Fields DEF IInv, TypeOK
<1>2. n \in ConnType /\ n.peer = conn[c].peer /\ n.tcp = conn[c].tcp
      /\ n.stopped = conn[c].stopped
  BY <1>1 DEF ConnType
<1>3. conn' = [conn EXCEPT ![c] = n] /\ UNCHANGED <<app, accept, programVars, had, rough>>
  BY DEF PeerGets
<1> HIDE DEF n
<1>4. q \in Peers
  BY DEF PeerGets, In, IInv, OneSlot, Alive
<1>5. peer[q] \in PeerType /\ peer \in [Peers -> PeerType]
  BY <1>4 DEF IInv, TypeOK
<1>6. peer[q].got \o conn[c].flight \in Stream
  BY <1>1, <1>5, ConcatProperties DEF PeerType, Stream
<1>7. /\ peer' \in [Peers -> PeerType]
      /\ \A p \in Peers : peer'[p].met = peer[p].met /\ peer'[p].acked = peer[p].acked
  <2> DEFINE g == peer[q].got \o conn[c].flight
  <2>1. peer' = [peer EXCEPT ![q] = [peer[q] EXCEPT !.got = g]]
    BY <1>4, <1>5 DEF PeerGets
  <2>2. g \in Stream  BY <1>6
  <2> HIDE DEF g, q
  <2>3. /\ [peer[q] EXCEPT !.got = g] \in PeerType
        /\ [peer[q] EXCEPT !.got = g].met = peer[q].met
        /\ [peer[q] EXCEPT !.got = g].acked = peer[q].acked
    BY <2>2, <1>5 DEF PeerType
  <2> QED  BY <2>1, <2>3, <1>4, <1>5
<1>8. app' = [app EXCEPT ![c] = app[c]] /\ Serves(app[c], app[c])
  BY <1>1, <1>3, Fields DEF Serves
<1>9. conn[c].tcp = "established" /\ ~conn[c].stopped =>
        app[c].state = "recv_2" \/ conn[c].peer \in rough
  BY DEF IInv, Reception
<1>10. /\ had \in [Peers -> Nat] /\ rough \subseteq Hosts
       /\ \A p \in Peers : p \notin rough => had[p] = peer[p].acked
  BY DEF IInv, TypeOK, NothingLost
<1>11. /\ accept' = accept /\ pc' = pc /\ me' = me /\ owner' = owner /\ calls' = calls
       /\ told' = told /\ handed' = handed /\ ret' = ret /\ had' = had /\ rough' = rough
  BY <1>3 DEF programVars
<1>12. \A p \in Peers : p \notin rough' => had'[p] = peer'[p].acked
  BY <1>7, <1>10, <1>11
<1>13. had' \in [Peers -> Nat] /\ rough \subseteq rough' /\ rough' \subseteq Hosts
  BY <1>10, <1>11
<1>14. NetStep(c, n, app[c])
  BY <1>1, <1>2, <1>3, <1>7, <1>8, <1>9, <1>11, <1>12, <1>13 DEF NetStep
<1> QED  BY <1>14 DEF n

\* A segment: what it does to the window, and what uIP tells the callback.
SegMss(window)       == IF window = 0 THEN Mss ELSE Upto(Mss, window)
SegConn(n, ack, mss) == [n EXCEPT !.mss = mss, !.flight = IF ack THEN <<>> ELSE @,
                                  !.seen = ~ack /\ @]
SegTakes(c, k)       == k > 0 /\ ~conn[c].stopped
SegFlags(c, k, ack)  == (IF ack THEN {"acked"} ELSE {}) \cup
                        (IF SegTakes(c, k) THEN {"newdata"} ELSE {})
SegReply(c, k, ack, window) ==
  Callback(app[c], SegFlags(c, k, ack), SegMss(window), peer[conn[c].peer].acked + 1, k)

\* The connection, once the segment has been counted.
LEMMA SegConnFacts ==
  ASSUME NEW n \in ConnType, NEW ack \in BOOLEAN, NEW mss \in Nat
  PROVE  LET m == SegConn(n, ack, mss) IN
         /\ m \in ConnType /\ m.peer = n.peer /\ m.tcp = n.tcp /\ m.stopped = n.stopped
         /\ m.mss = mss /\ m.flight = (IF ack THEN <<>> ELSE n.flight)
         /\ m.seen <=> ~ack /\ n.seen
<1> DEFINE fl == IF ack THEN <<>> ELSE n.flight
           sn == ~ack /\ n.seen
           m1 == [n EXCEPT !.mss = mss]
           m2 == [m1 EXCEPT !.flight = fl]
           m3 == [m2 EXCEPT !.seen = sn]
<1>1. n.flight \in Stream /\ n.seen \in BOOLEAN /\ fl \in Stream /\ sn \in BOOLEAN
  BY Fields, NoBytes
<1>2. /\ m1 \in ConnType /\ m1.peer = n.peer /\ m1.tcp = n.tcp /\ m1.stopped = n.stopped
      /\ m1.mss = mss /\ m1.flight = n.flight /\ m1.seen = n.seen
  BY DEF ConnType
<1>3. SegConn(n, ack, mss) = m3
  <2>1. m1.flight = n.flight /\ m2.seen = n.seen
    <3>1. m2.seen = m1.seen  OBVIOUS
    <3> QED  BY <1>2, <3>1, Zenon
  <2> QED  BY <2>1 DEF SegConn
<1> HIDE DEF m1, fl
<1>4. /\ m2 \in ConnType /\ m2.peer = m1.peer /\ m2.tcp = m1.tcp /\ m2.stopped = m1.stopped
      /\ m2.mss = m1.mss /\ m2.flight = fl /\ m2.seen = m1.seen
  BY <1>1, <1>2 DEF ConnType
<1> HIDE DEF m2, sn
<1>5. /\ m3 \in ConnType /\ m3.peer = m2.peer /\ m3.tcp = m2.tcp /\ m3.stopped = m2.stopped
      /\ m3.mss = m2.mss /\ m3.flight = m2.flight /\ (m3.seen <=> sn)
  BY <1>1, <1>4 DEF ConnType
<1> HIDE DEF m3
<1> QED  BY <1>2, <1>3, <1>4, <1>5 DEF fl, sn

\* What is left of a segment, by name.
SegAfter(c, k, ack, window) ==
  LET n == SegConn(conn[c], ack, SegMss(window))
  IN  IF SegFlags(c, k, ack) = {} THEN n ELSE AppSend(n, SegReply(c, k, ack, window))
SegApp(c, k, ack, window) ==
  IF SegFlags(c, k, ack) = {} THEN app[c] ELSE SegReply(c, k, ack, window).app

\* The callback for a segment is lawful.
LEMMA SegmentFacts ==
  ASSUME NetAssumption, IInv, NEW c \in Conns, conn[c].tcp = "established",
         NEW k \in 0..Mss, NEW ack \in BOOLEAN, NEW window \in Windows
  PROVE  LET r == SegReply(c, k, ack, window)
             n == SegConn(conn[c], ack, SegMss(window))
             f == SegFlags(c, k, ack)
         IN
         /\ SegMss(window) \in Nat /\ app[c] \in AppType /\ conn[c] \in ConnType
         /\ conn[c].peer \in Peers
         /\ n \in ConnType /\ Lawful(app[c], f, k, r) /\ f \cap EndFlags = {}
         /\ "newdata" \in f <=> SegTakes(c, k)
         /\ AppSend(n, r).tcp = "established" /\ ~AppSend(n, r).stopped =>
              r.app.state = "recv_2" \/ conn[c].peer \in rough
<1> DEFINE r == SegReply(c, k, ack, window)
           n == SegConn(conn[c], ack, SegMss(window))
           f == SegFlags(c, k, ack)
           b == peer[conn[c].peer].acked + 1
<1>1. app[c] \in AppType /\ conn[c] \in ConnType
  BY DEF IInv, TypeOK
<1>2. conn[c].peer \in Peers
  BY DEF IInv, OneSlot, Alive
<1>3. b \in Nat
  <2>1. peer[conn[c].peer].acked \in Nat  BY <1>2 DEF IInv, TypeOK, PeerType
  <2> QED  BY <2>1
<1>4. SegMss(window) \in Nat /\ k \in Nat
  BY DEF SegMss, Upto, NetAssumption
<1>5. n \in ConnType /\ n.stopped = conn[c].stopped
  BY <1>1, <1>4, SegConnFacts
<1>6. f \cap EndFlags = {} /\ ("newdata" \in f <=> SegTakes(c, k)) /\ ("newdata" \in f => k > 0)
  BY DEF SegFlags, EndFlags, SegTakes
<1>7. r = Callback(app[c], f, SegMss(window), b, k)
  BY DEF SegReply
<1> HIDE DEF r, f, b, n
<1>8. Lawful(app[c], f, k, r)
  BY <1>1, <1>3, <1>4, <1>6, <1>7, CallbackFacts
<1>9. AppSend(n, r).tcp = "established" /\ ~AppSend(n, r).stopped =>
        r.app.state = "recv_2" \/ conn[c].peer \in rough
  BY <1>3, <1>4, <1>5, <1>6, <1>7, ReceptionKept
<1> QED  BY <1>1, <1>2, <1>4, <1>5, <1>6, <1>8, <1>9 DEF r, f, n

\* A segment is such a step.
LEMMA SegmentStep ==
  ASSUME NetAssumption, IInv, NEW c \in Conns, NEW k \in 0..Mss, NEW ack \in BOOLEAN,
         NEW window \in Windows, Segment(c, k, ack, window)
  PROVE  NetStep(c, SegAfter(c, k, ack, window), SegApp(c, k, ack, window))
<1> DEFINE r  == SegReply(c, k, ack, window)
           n  == SegConn(conn[c], ack, SegMss(window))
           f  == SegFlags(c, k, ack)
           p  == conn[c].peer
           cn == SegAfter(c, k, ack, window)
           a  == SegApp(c, k, ack, window)
<1>1. conn[c].tcp = "established"
  BY DEF Segment, In
<1>2. /\ SegMss(window) \in Nat /\ app[c] \in AppType /\ conn[c] \in ConnType /\ p \in Peers
      /\ n \in ConnType /\ Lawful(app[c], f, k, r) /\ ("newdata" \in f <=> SegTakes(c, k))
      /\ AppSend(n, r).tcp = "established" /\ ~AppSend(n, r).stopped =>
           r.app.state = "recv_2" \/ p \in rough
  BY <1>1, SegmentFacts
<1>3. /\ conn' = [conn EXCEPT ![c] = cn] /\ app' = [app EXCEPT ![c] = a]
      /\ peer' = [peer EXCEPT ![p].acked = IF SegTakes(c, k) THEN @ + k ELSE @]
      /\ had' = [had EXCEPT ![p] = @ + r.used]
      /\ rough' = IF SegTakes(c, k) /\ app[c].state = "recv_2" /\ r.used < k
                  THEN rough \cup {p} ELSE rough
  BY Zenon DEF Segment, SegAfter, SegApp, SegReply, SegFlags, SegTakes, SegConn, SegMss
<1>4. /\ accept' = accept /\ pc' = pc /\ me' = me /\ owner' = owner /\ calls' = calls
      /\ told' = told /\ handed' = handed /\ ret' = ret
  BY DEF Segment, programVars
<1>5. n.peer = p /\ n.tcp = "established" /\ n.stopped = conn[c].stopped
  BY <1>1, <1>2, SegConnFacts, SMTT(30)
<1>6. ~conn[c].stopped => app[c].state = "recv_2" \/ p \in rough
  BY <1>1 DEF IInv, Reception
<1>7. cn = IF f = {} THEN n ELSE AppSend(n, r)
  BY DEF SegAfter
<1>8. a = IF f = {} THEN app[c] ELSE r.app
  BY DEF SegApp
<1>9. r \in AnswerType /\ Serves(app[c], r.app) /\ r.used <= k /\ r.used \in Nat
      /\ (~SegTakes(c, k) => r.used = 0) /\ r.app \in AppType
  <2>1. Lawful(app[c], f, k, r) /\ ("newdata" \in f <=> SegTakes(c, k))  BY <1>2
  <2> HIDE DEF r, f
  <2> QED  BY <2>1 DEF Lawful, AnswerType
<1> HIDE DEF r, n, f, cn, a
<1>10. /\ cn \in ConnType /\ cn.peer = p /\ cn.tcp \in {"established", "fin_wait_1"}
       /\ cn.tcp = "established" /\ ~cn.stopped => a.state = "recv_2" \/ p \in rough
  <2>1. CASE f = {}  BY <2>1, <1>2, <1>5, <1>6, <1>7, <1>8
  <2>2. CASE f # {}
    <3>1. AppSend(n, r) \in ConnType /\ AppSend(n, r).peer = n.peer
          /\ AppSend(n, r).tcp \in {n.tcp, "fin_wait_1"}
      BY <1>2, <1>9, AppSendFacts
    <3> QED  BY <2>2, <3>1, <1>2, <1>5, <1>7, <1>8
  <2> QED  BY <2>1, <2>2
<1>11. a \in AppType /\ Serves(app[c], a)
  <2>1. Serves(app[c], app[c])  BY <1>2, Fields DEF Serves
  <2> QED  BY <2>1, <1>2, <1>8, <1>9
<1>12. peer \in [Peers -> PeerType] /\ peer[p] \in PeerType /\ peer[p].acked \in Nat
       /\ had \in [Peers -> Nat] /\ rough \subseteq Hosts /\ k \in Nat /\ p \in Hosts
       /\ \A q \in Peers : q \notin rough => had[q] = peer[q].acked
  BY <1>2 DEF IInv, TypeOK, PeerType, NothingLost, Hosts, NetAssumption
<1> HIDE DEF p
<1>13. /\ peer' \in [Peers -> PeerType]
       /\ \A q \in Peers : peer'[q].met = peer[q].met
       /\ \A q \in Peers : peer'[q].acked = IF q = p /\ SegTakes(c, k) THEN peer[q].acked + k
                                            ELSE peer[q].acked
  <2> DEFINE m == IF SegTakes(c, k) THEN peer[p].acked + k ELSE peer[p].acked
             x == [peer[p] EXCEPT !.acked = m]
  <2>1. m \in Nat  BY <1>12
  <2>2. peer' = [peer EXCEPT ![p] = x]  BY <1>2, <1>3, <1>12
  <2> HIDE DEF m
  <2>3. x \in PeerType /\ x.met = peer[p].met /\ x.acked = m
    BY <2>1, <1>12 DEF PeerType
  <2> HIDE DEF x
  <2>4. peer' \in [Peers -> PeerType]  BY <2>2, <2>3, <1>2, <1>12
  <2>5. \A q \in Peers : peer'[q] = IF q = p THEN x ELSE peer[q]
    BY <2>2, <1>2, <1>12
  <2> QED  BY <2>3, <2>4, <2>5, <1>12 DEF m
<1>14. /\ had' \in [Peers -> Nat]
       /\ \A q \in Peers : had'[q] = IF q = p THEN had[q] + r.used ELSE had[q]
  BY <1>2, <1>3, <1>9, <1>12
<1>15. rough \subseteq rough' /\ rough' \subseteq Hosts
       /\ (SegTakes(c, k) /\ p \notin rough' => r.used = k)
  BY <1>3, <1>6, <1>9, <1>12 DEF SegTakes
<1>16. \A q \in Peers : q \notin rough' => had'[q] = peer'[q].acked
  <2> SUFFICES ASSUME NEW q \in Peers, q \notin rough' PROVE had'[q] = peer'[q].acked
    OBVIOUS
  <2>1. had[q] = peer[q].acked  BY <1>12, <1>15
  <2>2. CASE q # p  BY <2>1, <2>2, <1>13, <1>14
  <2>3. CASE q = p /\ SegTakes(c, k)
    <3>1. r.used = k  BY <2>3, <1>15
    <3> QED  BY <2>1, <2>3, <3>1, <1>13, <1>14
  <2>4. CASE q = p /\ ~SegTakes(c, k)
    <3>1. r.used = 0 /\ had[q] \in Nat  BY <2>4, <1>9, <1>12
    <3> QED  BY <2>1, <2>4, <3>1, <1>13, <1>14
  <2> QED  BY <2>2, <2>3, <2>4
<1>17. conn[c].tcp \in Alive /\ cn.tcp \notin Handshake
  BY <1>1, <1>10 DEF Alive, Handshake
<1>18. cn.peer = conn[c].peer /\ (cn.tcp = "established" /\ ~cn.stopped
         => a.state = "recv_2" \/ cn.peer \in rough')
  BY <1>10, <1>15 DEF p
<1>19. peer' \in [Peers -> PeerType] /\ \A q \in Peers : peer'[q].met = peer[q].met
  BY <1>13
<1>20. had' \in [Peers -> Nat] /\ rough \subseteq rough' /\ rough' \subseteq Hosts
  BY <1>14, <1>15
<1>21. conn' = [conn EXCEPT ![c] = cn] /\ cn \in ConnType /\ app' = [app EXCEPT ![c] = a]
  BY <1>3, <1>10
<1>22. NetStep(c, cn, a)
  BY <1>4, <1>11, <1>16, <1>17, <1>18, <1>19, <1>20, <1>21, Zenon DEF NetStep
<1> QED  BY <1>22 DEF cn, a

\* The peer's close.
LEMMA FinStep ==
  ASSUME NetAssumption, IInv, NEW c \in Conns, NEW k \in 0..Mss, NEW ack \in BOOLEAN,
         Fin(c, k, ack)
  PROVE  NetStep(c, EndedConn(c, "last_ack"), EndedApp(c, {"closed"}))
<1> DEFINE p  == conn[c].peer
           cn == EndedConn(c, "last_ack")
           a  == EndedApp(c, {"closed"})
<1>1. conn[c].tcp = "established" /\ Ends(c, {"closed"}, "last_ack")
  BY DEF Fin, In
<1>2. "last_ack" \in TcpStates /\ "newdata" \notin {"closed"}
  BY DEF TcpStates, Alive
<1>3. /\ conn' = [conn EXCEPT ![c] = cn] /\ app' = [app EXCEPT ![c] = a]
      /\ cn \in ConnType /\ cn.tcp = "last_ack" /\ cn.peer = p
      /\ a \in AppType /\ Serves(app[c], a)
  BY <1>1, <1>2, EndsFacts
<1>4. /\ accept' = accept /\ pc' = pc /\ me' = me /\ owner' = owner /\ calls' = calls
      /\ told' = told /\ handed' = handed /\ ret' = ret /\ had' = had
      /\ peer' = [peer EXCEPT ![p].acked = @ + k]
      /\ rough' = IF k > 0 THEN rough \cup {p} ELSE rough
  BY Zenon DEF Fin, programVars
<1> HIDE DEF cn, a
<1>5. p \in Peers
  BY <1>1 DEF IInv, OneSlot, Alive
<1>6. /\ peer \in [Peers -> PeerType] /\ peer[p] \in PeerType /\ peer[p].acked \in Nat
      /\ had \in [Peers -> Nat] /\ rough \subseteq Hosts /\ k \in Nat /\ p \in Hosts
      /\ \A q \in Peers : q \notin rough => had[q] = peer[q].acked
  BY <1>5 DEF IInv, TypeOK, PeerType, NothingLost, Hosts, NetAssumption
<1> HIDE DEF p
<1>7. /\ peer' \in [Peers -> PeerType]
      /\ \A q \in Peers : peer'[q].met = peer[q].met
      /\ \A q \in Peers : peer'[q].acked = IF q = p THEN peer[q].acked + k ELSE peer[q].acked
  <2> DEFINE m == peer[p].acked + k
             x == [peer[p] EXCEPT !.acked = m]
  <2>1. m \in Nat  BY <1>6
  <2>2. peer' = [peer EXCEPT ![p] = x]  BY <1>4, <1>5, <1>6
  <2> HIDE DEF m
  <2>3. x \in PeerType /\ x.met = peer[p].met /\ x.acked = m
    BY <2>1, <1>6 DEF PeerType
  <2> HIDE DEF x
  <2>4. peer' \in [Peers -> PeerType]  BY <2>2, <2>3, <1>5, <1>6
  <2>5. \A q \in Peers : peer'[q] = IF q = p THEN x ELSE peer[q]
    BY <2>2, <1>5, <1>6
  <2> QED  BY <2>3, <2>4, <2>5, <1>6 DEF m
<1>8. rough \subseteq rough' /\ rough' \subseteq Hosts /\ (p \notin rough' => k = 0)
  BY <1>4, <1>6
<1>9. \A q \in Peers : q \notin rough' => had'[q] = peer'[q].acked
  <2> SUFFICES ASSUME NEW q \in Peers, q \notin rough' PROVE had'[q] = peer'[q].acked
    OBVIOUS
  <2>1. had[q] = peer[q].acked /\ had'[q] = had[q]  BY <1>4, <1>6, <1>8
  <2>2. CASE q # p  BY <2>1, <2>2, <1>7
  <2>3. CASE q = p
    <3>1. k = 0  BY <2>3, <1>8
    <3> QED  BY <2>1, <2>3, <3>1, <1>6, <1>7
  <2> QED  BY <2>2, <2>3
<1>10. conn[c].tcp \in Alive /\ cn.tcp \notin Handshake /\ cn.tcp # "established"
  BY <1>1, <1>3 DEF Alive, Handshake
<1>11. peer' \in [Peers -> PeerType] /\ \A q \in Peers : peer'[q].met = peer[q].met
  BY <1>7
<1>12. had' \in [Peers -> Nat] /\ rough \subseteq rough' /\ rough' \subseteq Hosts
  BY <1>4, <1>6, <1>8
<1>13. NetStep(c, cn, a)
  BY <1>3, <1>4, <1>9, <1>10, <1>11, <1>12, Zenon DEF NetStep, p
<1> QED  BY <1>13 DEF cn, a

-----------------------------------------------------------------------------
(* A connection that begins, and one that is established.                  *)

\* A SYN takes a connection that nobody uses.
LEMMA SlotFacts ==
  ASSUME NEW c \in SynSlots
  PROVE  c \in Conns /\ conn[c].tcp \in {"closed", "time_wait"}
<1> DEFINE free == {d \in Conns : In(d, {"closed"})}
<1>1. CASE free = {}
  BY <1>1 DEF SynSlots, In
<1>2. CASE free # {}
  <2>1. free \subseteq Nat  BY DEF Conns
  <2>2. Min(free) \in free  BY <1>2, <2>1, MinOf, Zenon
  <2>3. c = Min(free)  BY <1>2 DEF SynSlots
  <2> HIDE DEF free
  <2>4. c \in free  BY <2>2, <2>3, Zenon
  <2> QED  BY <2>4 DEF free, In
<1> QED  BY <1>1, <1>2

\* A peer nobody has met is nowhere.
LEMMA Unmet ==
  ASSUME IInv, NEW p \in Peers, ~peer[p].met
  PROVE  /\ handed[p] = 0 /\ accept.remote # p
         /\ \A c \in Conns : conn[c].peer # p /\ owner[c] # p
BY DEF IInv, OneSlot

\* A new peer gets connection c, in state t.
LEMMA NewPeer ==
  ASSUME NetAssumption, IInv, NEW c \in Conns, NEW p \in Peers, ~peer[p].met,
         NEW t \in {"syn_rcvd", "syn_sent"},
         conn' = [conn EXCEPT ![c] = Begun(t, p)],
         peer' = [peer EXCEPT ![p].met = TRUE],
         UNCHANGED <<accept, owner, told, had, rough, handed, ret>>,
         ~Handing' \/ (Handing /\ Handing')
  PROVE  /\ conn' \in [Conns -> ConnType] /\ peer' \in [Peers -> PeerType]
         /\ conn'[c] = Begun(t, p) /\ \A d \in Conns : d # c => conn'[d] = conn[d]
         /\ OneSlot' /\ AcceptedOnce' /\ NothingLost'
         /\ \A d \in Conns : conn'[d].tcp \in Handshake =>
              handed'[conn'[d].peer] = 0 /\ ~(Handing' /\ accept'.remote = conn'[d].peer)
         /\ Handing' => handed'[accept'.remote] = 0
<1>t. TypeOK /\ OneSlot /\ Once /\ AcceptedOnce /\ NothingLost  BY DEF IInv
<1>1. t \in TcpStates /\ p \in Hosts /\ t \in Alive /\ t \in Handshake
  BY DEF TcpStates, Alive, Hosts, Handshake
<1>2. Begun(t, p) \in ConnType /\ Begun(t, p).tcp = t /\ Begun(t, p).peer = p
  BY <1>1, NewConn
<1>3. /\ conn' \in [Conns -> ConnType]
      /\ conn'[c] = Begun(t, p) /\ \A d \in Conns : d # c => conn'[d] = conn[d]
  BY <1>2, <1>t DEF TypeOK
<1>4. /\ peer' \in [Peers -> PeerType] /\ peer'[p].met
      /\ \A q \in Peers : peer'[q].acked = peer[q].acked
      /\ \A q \in Peers : q # p => peer'[q] = peer[q]
  <2> DEFINE x == [peer[p] EXCEPT !.met = TRUE]
  <2>1. peer \in [Peers -> PeerType] /\ peer[p] \in PeerType  BY <1>t DEF TypeOK
  <2>2. peer' = [peer EXCEPT ![p] = x]  BY <2>1
  <2>3. x \in PeerType /\ x.met /\ x.acked = peer[p].acked  BY <2>1 DEF PeerType
  <2> HIDE DEF x
  <2> QED  BY <2>1, <2>2, <2>3
<1>5. /\ handed[p] = 0 /\ accept.remote # p
      /\ \A d \in Conns : conn[d].peer # p /\ owner[d] # p
  BY Unmet
<1>6. \A d \in Conns : conn'[d].peer = IF d = c THEN p ELSE conn[d].peer
  BY <1>2, <1>3
<1>7. \A d \in Conns : d # c => conn'[d].tcp = conn[d].tcp
  BY <1>3
<1>u. accept' = accept /\ owner' = owner /\ told' = told /\ had' = had /\ rough' = rough
      /\ handed' = handed /\ ret' = ret
  OBVIOUS
<1>8. OneSlot'
  <2>1. \A d \in Conns : conn'[d].tcp \in Alive => conn'[d].peer \in Peers
    BY <1>t, <1>6, <1>7 DEF OneSlot
  <2>2. accept'.sock # None => accept'.remote \in Peers
    BY <1>t, <1>u DEF OneSlot
  <2>3. \A d, e \in Conns : conn'[d].peer \in Peers /\ conn'[d].peer = conn'[e].peer => d = e
    BY <1>t, <1>5, <1>6 DEF OneSlot
  <2>4. \A d, e \in Conns : owner'[e] \in Peers /\ conn'[d].peer = owner'[e] => d = e
    BY <1>t, <1>u, <1>5, <1>6 DEF OneSlot
  <2>5. \A d \in Conns : accept'.sock # None /\ conn'[d].peer = accept'.remote => d = accept'.sock
    BY <1>t, <1>u, <1>5, <1>6 DEF OneSlot
  <2>6. \A q \in Peers : ~peer'[q].met =>
          /\ handed'[q] = 0 /\ accept'.remote # q
          /\ \A d \in Conns : conn'[d].peer # q /\ owner'[d] # q
    BY <1>t, <1>u, <1>4, <1>6 DEF OneSlot
  <2> QED  BY <2>1, <2>2, <2>3, <2>4, <2>5, <2>6 DEF OneSlot
<1>9. AcceptedOnce' /\ NothingLost'
  BY <1>t, <1>u, <1>4 DEF AcceptedOnce, NothingLost
<1>10. \A d \in Conns : conn'[d].tcp \in Handshake =>
         handed'[conn'[d].peer] = 0 /\ ~(Handing' /\ accept'.remote = conn'[d].peer)
  BY <1>t, <1>u, <1>5, <1>6, <1>7 DEF Once
<1>11. Handing' => handed'[accept'.remote] = 0
  BY <1>t, <1>u DEF Once
<1> QED  BY <1>3, <1>4, <1>8, <1>9, <1>10, <1>11

\* A SYN.
LEMMA SynKeeps ==
  ASSUME NetAssumption, IInv, NEW p \in Peers, Syn(p)
  PROVE  IInv'
<1>t. TypeOK /\ OneCall /\ OneSlot /\ Once /\ AcceptedOnce /\ Reception /\ NothingLost /\ Account
  BY DEF IInv
<1>1. PICK c \in SynSlots : conn' = [conn EXCEPT ![c] = Begun("syn_rcvd", p)]
  BY Zenon DEF Syn, Begun
<1>2. c \in Conns /\ conn[c].tcp \in {"closed", "time_wait"}
  BY SlotFacts
<1>3. /\ ~peer[p].met /\ peer' = [peer EXCEPT ![p].met = TRUE]
      /\ app' = app /\ accept' = accept /\ pc' = pc /\ me' = me /\ owner' = owner
      /\ calls' = calls /\ told' = told /\ had' = had /\ rough' = rough /\ handed' = handed
      /\ ret' = ret
  BY DEF Syn, programVars
<1>4. Handing' <=> Handing
  BY <1>3 DEF Handing
<1>5. /\ conn' \in [Conns -> ConnType] /\ peer' \in [Peers -> PeerType]
      /\ conn'[c] = Begun("syn_rcvd", p) /\ \A d \in Conns : d # c => conn'[d] = conn[d]
      /\ OneSlot' /\ AcceptedOnce' /\ NothingLost'
      /\ \A d \in Conns : conn'[d].tcp \in Handshake =>
           handed'[conn'[d].peer] = 0 /\ ~(Handing' /\ accept'.remote = conn'[d].peer)
      /\ Handing' => handed'[accept'.remote] = 0
  BY <1>1, <1>2, <1>3, <1>4, NewPeer
<1>6. TypeOK'
  BY <1>t, <1>3, <1>5 DEF TypeOK
<1>7. OneCall' /\ Account'
  BY <1>t, <1>3 DEF OneCall, Account
<1>8. Once'
  BY <1>t, <1>3, <1>5 DEF Once
<1>9. Reception'
  <2>1. conn'[c].tcp = "syn_rcvd"
    <3>1. "syn_rcvd" \in TcpStates /\ p \in Hosts  BY DEF TcpStates, Alive, Hosts
    <3> QED  BY <1>5, <3>1, NewConn
  <2> QED  BY <1>t, <1>3, <1>5, <2>1 DEF Reception
<1> QED  BY <1>5, <1>6, <1>7, <1>8, <1>9 DEF IInv

\* net.connect.
LEMMA ConnectKeeps ==
  ASSUME NetAssumption, IInv, NEW c \in Conns, NEW p \in Peers, Connect(c, p)
  PROVE  IInv'
<1>t. TypeOK /\ OneCall /\ OneSlot /\ Once /\ AcceptedOnce /\ Reception /\ NothingLost /\ Account
  BY DEF IInv
<1> DEFINE a1 == [app[c] EXCEPT !.res = "ok"]
           a2 == [a1 EXCEPT !.len = 0]
           a  == [a2 EXCEPT !.state = "connect"]
<1>1. /\ ~peer[p].met /\ peer' = [peer EXCEPT ![p].met = TRUE]
      /\ conn' = [conn EXCEPT ![c] = Begun("syn_sent", p)]
      /\ accept' = accept /\ owner' = owner
      /\ told' = told /\ had' = had /\ rough' = rough /\ handed' = handed
      /\ ret' = ret /\ pc = "idle" /\ calls' = calls + 1 /\ pc' = "spin"
      /\ me' = [Me0 EXCEPT !.call = "connect", !.c = c]
      /\ app' = [app EXCEPT ![c] = a]
  BY Zenon DEF Connect, Call, Begun
<1>2. ~Handing'
  BY <1>1 DEF Handing
<1>3. /\ conn' \in [Conns -> ConnType] /\ peer' \in [Peers -> PeerType]
      /\ conn'[c] = Begun("syn_sent", p) /\ \A d \in Conns : d # c => conn'[d] = conn[d]
      /\ OneSlot' /\ AcceptedOnce' /\ NothingLost'
      /\ \A d \in Conns : conn'[d].tcp \in Handshake =>
           handed'[conn'[d].peer] = 0 /\ ~(Handing' /\ accept'.remote = conn'[d].peer)
  BY <1>1, <1>2, NewPeer
<1>4. a \in AppType /\ a.state = "connect" /\ a.len = 0
  <2>1. app[c] \in AppType  BY <1>t DEF TypeOK
  <2>2. a1 \in AppType  BY <2>1 DEF AppType, Errors
  <2> HIDE DEF a1
  <2>3. a2 \in AppType /\ a2.len = 0  BY <2>2 DEF AppType
  <2> HIDE DEF a2
  <2> QED  BY <2>3 DEF AppType, AppStates
<1> HIDE DEF a
<1>5. app' \in [Conns -> AppType] /\ app'[c] = a /\ \A d \in Conns : d # c => app'[d] = app[d]
  BY <1>t, <1>1, <1>4 DEF TypeOK
<1>6. /\ me' \in CallType /\ me'.call = "connect" /\ me'.c = c /\ ~me'.timed
  <2> DEFINE m == [Me0 EXCEPT !.call = "connect"]
             n == [m EXCEPT !.c = c]
  <2>1. Me0 \in CallType /\ ~Me0.timed
    BY DEF Me0, CallType, None, NetAssumption
  <2>2. m \in CallType /\ m.call = "connect" /\ m.timed = Me0.timed
    BY <2>1 DEF CallType
  <2>3. me' = n  BY <1>1
  <2>4. c \in 0..NumConns  BY DEF Conns, NetAssumption
  <2> HIDE DEF m
  <2>5. n \in CallType /\ n.call = m.call /\ n.c = c /\ n.timed = m.timed
    BY <2>2, <2>4 DEF CallType
  <2> HIDE DEF n
  <2> QED  BY <2>1, <2>2, <2>3, <2>5
<1>7. TypeOK'
  <2>1. calls' \in Nat  BY <1>1, <1>t DEF TypeOK
  <2> QED  BY <1>t, <1>1, <1>3, <1>5, <1>6, <2>1 DEF TypeOK
<1>8. OneCall'
  BY <1>t, <1>1, <1>4, <1>5, <1>6 DEF OneCall
<1>9. Account'
  BY <1>6 DEF Account
<1>10. Once'
  <2>1. ~accept.request  BY <1>t, <1>1 DEF Once
  <2> QED  BY <1>1, <1>2, <1>3, <2>1 DEF Once
<1>11. Reception'
  <2>1. conn'[c].tcp = "syn_sent"
    <3>1. "syn_sent" \in TcpStates /\ p \in Hosts  BY DEF TcpStates, Alive, Hosts
    <3> QED  BY <1>3, <3>1, NewConn
  <2> QED  BY <1>t, <1>1, <1>3, <1>5, <2>1 DEF Reception
<1> QED  BY <1>3, <1>7, <1>8, <1>9, <1>10, <1>11 DEF IInv

\* The handshake ends.
LEMMA ConnectedKeeps ==
  ASSUME NetAssumption, IInv, NEW c \in Conns, NEW k \in 0..Mss, Connected(c, k)
  PROVE  IInv'
<1>t. TypeOK /\ OneCall /\ OneSlot /\ Once /\ AcceptedOnce /\ Reception /\ NothingLost /\ Account
  BY DEF IInv
<1> DEFINE p == conn[c].peer
           n1 == [conn[c] EXCEPT !.tcp = "established"]
           n2 == [n1 EXCEPT !.stopped = TRUE]
           n  == [n2 EXCEPT !.nrtx = 0]
<1>1. /\ conn[c].tcp \in Handshake
      /\ peer' = [peer EXCEPT ![p].acked = @ + k]
      /\ accept' = IF accept.request
                   THEN [accept EXCEPT !.sock = c, !.remote = p, !.request = FALSE] ELSE accept
      /\ app' = IF ~accept.request /\ app[c].state = "connect"
                THEN [app EXCEPT ![c].state = "idle"] ELSE app
      /\ rough' = IF k > 0 THEN rough \cup {p} ELSE rough
      /\ pc' = pc /\ me' = me /\ owner' = owner
      /\ calls' = calls /\ told' = told /\ had' = had /\ handed' = handed /\ ret' = ret
  BY Zenon DEF Connected, programVars, In, Handshake
<1>2. p \in Peers
  BY <1>1, <1>t DEF OneSlot, Handshake, Alive
<1>3. conn[c] \in ConnType /\ conn \in [Conns -> ConnType]
  BY <1>t DEF TypeOK
<1>4. /\ n \in ConnType /\ n.tcp = "established" /\ n.stopped /\ n.peer = p
  <2>1. n1 \in ConnType /\ n1.tcp = "established" /\ n1.peer = p
    BY <1>3 DEF ConnType, TcpStates, Alive
  <2> HIDE DEF n1
  <2>2. n2 \in ConnType /\ n2.tcp = "established" /\ n2.peer = p /\ n2.stopped
    BY <2>1 DEF ConnType
  <2> HIDE DEF n2
  <2> QED  BY <2>2 DEF ConnType
<1>5. conn' = [conn EXCEPT ![c] = n]
  <2>1. conn' = [conn EXCEPT ![c].tcp = "established", ![c].stopped = TRUE, ![c].nrtx = 0]
    BY Zenon DEF Connected
  <2> QED  BY <2>1, <1>3
<1> HIDE DEF n
<1>6. /\ conn' \in [Conns -> ConnType] /\ conn'[c] = n
      /\ \A d \in Conns : d # c => conn'[d] = conn[d]
  BY <1>3, <1>4, <1>5
<1>7. \A d \in Conns : /\ conn'[d].peer = conn[d].peer
                       /\ conn'[d].tcp \in Handshake => d # c /\ conn[d].tcp \in Handshake
                       /\ conn'[d].tcp \in Alive => conn[d].tcp \in Alive
  BY <1>1, <1>4, <1>6 DEF Handshake, Alive
<1>8. /\ peer \in [Peers -> PeerType] /\ peer[p] \in PeerType /\ peer[p].acked \in Nat
      /\ had \in [Peers -> Nat] /\ rough \subseteq Hosts /\ k \in Nat /\ p \in Hosts
  BY <1>2, <1>t DEF TypeOK, PeerType, Hosts, NetAssumption
<1> HIDE DEF p
<1>9. /\ peer' \in [Peers -> PeerType]
      /\ \A q \in Peers : peer'[q].met = peer[q].met
      /\ \A q \in Peers : peer'[q].acked = IF q = p THEN peer[q].acked + k ELSE peer[q].acked
  <2> DEFINE m == peer[p].acked + k
             x == [peer[p] EXCEPT !.acked = m]
  <2>1. m \in Nat  BY <1>8
  <2>2. peer' = [peer EXCEPT ![p] = x]  BY <1>1, <1>2, <1>8
  <2> HIDE DEF m
  <2>3. x \in PeerType /\ x.met = peer[p].met /\ x.acked = m
    BY <2>1, <1>8 DEF PeerType
  <2> HIDE DEF x
  <2>4. peer' \in [Peers -> PeerType]  BY <2>2, <2>3, <1>2, <1>8
  <2>5. \A q \in Peers : peer'[q] = IF q = p THEN x ELSE peer[q]
    BY <2>2, <1>2, <1>8
  <2> QED  BY <2>3, <2>4, <2>5, <1>8 DEF m
<1>10. /\ accept' \in AcceptType
       /\ accept.request => accept'.sock = c /\ accept'.remote = p /\ ~accept'.request
       /\ ~accept.request => accept' = accept
  <2> DEFINE b1 == [accept EXCEPT !.sock = c]
             b2 == [b1 EXCEPT !.remote = p]
             b  == [b2 EXCEPT !.request = FALSE]
  <2>1. accept \in AcceptType  BY <1>t DEF TypeOK
  <2>2. c \in 0..NumConns  BY DEF Conns, NetAssumption
  <2>3. b1 \in AcceptType /\ b1.sock = c  BY <2>1, <2>2 DEF AcceptType
  <2>4. accept.request => accept' = b  BY <1>1
  <2> HIDE DEF b1
  <2>5. b2 \in AcceptType /\ b2.sock = c /\ b2.remote = p  BY <2>3, <1>8 DEF AcceptType
  <2> HIDE DEF b2
  <2>6. b \in AcceptType /\ b.sock = c /\ b.remote = p /\ ~b.request  BY <2>5 DEF AcceptType
  <2> HIDE DEF b
  <2> QED  BY <2>1, <2>4, <2>6, <1>1
<1>11. /\ app' \in [Conns -> AppType]
       /\ \A d \in Conns : /\ app'[d].state = "idle" \/ app'[d] = app[d]
                           /\ app'[d] = app[d] \/ (app[d].state = "connect" /\ d = c)
                           /\ app'[d].len = app[d].len /\ app'[d].res = app[d].res
                           /\ app'[d].line = app[d].line
  <2> DEFINE x == [app[c] EXCEPT !.state = "idle"]
  <2>1. app \in [Conns -> AppType] /\ app[c] \in AppType  BY <1>t DEF TypeOK
  <2>2. x \in AppType /\ x.state = "idle" /\ x.len = app[c].len /\ x.res = app[c].res
        /\ x.line = app[c].line
    BY <2>1 DEF AppType, AppStates
  <2>3. app' = app \/ (app[c].state = "connect" /\ app' = [app EXCEPT ![c] = x])
    BY <1>1, <2>1
  <2> HIDE DEF x
  <2> QED  BY <2>1, <2>2, <2>3
<1>12. TypeOK'
  <2>1. rough' \subseteq Hosts  BY <1>1, <1>8
  <2> QED  BY <1>t, <1>1, <1>6, <1>9, <1>10, <1>11, <2>1 DEF TypeOK
<1>13. OneCall'
  BY <1>t, <1>1, <1>11, Zenon DEF OneCall
<1>14. OneSlot'
  <2>1. \A d \in Conns : conn'[d].tcp \in Alive => conn'[d].peer \in Peers
    BY <1>t, <1>7 DEF OneSlot
  <2>2. accept'.sock # None => accept'.remote \in Peers
    BY <1>t, <1>2, <1>10 DEF OneSlot
  <2>3. \A d, e \in Conns : conn'[d].peer \in Peers /\ conn'[d].peer = conn'[e].peer => d = e
    BY <1>t, <1>7 DEF OneSlot
  <2>4. \A d, e \in Conns : owner'[e] \in Peers /\ conn'[d].peer = owner'[e] => d = e
    BY <1>t, <1>1, <1>7 DEF OneSlot
  <2>5. \A d \in Conns : accept'.sock # None /\ conn'[d].peer = accept'.remote => d = accept'.sock
    BY <1>t, <1>2, <1>7, <1>10 DEF OneSlot, p
  <2>6. \A q \in Peers : ~peer'[q].met =>
          /\ handed'[q] = 0 /\ accept'.remote # q
          /\ \A d \in Conns : conn'[d].peer # q /\ owner'[d] # q
    BY <1>t, <1>1, <1>7, <1>9, <1>10 DEF OneSlot, p
  <2> QED  BY <2>1, <2>2, <2>3, <2>4, <2>5, <2>6 DEF OneSlot
<1>15. Once'
  <2>1. CASE accept.request
    <3>1. handed[p] = 0 /\ pc \in {"accept", "withdraw"}
      BY <1>t, <1>1, <2>1 DEF Once, p
    <3>2. \A d \in Conns : d # c => conn[d].peer # p
      BY <1>t, <1>2 DEF OneSlot, p
    <3>3. \A d \in Conns : conn'[d].tcp \in Handshake =>
            handed'[conn'[d].peer] = 0 /\ conn'[d].peer # p
      BY <1>t, <1>1, <1>7, <3>2 DEF Once
    <3> QED  BY <2>1, <3>1, <3>3, <1>1, <1>10 DEF Once
  <2>2. CASE ~accept.request
    <3>1. accept' = accept /\ (Handing' <=> Handing)  BY <2>2, <1>1, <1>10 DEF Handing
    <3> QED  BY <3>1, <1>t, <1>1, <1>7 DEF Once
  <2> QED  BY <2>1, <2>2
<1>16. AcceptedOnce'
  BY <1>t, <1>1 DEF AcceptedOnce
<1>17. Reception'
  <2> SUFFICES ASSUME NEW d \in Conns, conn'[d].tcp = "established", ~conn'[d].stopped
               PROVE  app'[d].state = "recv_2" \/ conn'[d].peer \in rough'
    BY DEF Reception
  <2>1. d # c /\ conn'[d] = conn[d]  BY <1>4, <1>6
  <2>2. rough \subseteq rough'  BY <1>1
  <2>3. app[d].state = "recv_2" \/ conn[d].peer \in rough  BY <2>1, <1>t DEF Reception
  <2>4. app'[d] = app[d]  BY <2>1, <1>11
  <2> QED  BY <2>1, <2>2, <2>3, <2>4
<1>18. NothingLost'
  <2> SUFFICES ASSUME NEW q \in Peers, q \notin rough' PROVE had'[q] = peer'[q].acked
    BY DEF NothingLost
  <2>1. q \notin rough /\ had'[q] = had[q] /\ had[q] = peer[q].acked
    BY <1>1, <1>t DEF NothingLost
  <2>2. q = p => k = 0  BY <1>1, <1>8
  <2> QED  BY <2>1, <2>2, <1>8, <1>9
<1>19. Account'
  <2> SUFFICES ASSUME pc = "spin" PROVE Account'
    BY <1>1 DEF Account
  <2>1. me.c \in Conns  BY <1>t DEF OneCall
  <2>2. app'[me.c] = app[me.c] \/ me.call = "connect"
    BY <2>1, <1>11, <1>t DEF OneCall
  <2> QED  BY <1>t, <1>1, <2>1, <2>2 DEF Account
<1> QED  BY <1>12, <1>13, <1>14, <1>15, <1>16, <1>17, <1>18, <1>19 DEF IInv

-----------------------------------------------------------------------------
(* The program.                                                            *)

\* The program's record when it is in no call.
LEMMA NoCall == NetAssumption => Me0 \in CallType
BY DEF Me0, CallType, None, NetAssumption

\* Between calls nothing is asked of the handler.
LEMMA BetweenCalls ==
  ASSUME IInv, pc \notin {"spin", "accept", "withdraw"}
  PROVE  ~accept.request /\ ~Handing /\ \A c \in Conns : app[c].state = "idle"
BY DEF IInv, Once, Handing, OneCall

\* net.socket.
LEMMA SocketKeeps ==
  ASSUME NetAssumption, IInv, Socket
  PROVE  IInv'
<1>t. TypeOK /\ OneCall /\ OneSlot /\ Once /\ AcceptedOnce /\ Reception /\ NothingLost /\ Account
  BY DEF IInv
<1>1. PICK c \in Conns : conn' = [conn EXCEPT ![c] = [NoConn EXCEPT !.tcp = "reserved"]]
  BY Zenon DEF Socket
<1>2. /\ app' = app /\ accept' = accept /\ owner' = owner /\ peer' = peer /\ told' = told
      /\ had' = had /\ rough' = rough /\ handed' = handed /\ ret' = ret
      /\ pc = "idle" /\ pc' = "idle" /\ calls' = calls + 1 /\ me' = Me0
  BY DEF Socket, Call
<1> DEFINE n == [NoConn EXCEPT !.tcp = "reserved"]
<1>3. n \in ConnType /\ n.tcp = "reserved" /\ n.peer = NoPeer
  <2>1. NoConn \in ConnType /\ NoConn.peer = NoPeer
    BY NoBytes DEF NoConn, ConnType, NetAssumption, TcpStates, Hosts
  <2>2. "reserved" \in TcpStates  BY DEF TcpStates
  <2> QED  BY <2>1, <2>2 DEF ConnType
<1>c. conn' = [conn EXCEPT ![c] = n]
  BY <1>1
<1> HIDE DEF n
<1>4. /\ conn' \in [Conns -> ConnType] /\ conn'[c] = n
      /\ \A d \in Conns : d # c => conn'[d] = conn[d]
  BY <1>t, <1>c, <1>3 DEF TypeOK
<1>5. /\ \A d \in Conns : conn'[d].tcp \in Alive \cup {"established"} => d # c
      /\ NoPeer \notin Peers /\ "reserved" \notin Alive /\ "reserved" \notin Handshake
  BY <1>3, <1>4 DEF Alive, Handshake, NetAssumption
<1>6. \A d \in Conns : conn'[d].peer = IF d = c THEN NoPeer ELSE conn[d].peer
  BY <1>3, <1>4
<1>7. TypeOK'
  <2>1. calls' \in Nat /\ me' \in CallType  BY <1>2, <1>t, NoCall DEF TypeOK
  <2> QED  BY <1>t, <1>2, <1>4, <2>1 DEF TypeOK
<1>8. OneCall' /\ Account'
  <2>1. \A d \in Conns : app[d].state = "idle"  BY <1>2, BetweenCalls
  <2> QED  BY <1>2, <2>1 DEF OneCall, Account
<1>9. OneSlot'
  <2>1. \A d \in Conns : conn'[d].tcp \in Alive => conn'[d].peer \in Peers
    BY <1>t, <1>4, <1>5 DEF OneSlot
  <2>2. accept'.sock # None => accept'.remote \in Peers
    BY <1>t, <1>2 DEF OneSlot
  <2>3. \A d, e \in Conns : conn'[d].peer \in Peers /\ conn'[d].peer = conn'[e].peer => d = e
    BY <1>t, <1>5, <1>6 DEF OneSlot
  <2>4. \A d, e \in Conns : owner'[e] \in Peers /\ conn'[d].peer = owner'[e] => d = e
    BY <1>t, <1>2, <1>5, <1>6 DEF OneSlot
  <2>5. \A d \in Conns : accept'.sock # None /\ conn'[d].peer = accept'.remote => d = accept'.sock
    BY <1>t, <1>2, <1>5, <1>6 DEF OneSlot
  <2>6. \A p \in Peers : ~peer'[p].met =>
          /\ handed'[p] = 0 /\ accept'.remote # p
          /\ \A d \in Conns : conn'[d].peer # p /\ owner'[d] # p
    BY <1>t, <1>2, <1>5, <1>6 DEF OneSlot
  <2> QED  BY <2>1, <2>2, <2>3, <2>4, <2>5, <2>6 DEF OneSlot
<1>10. Once'
  <2>1. ~accept.request  BY <1>2, BetweenCalls
  <2>2. ~Handing'  BY <1>2 DEF Handing
  <2>3. \A d \in Conns : conn'[d].tcp \in Handshake => d # c  BY <1>3, <1>4, <1>5
  <2> QED  BY <1>t, <1>2, <1>4, <2>1, <2>2, <2>3 DEF Once
<1>11. AcceptedOnce' /\ NothingLost'
  BY <1>t, <1>2 DEF AcceptedOnce, NothingLost
<1>12. Reception'
  BY <1>t, <1>2, <1>4, <1>5 DEF Reception
<1> QED  BY <1>7, <1>8, <1>9, <1>10, <1>11, <1>12 DEF IInv

\* net.send, net.recv and net.close.
LEMMA RequestKeeps ==
  ASSUME NetAssumption, IInv, NEW call \in {"send", "recv", "close"}, NEW c \in Conns,
         NEW n \in Nat, NEW line \in BOOLEAN, NEW timed \in BOOLEAN,
         call # "close" => n > 0, timed => call = "recv",
         Request(call, c, n, line, timed)
  PROVE  IInv'
<1>t. TypeOK /\ OneCall /\ OneSlot /\ Once /\ AcceptedOnce /\ Reception /\ NothingLost /\ Account
  BY DEF IInv
<1>1. /\ owner[c] # NoPeer /\ pc = "idle" /\ calls' = calls + 1
      /\ conn' = conn /\ app' = app /\ accept' = accept /\ peer' = peer /\ told' = told
      /\ had' = had /\ rough' = rough /\ handed' = handed
  BY DEF Request, Call
<1>2. ~accept.request /\ \A d \in Conns : app[d].state = "idle"
  BY <1>1, BetweenCalls
<1>3. owner \in [Conns -> Hosts] /\ owner[c] \in Peers /\ calls' \in Nat
  BY <1>1, <1>t DEF TypeOK, Hosts
<1>4. AcceptedOnce' /\ NothingLost' /\ Reception'
  BY <1>t, <1>1 DEF AcceptedOnce, NothingLost, Reception
<1>5. CASE Active(c)
  <2> DEFINE m == [call |-> call, c |-> c, n |-> n, line |-> line, timed |-> timed]
  <2>1. pc' = "post" /\ me' = m /\ owner' = owner /\ ret' = ret
    BY <1>5 DEF Request, Call
  <2>2. m \in CallType /\ m.call = call /\ m.c = c /\ m.n = n /\ m.timed = timed
    <3>1. c \in 0..NumConns  BY DEF Conns, NetAssumption
    <3> QED  BY <3>1 DEF CallType
  <2> HIDE DEF m
  <2>3. TypeOK'
    BY <1>t, <1>1, <1>3, <2>1, <2>2 DEF TypeOK
  <2>4. OneCall'
    BY <1>1, <1>2, <1>3, <2>1, <2>2 DEF OneCall
  <2>5. OneSlot'
    BY <1>t, <1>1, <2>1, Zenon DEF OneSlot
  <2>6. ~Handing'
    BY <2>1 DEF Handing
  <2>7. Once'
    BY <1>t, <1>1, <1>2, <2>6 DEF Once
  <2>8. Account'
    BY <2>1 DEF Account
  <2> QED  BY <1>4, <2>3, <2>4, <2>5, <2>7, <2>8 DEF IInv
<1>6. CASE ~Active(c)
  <2>1. /\ pc' = "idle" /\ me' = Me0
        /\ ret' = [asked |-> n, done |-> -1, err |-> app[c].res]
        /\ owner' = IF call = "close" THEN [owner EXCEPT ![c] = NoPeer] ELSE owner
    BY <1>6 DEF Request, Call
  <2>2. ret' \in RetType
    <3>1. app[c].res \in Errors  BY <1>t, Fields DEF TypeOK
    <3> QED  BY <2>1, <3>1 DEF RetType
  <2>3. /\ owner' \in [Conns -> Hosts]
        /\ \A d \in Conns : owner'[d] = owner[d] \/ owner'[d] = NoPeer
    BY <1>3, <2>1 DEF Hosts
  <2>4. TypeOK'
    BY <1>t, <1>1, <1>3, <2>1, <2>2, <2>3, NoCall DEF TypeOK
  <2>5. OneCall' /\ Account'
    BY <1>1, <1>2, <2>1 DEF OneCall, Account
  <2>6. OneSlot'
    <3>1. \A d, e \in Conns : owner'[e] \in Peers /\ conn'[d].peer = owner'[e] => d = e
      BY <1>t, <1>1, <2>3 DEF OneSlot, NetAssumption
    <3>2. \A p \in Peers : ~peer'[p].met =>
            /\ handed'[p] = 0 /\ accept'.remote # p
            /\ \A d \in Conns : conn'[d].peer # p /\ owner'[d] # p
      BY <1>t, <1>1, <2>3 DEF OneSlot, NetAssumption
    <3> QED  BY <1>t, <1>1, <3>1, <3>2, Zenon DEF OneSlot
  <2>7. ~Handing'
    BY <2>1 DEF Handing
  <2>8. Once'
    BY <1>t, <1>1, <1>2, <2>7 DEF Once
  <2> QED  BY <1>4, <2>4, <2>5, <2>6, <2>8 DEF IInv
<1> QED  BY <1>5, <1>6

\* elua_prep_socket_state.
LEMMA PostKeeps ==
  ASSUME NetAssumption, IInv, Post
  PROVE  IInv'
<1>t. TypeOK /\ OneCall /\ OneSlot /\ Once /\ AcceptedOnce /\ Reception /\ NothingLost /\ Account
  BY DEF IInv
<1> DEFINE o == owner[me.c]
           a == [state |-> me.call, line |-> me.line, len |-> me.n,
                 ptr |-> told[o].given + 1, res |-> IF me.call = "recv" THEN "timedout" ELSE "ok"]
<1>1. /\ pc = "post" /\ pc' = "spin" /\ me' = me /\ app' = [app EXCEPT ![me.c] = a]
      /\ told' = IF me.call = "send" THEN [told EXCEPT ![o].given = @ + me.n] ELSE told
      /\ conn' = conn /\ accept' = accept /\ owner' = owner /\ calls' = calls /\ peer' = peer
      /\ had' = had /\ rough' = rough /\ handed' = handed /\ ret' = ret
  BY Zenon DEF Post, Goto
<1>2. /\ me.c \in Conns /\ me.call \in {"send", "recv", "close"} /\ o \in Peers
      /\ me.call \in {"send", "recv"} => me.n > 0
      /\ me.timed => me.call = "recv"
  BY <1>1, <1>t DEF OneCall
<1>3. /\ me.line \in BOOLEAN /\ me.n \in Nat /\ told[o] \in ToldType
      /\ told \in [Peers -> ToldType]
  BY <1>2, <1>t DEF TypeOK, CallType
<1>4. a \in AppType /\ a.state = me.call /\ a.line = me.line /\ a.len = me.n
      /\ a.res = IF me.call = "recv" THEN "timedout" ELSE "ok"
  <2>1. told[o].given + 1 \in Nat  BY <1>3 DEF ToldType
  <2> QED  BY <1>2, <1>3, <2>1 DEF AppType, AppStates, Errors
<1> HIDE DEF a
<1>5. /\ app' \in [Conns -> AppType] /\ app'[me.c] = a
      /\ \A d \in Conns : d # me.c => app'[d] = app[d]
  BY <1>t, <1>1, <1>2, <1>4 DEF TypeOK
<1>6. told' \in [Peers -> ToldType]
  <2> DEFINE g == told[o].given + me.n
             x == [told[o] EXCEPT !.given = g]
  <2>1. g \in Nat  BY <1>3 DEF ToldType
  <2>2. told' = told \/ told' = [told EXCEPT ![o] = x]  BY <1>1, <1>2, <1>3
  <2> HIDE DEF g
  <2>3. x \in ToldType  BY <2>1, <1>3 DEF ToldType
  <2> HIDE DEF x
  <2> QED  BY <2>2, <2>3, <1>2, <1>3
<1>7. ~accept.request /\ \A d \in Conns : app[d].state = "idle"
  BY <1>1, BetweenCalls
<1>8. TypeOK'
  BY <1>t, <1>1, <1>5, <1>6 DEF TypeOK
<1>9. OneCall'
  BY <1>1, <1>2, <1>4, <1>5, <1>7 DEF OneCall
<1>10. OneSlot'
  BY <1>t, <1>1, Zenon DEF OneSlot
<1>11. ~Handing'
  BY <1>1 DEF Handing
<1>12. Once'
  BY <1>t, <1>1, <1>7, <1>11 DEF Once
<1>13. AcceptedOnce' /\ NothingLost'
  BY <1>t, <1>1 DEF AcceptedOnce, NothingLost
<1>14. Reception'
  BY <1>t, <1>1, <1>7 DEF Reception
<1>15. Account'
  BY <1>1, <1>2, <1>3, <1>4, <1>5 DEF Account
<1> QED  BY <1>8, <1>9, <1>10, <1>12, <1>13, <1>14, <1>15 DEF IInv

\* A recv that times out.
LEMMA TimesOutKeeps ==
  ASSUME NetAssumption, IInv, TimesOut
  PROVE  IInv'
<1>t. TypeOK /\ OneCall /\ OneSlot /\ Once /\ AcceptedOnce /\ Reception /\ NothingLost /\ Account
  BY DEF IInv
<1> DEFINE a1 == [app[me.c] EXCEPT !.res = "timedout"]
           a  == [a1 EXCEPT !.state = "idle"]
<1>1. /\ pc = "spin" /\ me.timed /\ app[me.c].state # "idle"
      /\ app' = [app EXCEPT ![me.c] = a] /\ rough' = rough \cup {conn[me.c].peer}
      /\ conn' = conn /\ accept' = accept /\ pc' = pc /\ me' = me /\ owner' = owner
      /\ calls' = calls /\ peer' = peer /\ told' = told /\ had' = had /\ handed' = handed
      /\ ret' = ret
  BY Zenon DEF TimesOut
<1>2. me.c \in Conns /\ me.call = "recv"
  BY <1>1, <1>t DEF OneCall
<1>3. /\ a \in AppType /\ a.state = "idle" /\ a.res = "timedout" /\ a.len = app[me.c].len
      /\ a.line = app[me.c].line
  <2>1. app[me.c] \in AppType  BY <1>2, <1>t DEF TypeOK
  <2>2. /\ a1 \in AppType /\ a1.res = "timedout" /\ a1.len = app[me.c].len
        /\ a1.line = app[me.c].line
    BY <2>1 DEF AppType, Errors
  <2> HIDE DEF a1
  <2> QED  BY <2>2 DEF AppType, AppStates
<1> HIDE DEF a
<1>4. /\ app' \in [Conns -> AppType] /\ app'[me.c] = a
      /\ \A d \in Conns : d # me.c => app'[d] = app[d]
  BY <1>t, <1>1, <1>2, <1>3 DEF TypeOK
<1>5. TypeOK'
  <2>1. conn[me.c].peer \in Hosts  BY <1>2, <1>t, Fields DEF TypeOK
  <2>2. rough' \subseteq Hosts  BY <1>t, <1>1, <2>1 DEF TypeOK
  <2> QED  BY <1>t, <1>1, <1>4, <2>2 DEF TypeOK
<1>6. OneCall'
  BY <1>t, <1>1, <1>3, <1>4 DEF OneCall
<1>7. OneSlot'
  BY <1>t, <1>1, Zenon DEF OneSlot
<1>8. Once'
  BY <1>t, <1>1, Zenon DEF Once, Handing
<1>9. AcceptedOnce' /\ NothingLost'
  BY <1>t, <1>1 DEF AcceptedOnce, NothingLost
<1>10. Reception'
  BY <1>t, <1>1, <1>4 DEF Reception
<1>11. Account'
  BY <1>t, <1>1, <1>2, <1>3, <1>4 DEF Account
<1> QED  BY <1>5, <1>6, <1>7, <1>8, <1>9, <1>10, <1>11 DEF IInv

\* The end of a call.
LEMMA ReturnsKeeps ==
  ASSUME NetAssumption, IInv, Returns
  PROVE  IInv'
<1>t. TypeOK /\ OneCall /\ OneSlot /\ Once /\ AcceptedOnce /\ Reception /\ NothingLost /\ Account
  BY DEF IInv
<1> DEFINE o == owner[me.c]
           a == app[me.c]
           done == me.n - a.len
           to == CASE me.call = "connect" -> IF a.res = "ok" THEN conn[me.c].peer ELSE owner[me.c]
                   [] me.call = "close" -> NoPeer
                   [] OTHER -> owner[me.c]
<1>1. /\ pc = "spin" /\ app[me.c].state = "idle" /\ pc' = "idle" /\ me' = Me0
      /\ ret' = [asked |-> me.n, done |-> done, err |-> a.res]
      /\ told' = IF me.call = "send" THEN [told EXCEPT ![o].sent = @ + done] ELSE told
      /\ owner' = [owner EXCEPT ![me.c] = to]
      /\ app' = app /\ conn' = conn /\ accept' = accept /\ calls' = calls /\ peer' = peer
      /\ had' = had /\ rough' = rough /\ handed' = handed
  BY Zenon DEF Returns, GoIdle
<1>2. /\ me.c \in Conns /\ me.call \in {"connect", "send", "recv", "close"}
      /\ me.call # "connect" => o \in Peers
  BY <1>1, <1>t DEF OneCall
<1>3. /\ a \in AppType /\ a.len \in Nat /\ a.res \in Errors /\ me.n \in Nat /\ done \in Int
      /\ owner \in [Conns -> Hosts] /\ conn[me.c].peer \in Hosts /\ owner[me.c] \in Hosts
      /\ told \in [Peers -> ToldType]
  BY <1>2, <1>t, Fields DEF TypeOK, CallType
<1>4. to \in {owner[me.c], conn[me.c].peer, NoPeer}
  BY <1>2
<1> HIDE DEF to
<1>5. /\ owner' \in [Conns -> Hosts]
      /\ \A d \in Conns : owner'[d] \in {owner[d], conn[d].peer, NoPeer}
  BY <1>1, <1>2, <1>3, <1>4 DEF Hosts
<1>6. told' \in [Peers -> ToldType]
  <2> DEFINE s == told[o].sent + done
             x == [told[o] EXCEPT !.sent = s]
  <2>1. CASE me.call = "send"
    <3>1. told[o] \in ToldType  BY <2>1, <1>2, <1>3
    <3>2. s \in Int  BY <3>1, <1>3 DEF ToldType
    <3>3. told' = [told EXCEPT ![o] = x]  BY <2>1, <1>1, <1>2, <1>3
    <3> HIDE DEF s
    <3>4. x \in ToldType  BY <3>1, <3>2 DEF ToldType
    <3> HIDE DEF x
    <3> QED  BY <2>1, <3>3, <3>4, <1>2, <1>3
  <2>2. CASE me.call # "send"  BY <2>2, <1>1, <1>3
  <2> QED  BY <2>1, <2>2
<1>7. ret' \in RetType
  <2> HIDE DEF done
  <2> QED  BY <1>1, <1>3 DEF RetType
<1>8. \A d \in Conns : app[d].state = "idle"
  BY <1>1, <1>t DEF OneCall
<1>9. TypeOK'
  BY <1>t, <1>1, <1>5, <1>6, <1>7, NoCall DEF TypeOK
<1>10. OneCall' /\ Account'
  BY <1>1, <1>8 DEF OneCall, Account
<1>11. OneSlot'
  <2>n. NoPeer \notin Peers  BY DEF NetAssumption
  <2>1. \A d, e \in Conns : owner'[e] \in Peers /\ conn'[d].peer = owner'[e] => d = e
    BY <1>t, <1>1, <1>5, <2>n DEF OneSlot
  <2>2. \A p \in Peers : ~peer'[p].met =>
          /\ handed'[p] = 0 /\ accept'.remote # p
          /\ \A d \in Conns : conn'[d].peer # p /\ owner'[d] # p
    BY <1>t, <1>1, <1>5, <2>n DEF OneSlot
  <2> QED  BY <1>t, <1>1, <2>1, <2>2, Zenon DEF OneSlot
<1>12. Once'
  <2>1. ~Handing' /\ ~accept.request  BY <1>t, <1>1 DEF Handing, Once
  <2> QED  BY <1>t, <1>1, <2>1 DEF Once
<1>13. AcceptedOnce' /\ NothingLost' /\ Reception'
  BY <1>t, <1>1 DEF AcceptedOnce, NothingLost, Reception
<1> QED  BY <1>9, <1>10, <1>11, <1>12, <1>13 DEF IInv

\* net.accept: what the steps before its return have in common.
LEMMA AcceptFrame ==
  ASSUME NetAssumption, IInv, pc \in {"idle", "ask", "accept", "withdraw"},
         pc' \in {"ask", "accept", "withdraw"}, me' \in CallType, calls' \in Nat,
         accept' \in AcceptType, accept'.remote = accept.remote,
         accept'.sock = accept.sock \/ accept'.sock = None,
         UNCHANGED <<conn, app, owner, peer, told, had, rough, handed, ret>>
  PROVE  /\ TypeOK' /\ OneCall' /\ OneSlot' /\ AcceptedOnce' /\ Reception' /\ NothingLost'
         /\ Account'
<1>t. TypeOK /\ OneCall /\ OneSlot /\ Once /\ AcceptedOnce /\ Reception /\ NothingLost /\ Account
  BY DEF IInv
<1>1. /\ conn' = conn /\ app' = app /\ owner' = owner /\ peer' = peer /\ told' = told
      /\ had' = had /\ rough' = rough /\ handed' = handed /\ ret' = ret
  OBVIOUS
<1>2. \A d \in Conns : app[d].state = "idle"
  BY <1>t DEF OneCall
<1>3. TypeOK'
  BY <1>t, <1>1 DEF TypeOK
<1>4. OneCall' /\ Account'
  BY <1>1, <1>2 DEF OneCall, Account
<1>5. OneSlot'
  BY <1>t, <1>1 DEF OneSlot
<1>6. AcceptedOnce' /\ NothingLost' /\ Reception'
  BY <1>t, <1>1 DEF AcceptedOnce, NothingLost, Reception
<1> QED  BY <1>3, <1>4, <1>5, <1>6

\* net.accept begins.
LEMMA AcceptKeeps ==
  ASSUME NetAssumption, IInv, NEW timed \in BOOLEAN, Accept(timed)
  PROVE  IInv'
<1>t. TypeOK /\ Once  BY DEF IInv
<1> DEFINE m1 == [Me0 EXCEPT !.call = "accept"]
           m  == [m1 EXCEPT !.timed = timed]
           b  == [accept EXCEPT !.listening = TRUE]
<1>1. /\ pc = "idle" /\ pc' = "ask" /\ calls' = calls + 1 /\ me' = m /\ accept' = b
      /\ UNCHANGED <<conn, app, owner, peer, told, had, rough, handed, ret>>
  BY Zenon DEF Accept, Call
<1>2. m \in CallType
  <2>1. m1 \in CallType  BY NoCall DEF CallType
  <2> HIDE DEF m1
  <2> QED  BY <2>1 DEF CallType
<1>3. b \in AcceptType /\ b.remote = accept.remote /\ b.sock = accept.sock
      /\ b.request = accept.request
  BY <1>t DEF TypeOK, AcceptType
<1> HIDE DEF m, b
<1>4. calls' \in Nat  BY <1>1, <1>t DEF TypeOK
<1>5. TypeOK' /\ OneCall' /\ OneSlot' /\ AcceptedOnce' /\ Reception' /\ NothingLost' /\ Account'
  BY <1>1, <1>2, <1>3, <1>4, AcceptFrame
<1>6. ~accept.request /\ ~Handing'
  BY <1>1, BetweenCalls DEF Handing
<1>7. Once'
  BY <1>t, <1>1, <1>3, <1>6 DEF Once
<1> QED  BY <1>5, <1>7 DEF IInv

\* It forgets the last socket and asks for one.
LEMMA AskKeeps ==
  ASSUME NetAssumption, IInv, Ask
  PROVE  IInv'
<1>t. TypeOK /\ Once  BY DEF IInv
<1> DEFINE b1 == [accept EXCEPT !.sock = None]
           b  == [b1 EXCEPT !.request = TRUE]
<1>1. /\ pc = "ask" /\ pc' = "accept" /\ calls' = calls /\ me' = me /\ accept' = b
      /\ UNCHANGED <<conn, app, owner, peer, told, had, rough, handed, ret>>
  BY Zenon DEF Ask, Goto
<1>2. b \in AcceptType /\ b.remote = accept.remote /\ b.sock = None
  <2>1. b1 \in AcceptType /\ b1.remote = accept.remote /\ b1.sock = None
    BY <1>t DEF TypeOK, AcceptType, None, NetAssumption
  <2> HIDE DEF b1
  <2> QED  BY <2>1 DEF AcceptType
<1> HIDE DEF b
<1>3. calls' \in Nat /\ me' \in CallType  BY <1>1, <1>t DEF TypeOK
<1>4. TypeOK' /\ OneCall' /\ OneSlot' /\ AcceptedOnce' /\ Reception' /\ NothingLost' /\ Account'
  BY <1>1, <1>2, <1>3, AcceptFrame
<1>5. ~Handing'
  BY <1>1, <1>2 DEF Handing
<1>6. Once'
  BY <1>t, <1>1, <1>2, <1>5 DEF Once
<1> QED  BY <1>4, <1>6 DEF IInv

\* Its time is up.
LEMMA AcceptTimesOutKeeps ==
  ASSUME NetAssumption, IInv, AcceptTimesOut
  PROVE  IInv'
<1>t. TypeOK /\ Once  BY DEF IInv
<1>1. /\ pc = "accept" /\ pc' = "withdraw" /\ calls' = calls /\ me' = me /\ accept' = accept
      /\ UNCHANGED <<conn, app, owner, peer, told, had, rough, handed, ret>>
  BY DEF AcceptTimesOut, Goto
<1>2. calls' \in Nat /\ me' \in CallType /\ accept' \in AcceptType  BY <1>1, <1>t DEF TypeOK
<1>3. TypeOK' /\ OneCall' /\ OneSlot' /\ AcceptedOnce' /\ Reception' /\ NothingLost' /\ Account'
  BY <1>1, <1>2, AcceptFrame
<1>4. Handing' <=> Handing
  BY <1>1 DEF Handing
<1>5. Once'
  BY <1>t, <1>1, <1>4 DEF Once
<1> QED  BY <1>3, <1>5 DEF IInv

\* It withdraws the request.
LEMMA WithdrawKeeps ==
  ASSUME NetAssumption, IInv, Withdraw
  PROVE  IInv'
<1>t. TypeOK /\ Once  BY DEF IInv
<1> DEFINE b == [accept EXCEPT !.request = FALSE]
<1>1. /\ pc = "withdraw" /\ pc' = "accept" /\ calls' = calls /\ me' = me /\ accept' = b
      /\ UNCHANGED <<conn, app, owner, peer, told, had, rough, handed, ret>>
  BY Zenon DEF Withdraw, Goto
<1>2. /\ b \in AcceptType /\ b.remote = accept.remote /\ b.sock = accept.sock /\ ~b.request
  BY <1>t DEF TypeOK, AcceptType
<1> HIDE DEF b
<1>3. calls' \in Nat /\ me' \in CallType  BY <1>1, <1>t DEF TypeOK
<1>4. TypeOK' /\ OneCall' /\ OneSlot' /\ AcceptedOnce' /\ Reception' /\ NothingLost' /\ Account'
  BY <1>1, <1>2, <1>3, AcceptFrame
<1>5. Handing' <=> Handing
  BY <1>1, <1>2 DEF Handing
<1>6. Once'
  BY <1>t, <1>1, <1>2, <1>5 DEF Once
<1> QED  BY <1>4, <1>6 DEF IInv

\* accept returns.
LEMMA AcceptedKeeps ==
  ASSUME NetAssumption, IInv, Accepted
  PROVE  IInv'
<1>t. TypeOK /\ OneCall /\ OneSlot /\ Once /\ AcceptedOnce /\ Reception /\ NothingLost /\ Account
  BY DEF IInv
<1> DEFINE s == accept.sock
           p == accept.remote
<1>1. /\ pc = "accept" /\ ~accept.request /\ pc' = "idle" /\ me' = Me0
      /\ conn' = conn /\ app' = app /\ accept' = accept /\ calls' = calls /\ peer' = peer
      /\ told' = told /\ had' = had /\ rough' = rough /\ ret' = ret
  BY DEF Accepted, GoIdle
<1>2. \/ s = None /\ owner' = owner /\ handed' = handed
      \/ /\ s # None /\ owner' = [owner EXCEPT ![s] = p]
         /\ handed' = [handed EXCEPT ![p] = @ + 1]
  BY DEF Accepted
<1>3. \A d \in Conns : app[d].state = "idle"
  BY <1>1, <1>t DEF OneCall
<1>4. OneCall' /\ Account'
  BY <1>1, <1>3 DEF OneCall, Account
<1>5. NothingLost' /\ Reception'
  BY <1>t, <1>1 DEF NothingLost, Reception
<1>6. ~Handing'
  BY <1>1 DEF Handing
<1>7. owner \in [Conns -> Hosts] /\ handed \in [Peers -> Nat] /\ NoPeer \notin Peers
  BY <1>t DEF TypeOK, NetAssumption
<1>8. CASE s = None
  <2>1. owner' = owner /\ handed' = handed  BY <1>2, <1>8
  <2>2. TypeOK'  BY <1>t, <1>1, <2>1, NoCall DEF TypeOK
  <2>3. OneSlot'  BY <1>t, <1>1, <2>1, Zenon DEF OneSlot
  <2>4. Once'  BY <1>t, <1>1, <1>6, <2>1 DEF Once
  <2>5. AcceptedOnce'  BY <1>t, <2>1 DEF AcceptedOnce
  <2> QED  BY <1>4, <1>5, <2>2, <2>3, <2>4, <2>5 DEF IInv
<1>9. CASE s # None
  <2>1. owner' = [owner EXCEPT ![s] = p] /\ handed' = [handed EXCEPT ![p] = @ + 1]
    BY <1>2, <1>9
  <2>2. s \in Conns /\ p \in Peers /\ p \in Hosts
    <3>1. accept \in AcceptType  BY <1>t DEF TypeOK
    <3>2. s \in 0..NumConns  BY <3>1 DEF AcceptType
    <3> QED  BY <3>2, <1>9, <1>t DEF OneSlot, Conns, None, Hosts, NetAssumption
  <2>3. handed[p] = 0 /\ Handing
    BY <1>1, <1>9, <1>t DEF Once, Handing
  <2>4. /\ owner' \in [Conns -> Hosts]
        /\ \A d \in Conns : owner'[d] = IF d = s THEN p ELSE owner[d]
    BY <1>7, <2>1, <2>2
  <2>5. /\ handed' \in [Peers -> Nat]
        /\ \A q \in Peers : handed'[q] = IF q = p THEN 1 ELSE handed[q]
    BY <1>7, <2>1, <2>2, <2>3
  <2>6. TypeOK'
    BY <1>t, <1>1, <2>4, <2>5, NoCall DEF TypeOK
  <2>7. OneSlot'
    <3>1. \A d, e \in Conns : owner'[e] \in Peers /\ conn'[d].peer = owner'[e] => d = e
      BY <1>t, <1>1, <1>9, <2>4 DEF OneSlot
    <3>2. \A q \in Peers : ~peer'[q].met =>
            /\ handed'[q] = 0 /\ accept'.remote # q
            /\ \A d \in Conns : conn'[d].peer # q /\ owner'[d] # q
      BY <1>t, <1>1, <2>4, <2>5 DEF OneSlot
    <3> QED  BY <1>t, <1>1, <3>1, <3>2, Zenon DEF OneSlot
  <2>8. Once'
    <3>1. \A d \in Conns : conn[d].tcp \in Handshake =>
            conn[d].peer \in Peers /\ conn[d].peer # p /\ handed[conn[d].peer] = 0
      BY <1>t, <2>3 DEF Once, OneSlot, Handshake, Alive
    <3> QED  BY <1>1, <1>6, <2>5, <3>1 DEF Once
  <2>9. AcceptedOnce'
    BY <1>t, <2>5 DEF AcceptedOnce
  <2> QED  BY <1>4, <1>5, <2>6, <2>7, <2>8, <2>9 DEF IInv
<1> QED  BY <1>8, <1>9

-----------------------------------------------------------------------------
(* The invariant.                                                          *)

\* Nothing that stands still is an exception.
LEMMA StandsStill ==
  ASSUME IInv, UNCHANGED vars
  PROVE  IInv'
BY ZenonT(60) DEF IInv, vars, TypeOK, OneCall, OneSlot, Once, Handing, AcceptedOnce, Reception,
             NothingLost, Account

\* The invariant holds at first.
LEMMA InitIInv == NetAssumption /\ Init => IInv
<1> SUFFICES ASSUME NetAssumption, Init PROVE IInv  OBVIOUS
<1>1. TypeOK
  <2>1. NoConn \in ConnType
    BY NoBytes DEF NoConn, ConnType, NetAssumption, TcpStates, Hosts
  <2>2. [state |-> "idle", res |-> "ok", ptr |-> 0, len |-> 0, line |-> FALSE] \in AppType
    BY DEF AppType, AppStates, Errors
  <2>3. [listening |-> FALSE, request |-> FALSE, sock |-> None, remote |-> NoPeer] \in AcceptType
    BY DEF AcceptType, None, Hosts, NetAssumption
  <2>4. [met |-> FALSE, got |-> <<>>, acked |-> 0] \in PeerType
    BY NoBytes DEF PeerType
  <2>5. [given |-> 0, sent |-> 0] \in ToldType
    BY DEF ToldType
  <2>6. [asked |-> 0, done |-> 0, err |-> "ok"] \in RetType
    BY DEF RetType, Errors
  <2> QED  BY <2>1, <2>2, <2>3, <2>4, <2>5, <2>6, NoCall DEF Init, TypeOK, Hosts
<1>2. \A c \in Conns : conn[c].tcp = "closed" /\ conn[c].peer = NoPeer /\ app[c].state = "idle"
  BY DEF Init, NoConn
<1>3. OneCall /\ Account
  BY <1>2 DEF Init, OneCall, Account
<1>4. OneSlot
  BY <1>2 DEF Init, OneSlot, NetAssumption, Alive
<1>5. Once /\ AcceptedOnce
  BY <1>2 DEF Init, Once, AcceptedOnce, Handing, Handshake
<1>6. Reception /\ NothingLost
  BY <1>2 DEF Init, Reception, NothingLost
<1> QED  BY <1>1, <1>3, <1>4, <1>5, <1>6 DEF IInv

\* Every step keeps the invariant.
LEMMA NextIInv == ASSUME NetAssumption, IInv, [Next]_vars PROVE IInv'
<1>1. CASE UNCHANGED vars  BY <1>1, StandsStill
<1>2. CASE Calls
  <2>1. CASE Socket  BY <2>1, SocketKeeps
  <2>2. ASSUME NEW c \in Conns, NEW p \in Peers, Connect(c, p) PROVE IInv'
    BY <2>2, ConnectKeeps
  <2>3. ASSUME NEW timed \in BOOLEAN, Accept(timed) PROVE IInv'
    BY <2>3, AcceptKeeps
  <2>4. ASSUME NEW c \in Conns, NEW n \in Sizes, Request("send", c, n, FALSE, FALSE) PROVE IInv'
    <3>1. n \in Nat /\ n > 0  BY DEF NetAssumption
    <3> QED  BY <2>4, <3>1, RequestKeeps
  <2>5. ASSUME NEW c \in Conns, NEW n \in Sizes, NEW line \in BOOLEAN, NEW timed \in BOOLEAN,
               Request("recv", c, n, line, timed)
        PROVE  IInv'
    <3>1. n \in Nat /\ n > 0  BY DEF NetAssumption
    <3> QED  BY <2>5, <3>1, RequestKeeps
  <2>6. ASSUME NEW c \in Conns, Request("close", c, 0, FALSE, FALSE) PROVE IInv'
    BY <2>6, RequestKeeps
  <2> QED  BY <1>2, <2>1, <2>2, <2>3, <2>4, <2>5, <2>6 DEF Calls
<1>3. CASE Program
  BY <1>3, PostKeeps, ReturnsKeeps, AskKeeps, WithdrawKeeps, AcceptedKeeps DEF Program
<1>4. CASE TimesOut \/ AcceptTimesOut
  BY <1>4, TimesOutKeeps, AcceptTimesOutKeeps
<1>5. ASSUME NEW p \in Peers, Syn(p) PROVE IInv'
  BY <1>5, SynKeeps
<1>6. ASSUME NEW c \in Conns, Network(c) PROVE IInv'
  <2>1. ASSUME NEW k \in 0..Mss, Connected(c, k) PROVE IInv'
    BY <2>1, ConnectedKeeps
  <2>2. ASSUME NEW k \in 0..Mss, NEW ack \in BOOLEAN, Fin(c, k, ack) PROVE IInv'
    BY <2>2, FinStep, NetKeeps
  <2>3. CASE PeerGets(c)
    BY <2>3, PeerGetsStep, NetKeeps
  <2>4. ASSUME NEW k \in 0..Mss, NEW ack \in BOOLEAN, NEW window \in Windows,
               Segment(c, k, ack, window)
        PROVE  IInv'
    BY <2>4, SegmentStep, NetKeeps
  <2>5. CASE Reset(c)  BY <2>5, ResetStep, NetKeeps
  <2>6. CASE LastAck(c)  BY <2>6, LastAckStep, NetKeeps
  <2>7. CASE PeerCloses(c)  BY <2>7, PeerClosesStep, NetKeeps
  <2> QED  BY <1>6, <2>1, <2>2, <2>3, <2>4, <2>5, <2>6, <2>7 DEF Network
<1>7. ASSUME NEW c \in Conns, Timers(c) PROVE IInv'
  <2>1. CASE Retransmit(c)
    BY <2>1, RetransmitStep, NetKeeps
  <2>2. CASE GiveUp(c)  BY <2>2, GiveUpStep, NetKeeps
  <2>3. CASE Forget(c)  BY <2>3, ForgetStep, NetKeeps
  <2> QED  BY <1>7, <2>1, <2>2, <2>3 DEF Timers
<1>8. ASSUME NEW c \in Conns, Poll(c) PROVE IInv'
  BY <1>8, PollStep, NetKeeps
<1> QED  BY <1>1, <1>2, <1>3, <1>4, <1>5, <1>6, <1>7, <1>8 DEF Next

\* The invariant holds in every state of the program and its network.
THEOREM Invariant == Spec => []IInv
<1>1. Init => IInv  BY NetAssumption, InitIInv
<1>2. IInv /\ [Next]_vars => IInv'  BY NetAssumption, NextIInv
<1> QED  BY <1>1, <1>2, PTL DEF Spec

\* accept returns each connection once, also one that comes just as the time is up.
THEOREM HandsOutOnce == Spec => []AcceptedOnce
<1>1. IInv => AcceptedOnce  BY DEF IInv
<1> QED  BY <1>1, Invariant, PTL

\* Data a peer was told has arrived reaches the program, but for the peers for which a
\* recv did not fit what came.
THEOREM NoDataLost == Spec => []NothingLost
<1>1. IInv => NothingLost  BY DEF IInv
<1> QED  BY <1>1, Invariant, PTL

-----------------------------------------------------------------------------
(* The end of a transfer.                                                  *)

\* The handler never makes the program go on: it only lets it.
LEMMA OnlyReturns ==
  ASSUME [Next]_vars, pc = "spin", pc' = "idle"
  PROVE  Returns
<1>1. CASE UNCHANGED vars  BY <1>1 DEF vars
<1>2. CASE Calls  BY <1>2 DEF Calls, Socket, Connect, Accept, Request, Call
<1>3. CASE Program  BY <1>3 DEF Program, Post, Ask, Withdraw, Accepted, Goto
<1>4. CASE TimesOut \/ AcceptTimesOut  BY <1>4 DEF TimesOut, AcceptTimesOut
<1>5. ASSUME NEW p \in Peers, Syn(p) PROVE FALSE  BY <1>5 DEF Syn, programVars
<1>6. ASSUME NEW c \in Conns, Network(c) PROVE FALSE
  <2>1. ASSUME NEW k \in 0..Mss, Connected(c, k) PROVE FALSE
    BY <2>1 DEF Connected, programVars
  <2>2. ASSUME NEW k \in 0..Mss, NEW ack \in BOOLEAN, Fin(c, k, ack) PROVE FALSE
    BY <2>2 DEF Fin, programVars
  <2>3. ASSUME NEW k \in 0..Mss, NEW ack \in BOOLEAN, NEW window \in Windows,
               Segment(c, k, ack, window)
        PROVE  FALSE
    <3>1. pc' = pc  BY <2>3, Zenon DEF Segment, programVars
    <3> QED  BY <3>1
  <2>4. CASE PeerGets(c)  BY <2>4 DEF PeerGets, programVars
  <2>5. CASE Reset(c) \/ LastAck(c) \/ PeerCloses(c)
    BY <2>5 DEF Reset, LastAck, PeerCloses, programVars
  <2> QED  BY <1>6, <2>1, <2>2, <2>3, <2>4, <2>5 DEF Network
<1>7. ASSUME NEW c \in Conns, Timers(c) \/ Poll(c) PROVE FALSE
  <2>1. pc' = pc
    BY <1>7, Zenon DEF Timers, Retransmit, GiveUp, Forget, Poll, programVars
  <2> QED  BY <2>1
<1> QED  BY <1>1, <1>2, <1>3, <1>4, <1>5, <1>6, <1>7 DEF Next

\* A call that returns says why it fell short.
LEMMA ReturnsExplain ==
  ASSUME IInv, Returns
  PROVE  ret'.err = "ok" => /\ me.call = "send" => ret'.done = me.n
                            /\ me.call = "recv" /\ ~me.line => ret'.done > 0
<1> DEFINE a == app[me.c]
<1>1. pc = "spin" /\ a.state = "idle"
      /\ ret' = [asked |-> me.n, done |-> me.n - a.len, err |-> a.res]
  BY DEF Returns
<1>2. me.c \in Conns  BY <1>1 DEF IInv, OneCall
<1>3. a.len \in Nat /\ me.n \in Nat  BY <1>2, Fields DEF IInv, TypeOK, CallType
<1>4. /\ me.call = "send" /\ a.res = "ok" => a.len = 0
      /\ me.call = "recv" /\ a.res = "ok" /\ ~me.line => a.len < me.n
  BY <1>1 DEF IInv, Account
<1> HIDE DEF a
<1> QED  BY <1>1, <1>3, <1>4

\* A transfer that ends short is explained by get_last_err.
THEOREM ShortIsExplained == Spec => ShortMeansError
<1>1. IInv /\ [Next]_vars =>
        [pc = "spin" /\ pc' = "idle" /\ ret'.err = "ok" =>
           /\ me.call = "send" => ret'.done = me.n
           /\ me.call = "recv" /\ ~me.line => ret'.done > 0]_vars
  BY OnlyReturns, ReturnsExplain
<1> QED  BY <1>1, Invariant, PTL DEF Spec, ShortMeansError

-----------------------------------------------------------------------------
(* Under a steady window: send tells the truth.                            *)

\* Runs of numbered bytes.
LEMMA BytesNone == ASSUME NEW from \in Nat, NEW n \in Nat
                   PROVE  Bytes(from, n) = <<>> <=> n = 0
<1>1. Len(Bytes(from, n)) = n  BY BytesType
<1>2. n = 0 => Bytes(from, n) = <<>>  BY NoBytes
<1> QED  BY <1>1, <1>2, NoBytes

\* A sequence of numbered bytes is a run.
LEMMA BytesAre == ASSUME NEW s \in Stream, NEW from \in Nat, NEW n \in Nat, Len(s) = n,
                         \A i \in 1..n : s[i] = from + i - 1
                  PROVE  s = Bytes(from, n)
<1>1. s \in Seq(Nat)  BY DEF Stream
<1>2. s = [i \in 1..n |-> s[i]]  BY <1>1
<1>3. Bytes(from, n) = [i \in 1..n |-> from + i - 1]  BY DEF Bytes
<1> QED  BY <1>2, <1>3

\* A run goes on with the run after it.
LEMMA BytesConcat == ASSUME NEW m \in Nat, NEW n \in Nat
                     PROVE  Bytes(1, m) \o Bytes(m + 1, n) = Bytes(1, m + n)
<1> DEFINE s == Bytes(1, m)
           u == Bytes(m + 1, n)
           w == s \o u
<1>1. /\ s \in Stream /\ u \in Stream /\ Len(s) = m /\ Len(u) = n
      /\ \A i \in 1..m : s[i] = 1 + i - 1
      /\ \A i \in 1..n : u[i] = m + 1 + i - 1
  <2>1. 1 \in Nat /\ m + 1 \in Nat  OBVIOUS
  <2> QED  BY <2>1, BytesType, Zenon
<1> HIDE DEF s, u
<1>2. s \in Seq(Nat) /\ u \in Seq(Nat)  BY <1>1 DEF Stream
<1>3. w \in Seq(Nat) /\ Len(w) = m + n  BY <1>1, <1>2, ConcatProperties
<1>4. \A i \in 1..(m + n) : w[i] = IF i <= m THEN s[i] ELSE u[i - m]
  <2>1. \A i \in 1..(Len(s) + Len(u)) : w[i] = IF i <= Len(s) THEN s[i] ELSE u[i - Len(s)]
    BY <1>2, ConcatProperties, Zenon
  <2> HIDE DEF w
  <2>2. Len(s) = m /\ Len(u) = n  BY <1>1
  <2> QED  BY <2>1, <2>2
<1> HIDE DEF w
<1>5. \A i \in 1..(m + n) : w[i] = 1 + i - 1
  <2> SUFFICES ASSUME NEW i \in 1..(m + n) PROVE w[i] = 1 + i - 1  OBVIOUS
  <2>1. CASE i <= m
    <3>1. i \in 1..m  BY <2>1
    <3> QED  BY <2>1, <3>1, <1>1, <1>4
  <2>2. CASE ~(i <= m)
    <3>1. i - m \in 1..n  BY <2>2
    <3>2. u[i - m] = m + 1 + (i - m) - 1  BY <3>1, <1>1
    <3> QED  BY <2>2, <3>2, <1>4
  <2> QED  BY <2>1, <2>2
<1>6. w \in Stream /\ m + n \in Nat  BY <1>3 DEF Stream
<1>7. w = Bytes(1, m + n)  BY <1>3, <1>5, <1>6, BytesAre
<1> QED  BY <1>7 DEF w, s, u

\* The length of what is in flight, or has been got.
LEMMA StreamLen == \A s \in Stream : Len(s) \in Nat /\ (s = <<>> <=> Len(s) = 0)
BY EmptySeq DEF Stream

\* Nothing sent and nothing got is even, unless a send is under way.
LEMMA EvenFresh ==
  ASSUME NEW n, NEW a, a.state # "send", NEW got, NEW t, Blank(t, got)
  PROVE  Even(n, a, got, t, 0)
BY NoBytes DEF Even, Blank

\* What the invariant says of one connection and its peer.
LEMMA PeerFacts ==
  ASSUME IInv, SInv, NEW c \in Conns, conn[c].peer \in Peers
  PROVE  /\ peer[conn[c].peer].got \in Stream
         /\ told[conn[c].peer].given \in Nat /\ told[conn[c].peer].sent \in Nat
         /\ told[conn[c].peer] \in ToldType
<1>1. peer[conn[c].peer] \in PeerType /\ told[conn[c].peer] \in ToldType
  BY DEF IInv, TypeOK
<1>2. 0 <= told[conn[c].peer].sent  BY DEF SInv, Books
<1> QED  BY <1>1, <1>2 DEF PeerType, ToldType

\* The call in progress has not sent less than nothing.
LEMMA PartFacts ==
  ASSUME IInv, NEW c \in Conns
  PROVE  Part(c) \in Nat
<1>1. CASE SendCall(c)
  <2>1. me.n \in Nat /\ app[c].len \in Nat /\ app[c].len <= me.n
    BY <1>1, Fields DEF SendCall, IInv, TypeOK, CallType, Account
  <2> QED  BY <1>1, <2>1 DEF Part
<1>2. CASE ~SendCall(c)  BY <1>2 DEF Part
<1> QED  BY <1>1, <1>2

\* A connection in its handshake has had no data, when no send is under way for it.
LEMMA HandshakeFresh ==
  ASSUME IInv, SInv, NEW c \in Conns, conn[c].tcp \in Handshake, app[c].state # "send"
  PROVE  Untouched(conn[c].peer)
<1> DEFINE p == conn[c].peer
<1>1. p \in Peers
  BY DEF IInv, OneSlot, Handshake, Alive
<1>2. CASE owner[c] # p
  <2>1. Coming(c)  BY <1>1, <1>2 DEF Coming
  <2> QED  BY <2>1 DEF SInv, Accounts
<1>3. CASE owner[c] = p
  <2>1. Even(conn[c], app[c], peer[p].got, told[p], Part(c))
    BY <1>1, <1>3 DEF SInv, Accounts, Balanced
  <2>2. peer[p].got = <<>>  BY DEF SInv, Accounts
  <2>3. told[p].given \in Nat /\ told[p].sent \in Nat  BY <1>1, PeerFacts
  <2>4. Part(c) \in Nat  BY PartFacts
  <2>5. Len(peer[p].got) = 0  BY <2>2
  <2>6. Len(peer[p].got) = told[p].given /\ told[p].sent + Part(c) <= Len(peer[p].got)
    BY <2>1 DEF Even
  <2> HIDE DEF p
  <2>7. told[p].given = 0 /\ told[p].sent = 0
    <3>1. \A g, s, k \in Nat : \A l : l = 0 /\ l = g /\ s + k <= l => g = 0 /\ s = 0  OBVIOUS
    <3> QED  BY <2>3, <2>4, <2>5, <2>6, <3>1, Zenon
  <2> QED  BY <2>2, <2>7 DEF Untouched, Blank, p
<1> QED  BY <1>2, <1>3

\* A step of the handler for connection c, which brings no data to its peer: what is left
\* to show is that c is in order.
LEMMA NetBalances ==
  ASSUME IInv, SInv, NEW c \in Conns, NEW cn, NEW a, NetStep(c, cn, a),
         \A p \in Peers : peer'[p].got = peer[p].got,
         cn.mss = Mss,
         cn.flight # <<>> => cn.tcp = "established" /\ a.state = "send",
         cn.seen => cn.flight # <<>>,
         conn[c].peer \in Peers /\ owner[c] = conn[c].peer =>
           Even(cn, a, peer[conn[c].peer].got, told[conn[c].peer],
                IF SendCall(c) THEN me.n - a.len ELSE 0)
  PROVE  SInv'
<1>i. Flight /\ Books /\ Fresh /\ Accounts  BY DEF SInv
<1>u. /\ accept' = accept /\ pc' = pc /\ me' = me /\ owner' = owner /\ told' = told
  BY DEF NetStep
<1>c. /\ conn'[c] = cn /\ \A d \in Conns : d # c => conn'[d] = conn[d]
      /\ app'[c] = a /\ \A d \in Conns : d # c => app'[d] = app[d]
  BY DEF NetStep, IInv, TypeOK
<1>p. /\ cn.peer = conn[c].peer /\ (cn.tcp \in Handshake => conn[c].tcp \in Handshake)
      /\ \A p \in Peers : peer'[p].met = peer[p].met
  BY DEF NetStep
<1>q. \A d \in Conns : conn[d].tcp \in Handshake => conn[d].peer \in Peers
  BY DEF IInv, OneSlot, Handshake, Alive
<1>1. Flight'
  BY <1>i, <1>c DEF Flight
<1>2. Books'
  BY <1>i, <1>u DEF Books
<1>3. Fresh'
  BY <1>i, <1>u, <1>p DEF Fresh, Untouched, Blank
<1>4. Accounts'
  <2> SUFFICES ASSUME NEW d \in Conns
               PROVE  /\ conn'[d].tcp \in Handshake => peer'[conn'[d].peer].got = <<>>
                      /\ Coming(d)' => Blank(told'[conn'[d].peer], peer'[conn'[d].peer].got)
                      /\ conn'[d].peer \in Peers /\ owner'[d] = conn'[d].peer => Balanced(d)'
    BY Zenon DEF Accounts, Untouched
  <2>1. conn'[d].peer = conn[d].peer /\ (conn'[d].tcp \in Handshake => conn[d].tcp \in Handshake)
    BY <1>c, <1>p
  <2>2. conn'[d].tcp \in Handshake => peer'[conn'[d].peer].got = <<>>
    BY <1>i, <1>q, <2>1 DEF Accounts
  <2>3. Coming(d)' => Blank(told'[conn'[d].peer], peer'[conn'[d].peer].got)
    <3>1. Coming(d)' => Coming(d) /\ conn[d].peer \in Peers
      BY <1>u, <2>1 DEF Coming, Handing
    <3>2. Coming(d) => Blank(told[conn[d].peer], peer[conn[d].peer].got)
      BY <1>i DEF Accounts, Untouched
    <3> QED  BY <1>u, <2>1, <3>1, <3>2
  <2>4. ASSUME conn'[d].peer \in Peers, owner'[d] = conn'[d].peer PROVE Balanced(d)'
    <3>1. conn[d].peer \in Peers /\ owner[d] = conn[d].peer  BY <2>1, <2>4, <1>u
    <3>2. peer'[conn'[d].peer].got = peer[conn[d].peer].got
          /\ told'[conn'[d].peer] = told[conn[d].peer]
      BY <2>1, <3>1, <1>u
    <3>3. CASE d = c
      <4>1. Part(c)' = IF SendCall(c) THEN me.n - a.len ELSE 0
        BY <1>u, <1>c DEF Part, SendCall
      <4>2. Even(cn, a, peer[conn[c].peer].got, told[conn[c].peer], Part(c)')
        BY <3>1, <3>3, <4>1
      <4> QED  BY <3>2, <3>3, <4>2, <1>c DEF Balanced
    <3>4. CASE d # c
      <4>1. conn'[d] = conn[d] /\ app'[d] = app[d]  BY <3>4, <1>c
      <4>2. Part(d)' = Part(d)  BY <1>u, <4>1 DEF Part, SendCall
      <4>3. Even(conn[d], app[d], peer[conn[d].peer].got, told[conn[d].peer], Part(d))
        BY <1>i, <3>1 DEF Accounts, Balanced
      <4> QED  BY <3>2, <4>1, <4>2, <4>3 DEF Balanced
    <3> QED  BY <3>3, <3>4
  <2> QED  BY <2>2, <2>3, <2>4
<1> QED  BY <1>1, <1>2, <1>3, <1>4 DEF SInv

\* What an answer leaves of the request of a connection that is not in a send, or whose
\* send ends with an error.
LEMMA NoMoreSent ==
  ASSUME IInv, NEW c \in Conns, NEW a, Serves(app[c], a),
         app[c].state = "send" => a.len = app[c].len
  PROVE  (IF SendCall(c) THEN me.n - a.len ELSE 0) = Part(c)
<1>1. CASE SendCall(c)
  <2>1. app[c].state \in {"idle", "send"}
    BY <1>1 DEF SendCall, IInv, OneCall
  <2>2. a.len = app[c].len
    BY <2>1 DEF Serves
  <2> QED  BY <1>1, <2>2 DEF Part
<1>2. CASE ~SendCall(c)  BY <1>2 DEF Part
<1> QED  BY <1>1, <1>2

\* The end of a connection.
LEMMA EndBalances ==
  ASSUME NetAssumption, IInv, SInv, NEW c \in Conns, NEW a,
         NEW tcp \in TcpStates, tcp \notin Handshake, tcp # "established",
         NetStep(c, EndedConn(c, tcp), a),
         app[c].state = "send" => a.len = app[c].len,
         \A p \in Peers : peer'[p].got = peer[p].got
  PROVE  SInv'
<1> DEFINE cn == EndedConn(c, tcp)
<1>1. conn[c].peer \in Hosts  BY Fields DEF IInv, TypeOK
<1>2. /\ cn.tcp = tcp /\ cn.mss = Mss /\ cn.flight = <<>> /\ ~cn.seen
  BY <1>1, NewConn DEF EndedConn
<1>3. Serves(app[c], a) /\ NetStep(c, cn, a)  BY DEF NetStep
<1>4. (IF SendCall(c) THEN me.n - a.len ELSE 0) = Part(c)
  BY <1>3, NoMoreSent
<1>5. ASSUME conn[c].peer \in Peers, owner[c] = conn[c].peer
      PROVE  Even(cn, a, peer[conn[c].peer].got, told[conn[c].peer], Part(c))
  <2>1. Even(conn[c], app[c], peer[conn[c].peer].got, told[conn[c].peer], Part(c))
    BY <1>5 DEF SInv, Accounts, Balanced
  <2> HIDE DEF cn
  <2> QED  BY <2>1, <1>2 DEF Even
<1> HIDE DEF cn
<1> QED  BY <1>2, <1>3, <1>4, <1>5, NetBalances

\* The callback that is told of an end gives a send no more room.
LEMMA EndedLen ==
  ASSUME NEW c \in Conns, NEW flags, flags \cap EndFlags # {}, IInv
  PROVE  app[c].state = "send" => EndedApp(c, flags).len = app[c].len
<1>1. app[c] \in AppType  BY DEF IInv, TypeOK
<1>2. SUFFICES ASSUME app[c].state = "send" PROVE EndedApp(c, flags).len = app[c].len
  OBVIOUS
<1> DEFINE x1 == [app[c] EXCEPT !.res = Failed(flags)]
           x  == [x1 EXCEPT !.state = "idle"]
<1>3. EndedApp(c, flags) = x
  BY <1>2, Zenon DEF EndedApp, Callback, Answer, EndFlags
<1>4. x1 \in AppType /\ x1.len = app[c].len
  <2>1. Failed(flags) \in Errors  BY DEF Failed, Errors
  <2> QED  BY <1>1, <2>1 DEF AppType
<1> HIDE DEF x1
<1>5. x.len = x1.len  BY <1>4 DEF AppType
<1> HIDE DEF x
<1> QED  BY <1>3, <1>4, <1>5

\* A reset.
LEMMA ResetBalances ==
  ASSUME NetAssumption, IInv, SInv, NEW c \in Conns, Reset(c)
  PROVE  SInv'
<1>1. NetStep(c, EndedConn(c, "closed"), EndedApp(c, {"aborted"}))  BY ResetStep
<1>2. {"aborted"} \cap EndFlags # {} /\ "closed" \in TcpStates /\ "closed" \notin Handshake
  BY DEF EndFlags, TcpStates, Handshake
<1>3. \A p \in Peers : peer'[p].got = peer[p].got  BY DEF Reset
<1> QED  BY <1>1, <1>2, <1>3, EndedLen, EndBalances

\* The last acknowledgement.
LEMMA LastAckBalances ==
  ASSUME NetAssumption, IInv, SInv, NEW c \in Conns, LastAck(c)
  PROVE  SInv'
<1>1. NetStep(c, EndedConn(c, "closed"), EndedApp(c, {"closed"}))  BY LastAckStep
<1>2. {"closed"} \cap EndFlags # {} /\ "closed" \in TcpStates /\ "closed" \notin Handshake
  BY DEF EndFlags, TcpStates, Handshake
<1>3. \A p \in Peers : peer'[p].got = peer[p].got  BY DEF LastAck
<1> QED  BY <1>1, <1>2, <1>3, EndedLen, EndBalances

\* A connection is given up.
LEMMA GiveUpBalances ==
  ASSUME NetAssumption, IInv, SInv, NEW c \in Conns, GiveUp(c)
  PROVE  SInv'
<1>1. NetStep(c, EndedConn(c, "closed"), EndedApp(c, {"timedout"}))  BY GiveUpStep
<1>2. {"timedout"} \cap EndFlags # {} /\ "closed" \in TcpStates /\ "closed" \notin Handshake
  BY DEF EndFlags, TcpStates, Handshake
<1>3. \A p \in Peers : peer'[p].got = peer[p].got  BY DEF GiveUp
<1> QED  BY <1>1, <1>2, <1>3, EndedLen, EndBalances

\* The peer closes a connection the board has closed.
LEMMA PeerClosesBalances ==
  ASSUME NetAssumption, IInv, SInv, NEW c \in Conns, PeerCloses(c)
  PROVE  SInv'
<1>1. PICK tcp \in {"closing", "time_wait"} : NetStep(c, EndedConn(c, tcp), EndedApp(c, {"closed"}))
  BY PeerClosesStep
<1>2. {"closed"} \cap EndFlags # {} /\ tcp \in TcpStates /\ tcp \notin Handshake
      /\ tcp # "established"
  BY DEF EndFlags, TcpStates, Handshake, Alive
<1>3. \A p \in Peers : peer'[p].got = peer[p].got  BY DEF PeerCloses
<1> QED  BY <1>1, <1>2, <1>3, EndedLen, EndBalances

\* A connection goes on to its end without the callback.
LEMMA ForgetBalances ==
  ASSUME NetAssumption, IInv, SInv, NEW c \in Conns, Forget(c)
  PROVE  SInv'
<1>1. PICK tcp \in {"fin_wait_2", "time_wait", "closed"} : NetStep(c, EndedConn(c, tcp), app[c])
  BY ForgetStep
<1>2. tcp \in TcpStates /\ tcp \notin Handshake /\ tcp # "established"
  BY DEF TcpStates, Handshake, Alive
<1>3. \A p \in Peers : peer'[p].got = peer[p].got  BY DEF Forget
<1> QED  BY <1>1, <1>2, <1>3, EndBalances

\* The peer closes.
LEMMA FinBalances ==
  ASSUME NetAssumption, IInv, SInv, NEW c \in Conns, NEW k \in 0..Mss, NEW ack \in BOOLEAN,
         Fin(c, k, ack)
  PROVE  SInv'
<1>1. NetStep(c, EndedConn(c, "last_ack"), EndedApp(c, {"closed"}))  BY FinStep
<1>2. {"closed"} \cap EndFlags # {} /\ "last_ack" \in TcpStates /\ "last_ack" \notin Handshake
  BY DEF EndFlags, TcpStates, Handshake, Alive
<1>3. \A p \in Peers : peer'[p].got = peer[p].got
  <2>1. peer' = [peer EXCEPT ![conn[c].peer].acked = @ + k]  BY Zenon DEF Fin
  <2>2. peer \in [Peers -> PeerType]  BY DEF IInv, TypeOK
  <2>3. conn[c].peer \in Peers  BY DEF Fin, In, IInv, OneSlot, Alive
  <2>4. [peer[conn[c].peer] EXCEPT !.acked = @ + k].got = peer[conn[c].peer].got
    BY <2>2, <2>3 DEF PeerType
  <2> QED  BY <2>1, <2>2, <2>3, <2>4
<1> QED  BY <1>1, <1>2, <1>3, EndedLen, EndBalances

\* A request to send, while the handler serves it.
LEMMA SendState ==
  ASSUME IInv, SInv, NEW c \in Conns, app[c].state = "send"
  PROVE  /\ pc = "spin" /\ me.c = c /\ me.call = "send" /\ SendCall(c)
         /\ app[c].res = "ok" /\ app[c].len > 0 /\ app[c].len <= me.n /\ me.n \in Nat
         /\ owner[c] \in Peers /\ told[owner[c]].sent + me.n <= told[owner[c]].given
         /\ app[c] \in AppType /\ app[c].len \in Nat /\ app[c].ptr \in Nat
<1>1. pc = "spin" /\ me.c = c /\ me.call = "send"
  BY DEF IInv, OneCall
<1>2. app[c] \in AppType /\ me.n \in Nat  BY DEF IInv, TypeOK, CallType
<1>3. app[c].len \in Nat /\ app[c].ptr \in Nat  BY <1>2, Fields
<1>4. app[c].res = "ok" /\ app[c].len <= me.n /\ app[c].len # 0
  BY <1>1 DEF IInv, Account
<1>5. owner[c] \in Peers  BY <1>1 DEF IInv, OneCall
<1>6. told[owner[c]].sent + me.n <= told[owner[c]].given
  BY <1>1 DEF SInv, Books
<1> QED  BY <1>1, <1>2, <1>3, <1>4, <1>5, <1>6 DEF SendCall

\* Outside a send nothing is in flight.
LEMMA NoFlight ==
  ASSUME SInv, NEW c \in Conns
  PROVE  /\ conn[c].mss = Mss
         /\ app[c].state # "send" \/ conn[c].tcp # "established" =>
              conn[c].flight = <<>> /\ ~conn[c].seen
         /\ conn[c].seen => conn[c].flight # <<>>
BY DEF SInv, Flight

\* An answer to a connection that is not in a send.
LEMMA OtherBalances ==
  ASSUME NetAssumption, IInv, SInv, NEW c \in Conns, conn[c].tcp = "established",
         app[c].state # "send", NEW cn, NEW a, NetStep(c, cn, a),
         cn.mss = Mss, cn.flight = <<>>, ~cn.seen,
         \A p \in Peers : peer'[p].got = peer[p].got
  PROVE  SInv'
<1>1. Serves(app[c], a)  BY DEF NetStep
<1>2. a.state # "send"  BY <1>1 DEF Serves
<1>3. (IF SendCall(c) THEN me.n - a.len ELSE 0) = Part(c)
  BY <1>1, NoMoreSent
<1>4. ASSUME conn[c].peer \in Peers, owner[c] = conn[c].peer
      PROVE  Even(cn, a, peer[conn[c].peer].got, told[conn[c].peer], Part(c))
  <2>1. Even(conn[c], app[c], peer[conn[c].peer].got, told[conn[c].peer], Part(c))
    BY <1>4 DEF SInv, Accounts, Balanced
  <2> QED  BY <2>1, <1>2 DEF Even
<1> QED  BY <1>3, <1>4, NetBalances

\* The sums of a send, before and after an acknowledgement of k of its bytes: s bytes
\* were sent before it, it is for z bytes, g were given, l of them, from the p-th on, are
\* left, and the peer has got h.
SumsBefore(s, z, g, l, p, k, h) ==
  /\ s \in Int /\ z \in Nat /\ g \in Nat /\ l \in Nat /\ p \in Nat /\ k \in Nat /\ h \in Nat
  /\ s + z <= g /\ p + l = g + 1 /\ h = p - 1 + k
SumsAfter(s, z, g, l, p, k, h) ==
  /\ s + (z - (l - k)) <= h
  /\ (p + k) + (l - k) = g + 1 /\ h = (p + k) - 1 + 0
  /\ k = l => h = g

\* An acknowledgement keeps the sums.
LEMMA EvenSums ==
  \A s, z, g, l, p, k, h : SumsBefore(s, z, g, l, p, k, h) => SumsAfter(s, z, g, l, p, k, h)
BY DEF SumsBefore, SumsAfter

\* What send has told of is even after an acknowledgement of all that was in flight.
LEMMA EvenAcked ==
  ASSUME NetAssumption, NEW n \in ConnType, NEW m \in ConnType, NEW a \in AppType,
         NEW b \in AppType, NEW got \in Stream, NEW t \in ToldType, NEW size \in Nat,
         NEW acked \in Nat,
         n.tcp = "established", a.state = "send", t.sent + size <= t.given,
         a.len <= size, acked <= a.len,
         Even(n, a, got, t, size - a.len),
         acked = IF n.seen THEN Len(n.flight) ELSE 0,
         b.ptr = a.ptr + acked, b.len = a.len - acked,
         b.state = IF acked = a.len THEN "idle" ELSE "send",
         m.flight = Bytes(b.ptr, Upto(b.len, Mss)), ~m.seen
  PROVE  Even(m, b, got, t, size - b.len)
<1>1. /\ a.len \in Nat /\ a.ptr \in Nat /\ t.sent \in Int /\ t.given \in Nat /\ Len(got) \in Nat
  BY Fields, StreamLen DEF ToldType
<1>2. /\ got = Bytes(1, Len(got)) /\ a.ptr + a.len = t.given + 1
      /\ Len(got) = a.ptr - 1 + acked
  BY DEF Even
<1>n. /\ t.sent + (size - (a.len - acked)) <= Len(got)
      /\ (a.ptr + acked) + (a.len - acked) = t.given + 1
      /\ Len(got) = (a.ptr + acked) - 1 + 0
      /\ acked = a.len => Len(got) = t.given
  <2>1. SumsBefore(t.sent, size, t.given, a.len, a.ptr, acked, Len(got))
    BY <1>1, <1>2 DEF SumsBefore
  <2>2. SumsAfter(t.sent, size, t.given, a.len, a.ptr, acked, Len(got))
    BY <2>1, EvenSums, Zenon
  <2> QED  BY <2>2 DEF SumsAfter
<1>3. t.sent + (size - b.len) <= Len(got)
  BY <1>n, Zenon
<1>4. b.state = "send" => b.ptr + b.len = t.given + 1 /\ Len(got) = b.ptr - 1 + 0
  BY <1>n, Zenon
<1>5. b.state # "send" => Len(got) = t.given
  BY <1>n, Zenon
<1> QED  BY <1>2, <1>3, <1>4, <1>5 DEF Even

\* The callback of a send that nothing is acknowledged of gives what is to be in flight.
LEMMA SendsAgain ==
  ASSUME NetAssumption, IInv, SInv, NEW c \in Conns, app[c].state = "send",
         NEW flags \in {{"poll"}, {"rexmit"}}
  PROVE  LET r == Callback(app[c], flags, conn[c].mss, 0, 0) IN
         /\ r \in AnswerType /\ r.does = "nothing"
         /\ r.app.ptr = app[c].ptr /\ r.app.len = app[c].len /\ r.app.state = "send"
         /\ r.send = Bytes(app[c].ptr, Upto(app[c].len, Mss)) /\ r.send # <<>>
<1> DEFINE r == Callback(app[c], flags, conn[c].mss, 0, 0)
           u == Upto(app[c].len, Mss)
<1>1. /\ app[c] \in AppType /\ conn[c].mss = Mss
      /\ app[c].len \in Nat /\ app[c].len > 0 /\ app[c].ptr \in Nat
  BY NoFlight, SendState DEF IInv, TypeOK
<1>2. r = Sending(app[c], 0, Mss)
  BY <1>1 DEF Callback
<1>3. LET s == Sending(app[c], 0, Mss) IN
      /\ s \in AnswerType /\ s.does = "nothing"
      /\ s.app.ptr = app[c].ptr + 0 /\ s.app.len = app[c].len - 0
      /\ s.app.state = (IF 0 = app[c].len THEN "idle" ELSE "send")
      /\ s.send = Bytes(app[c].ptr + 0, Upto(app[c].len - 0, Mss))
  BY <1>1, SendingFacts DEF NetAssumption
<1> HIDE DEF r
<1>4. /\ r \in AnswerType /\ r.does = "nothing"
      /\ r.app.ptr = app[c].ptr /\ r.app.len = app[c].len /\ r.app.state = "send"
      /\ r.send = Bytes(app[c].ptr, u)
  BY <1>1, <1>2, <1>3
<1>5. u \in Nat /\ u > 0  BY <1>1 DEF Upto, NetAssumption
<1> HIDE DEF u
<1>6. Len(r.send) = u
  <2>1. Len(Bytes(app[c].ptr, u)) = u  BY <1>1, <1>5, BytesType, Zenon
  <2> QED  BY <1>4, <2>1
<1>7. r.send # <<>>  BY <1>5, <1>6, NoBytes
<1> QED  BY <1>4, <1>7 DEF r, u

\* What is sent again is what was in flight.
LEMMA ResentSame ==
  ASSUME NEW n \in ConnType, NEW r \in AnswerType, NEW from \in Nat, NEW u \in Nat,
         n.flight = Bytes(from, u), r.send = Bytes(from, u)
  PROVE  Resent(n, r) = n.flight
<1> DEFINE f == Resent(n, r)
<1>1. /\ Len(n.flight) = u /\ \A i \in 1..u : n.flight[i] = from + i - 1
      /\ Len(r.send) = u /\ \A i \in 1..u : r.send[i] = from + i - 1
  BY BytesType
<1>2. /\ f \in Stream /\ Len(f) = u
      /\ \A i \in 1..u : f[i] = IF n.seen THEN n.flight[i]
                               ELSE IF i <= Len(r.send) THEN r.send[i] ELSE Junk
  BY <1>1, ResentFacts
<1> HIDE DEF f
<1>3. \A i \in 1..u : f[i] = from + i - 1
  BY <1>1, <1>2
<1>4. f = Bytes(from, u)  BY <1>2, <1>3, BytesAre
<1> QED  BY <1>4 DEF f

\* A send whose data goes out again keeps the accounts.
LEMMA AgainBalances ==
  ASSUME NetAssumption, IInv, SInv, NEW c \in Conns, app[c].state = "send",
         conn[c].tcp = "established", conn[c].flight # <<>>,
         NEW r \in AnswerType, r.send = Bytes(app[c].ptr, Upto(app[c].len, Mss)),
         r.app.ptr = app[c].ptr, r.app.len = app[c].len, r.app.state = "send",
         NEW n, NetStep(c, n, r.app),
         n.mss = Mss, n.tcp = "established", n.seen = conn[c].seen, n.flight = Resent(conn[c], r),
         \A q \in Peers : peer'[q].got = peer[q].got
  PROVE  SInv'
<1> DEFINE p == conn[c].peer
           a == r.app
           u == Upto(app[c].len, Mss)
<1>1. /\ conn[c] \in ConnType /\ SendCall(c)
      /\ app[c].len \in Nat /\ app[c].len > 0 /\ app[c].ptr \in Nat
  BY SendState DEF IInv, TypeOK
<1>2. u \in Nat  BY <1>1 DEF Upto, NetAssumption
<1>3. n.flight # <<>>
  <2>1. Len(n.flight) = Len(conn[c].flight) /\ conn[c].flight \in Stream /\ n.flight \in Stream
    BY <1>1, Fields, ResentFacts
  <2> QED  BY <2>1, StreamLen
<1> HIDE DEF a
<1>4. ASSUME p \in Peers, owner[c] = p
      PROVE  Even(n, a, peer[p].got, told[p], me.n - a.len)
  <2>1. Even(conn[c], app[c], peer[p].got, told[p], me.n - app[c].len)
    BY <1>1, <1>4, Zenon DEF SInv, Accounts, Balanced, Part
  <2>2. conn[c].flight = Bytes(app[c].ptr, u)
    BY <2>1 DEF Even
  <2> HIDE DEF u
  <2>3. n.flight = conn[c].flight  BY <1>1, <1>2, <2>2, ResentSame DEF u
  <2> QED  BY <2>1, <2>3, Zenon DEF Even, a
<1> QED  BY <1>1, <1>3, <1>4, NetBalances DEF a

\* A poll.
LEMMA PollBalances ==
  ASSUME NetAssumption, IInv, SInv, NEW c \in Conns, Poll(c)
  PROVE  SInv'
<1> DEFINE r  == Callback(app[c], {"poll"}, conn[c].mss, 0, 0)
           cn == AppSend(conn[c], r)
           a  == r.app
<1>1. NetStep(c, cn, a)  BY PollStep
<1>2. conn[c].tcp = "established" /\ \A p \in Peers : peer'[p].got = peer[p].got
  BY DEF Poll, In
<1>3. /\ app[c] \in AppType /\ conn[c] \in ConnType /\ conn[c].mss = Mss
      /\ conn[c].mss \in Nat
  BY NoFlight, Fields DEF IInv, TypeOK
<1>4. Lawful(app[c], {"poll"}, 0, r)
  BY <1>3, CallbackFacts
<1>5. CASE app[c].state # "send"
  <2>1. r.send = <<>> /\ r \in AnswerType
    BY <1>4, <1>5, Zenon DEF Lawful
  <2>2. conn[c].flight = <<>> /\ ~conn[c].seen  BY <1>5, NoFlight
  <2> HIDE DEF r
  <2>3. cn.mss = Mss /\ cn.flight = <<>> /\ ~cn.seen
    BY <2>1, <2>2, <1>3, AppSendFacts
  <2> HIDE DEF cn, a
  <2> QED  BY <1>1, <1>2, <1>5, <2>3, OtherBalances
<1>6. CASE app[c].state = "send"
  <2>1. /\ SendCall(c) /\ me.n \in Nat /\ app[c].len \in Nat /\ app[c].len > 0
        /\ app[c].len <= me.n /\ app[c].ptr \in Nat
        /\ told[owner[c]].sent + me.n <= told[owner[c]].given
    BY <1>6, SendState
  <2>2. /\ r \in AnswerType /\ r.does = "nothing"
        /\ a.ptr = app[c].ptr /\ a.len = app[c].len /\ a.state = "send"
        /\ r.send = Bytes(app[c].ptr, Upto(app[c].len, Mss)) /\ r.send # <<>>
    BY <1>6, SendsAgain
  <2>3. a \in AppType  BY <1>1 DEF NetStep
  <2> HIDE DEF r
  <2>4. /\ cn \in ConnType /\ cn.mss = Mss /\ cn.tcp = "established" /\ cn.seen = conn[c].seen
        /\ cn.flight = IF conn[c].flight = <<>> THEN r.send ELSE Resent(conn[c], r)
    BY <2>2, <1>2, <1>3, AppSendFacts
  <2> HIDE DEF cn
  <2>5. CASE conn[c].flight # <<>>
    BY <1>1, <1>2, <1>6, <2>2, <2>4, <2>5, AgainBalances
  <2>6. CASE conn[c].flight = <<>>
    <3> HIDE DEF a
    <3>1. ~conn[c].seen  BY <2>6, NoFlight
    <3>2. ASSUME conn[c].peer \in Peers, owner[c] = conn[c].peer
          PROVE  Even(cn, a, peer[conn[c].peer].got, told[conn[c].peer], me.n - a.len)
      <4>1. Even(conn[c], app[c], peer[conn[c].peer].got, told[conn[c].peer], me.n - app[c].len)
        BY <3>2, <2>1 DEF SInv, Accounts, Balanced, Part
      <4>2. peer[conn[c].peer].got \in Stream /\ told[conn[c].peer] \in ToldType
        BY <3>2, PeerFacts
      <4>3. a.ptr = app[c].ptr + 0 /\ a.len = app[c].len - 0 /\ 0 <= app[c].len
            /\ a.state = (IF 0 = app[c].len THEN "idle" ELSE "send")
        BY <2>1, <2>2
      <4>4. 0 = IF conn[c].seen THEN Len(conn[c].flight) ELSE 0  BY <3>1
      <4>5. cn.flight = Bytes(a.ptr, Upto(a.len, Mss)) /\ ~cn.seen  BY <2>2, <2>4, <2>6, <3>1
      <4> QED  BY <1>2, <1>3, <1>6, <2>1, <2>3, <2>4, <3>2, <4>1, <4>2, <4>3, <4>4, <4>5, EvenAcked
    <3> QED  BY <1>1, <1>2, <2>1, <2>2, <2>4, <3>1, <3>2, NetBalances
  <2> QED  BY <2>5, <2>6
<1> QED  BY <1>5, <1>6

\* A retransmission.
LEMMA RetransmitBalances ==
  ASSUME NetAssumption, IInv, SInv, NEW c \in Conns, Retransmit(c)
  PROVE  SInv'
<1> DEFINE r == Callback(app[c], {"rexmit"}, conn[c].mss, 0, 0)
           p == conn[c].peer
<1>1. \A q \in Peers : peer'[q].got = peer[q].got
  BY DEF Retransmit
<1>2. /\ app[c] \in AppType /\ conn[c] \in ConnType /\ conn[c].mss = Mss
      /\ conn[c].nrtx \in Nat
  BY NoFlight, Fields DEF IInv, TypeOK
<1>3. CASE ~In(c, {"established"}) /\ NetStep(c, [conn[c] EXCEPT !.nrtx = @ + 1], app[c])
  <2> DEFINE n == [conn[c] EXCEPT !.nrtx = @ + 1]
  <2>1. conn[c].nrtx + 1 \in Nat  BY <1>2
  <2>2. /\ n.mss = Mss /\ n.tcp = conn[c].tcp /\ n.flight = conn[c].flight /\ n.seen = conn[c].seen
    BY <1>2, <2>1 DEF ConnType
  <2>3. NetStep(c, n, app[c])  BY <1>3
  <2> HIDE DEF n
  <2>4. n.flight = <<>> /\ ~n.seen  BY <1>3, <2>2, NoFlight DEF In
  <2>5. p \in Peers /\ owner[c] = p =>
          Even(n, app[c], peer[p].got, told[p], IF SendCall(c) THEN me.n - app[c].len ELSE 0)
    <3>1. p \in Peers /\ owner[c] = p => Even(conn[c], app[c], peer[p].got, told[p], Part(c))
      BY DEF SInv, Accounts, Balanced
    <3>2. p \in Peers /\ owner[c] = p => Even(n, app[c], peer[p].got, told[p], Part(c))
      BY <3>1, <2>2, Zenon DEF Even
    <3> QED  BY <3>2, Zenon DEF Part
  <2> QED  BY <1>1, <2>2, <2>3, <2>4, <2>5, NetBalances
<1>4. CASE In(c, {"established"}) /\ NetStep(c, Again(conn[c], r), r.app)
  <2> DEFINE n == Again(conn[c], r)
  <2>1. conn[c].flight # <<>> /\ conn[c].tcp = "established"
    BY <1>4 DEF Retransmit, Outstanding, In
  <2>2. app[c].state = "send"  BY <2>1, NoFlight
  <2>3. /\ r \in AnswerType
        /\ r.app.ptr = app[c].ptr /\ r.app.len = app[c].len /\ r.app.state = "send"
        /\ r.send = Bytes(app[c].ptr, Upto(app[c].len, Mss))
    BY <2>2, SendsAgain
  <2>4. NetStep(c, n, r.app)  BY <1>4
  <2> HIDE DEF r
  <2>5. /\ n.mss = Mss /\ n.tcp = "established" /\ n.seen = conn[c].seen
        /\ n.flight = Resent(conn[c], r)
    BY <1>2, <2>1, <2>3, AgainFacts
  <2> HIDE DEF n
  <2> QED  BY <1>1, <2>1, <2>2, <2>3, <2>4, <2>5, AgainBalances
<1> QED  BY <1>3, <1>4, RetransmitStep

\* A segment, and what it acknowledges.
LEMMA SegmentBalances ==
  ASSUME NetAssumption, Steady, IInv, SInv, NEW c \in Conns, NEW k \in 0..Mss,
         NEW ack \in BOOLEAN, NEW window \in Windows, Segment(c, k, ack, window)
  PROVE  SInv'
<1> DEFINE r  == SegReply(c, k, ack, window)
           n  == SegConn(conn[c], ack, SegMss(window))
           f  == SegFlags(c, k, ack)
           p  == conn[c].peer
           cn == SegAfter(c, k, ack, window)
           a  == SegApp(c, k, ack, window)
<1>1. conn[c].tcp = "established" /\ (ack => conn[c].seen)
  BY DEF Segment, In
<1>2. /\ SegMss(window) \in Nat /\ app[c] \in AppType /\ conn[c] \in ConnType /\ p \in Peers
      /\ n \in ConnType /\ Lawful(app[c], f, k, r)
  BY <1>1, SegmentFacts
<1>3. SegMss(window) = Mss
  BY DEF SegMss, Upto, Steady, NetAssumption
<1>4. NetStep(c, cn, a)
  BY SegmentStep
<1>5. \A q \in Peers : peer'[q].got = peer[q].got
  <2>1. peer' = [peer EXCEPT ![p].acked = IF SegTakes(c, k) THEN @ + k ELSE @]
    BY Zenon DEF Segment, SegTakes
  <2>2. peer \in [Peers -> PeerType] /\ peer[p] \in PeerType  BY <1>2 DEF IInv, TypeOK
  <2> DEFINE m == IF SegTakes(c, k) THEN peer[p].acked + k ELSE peer[p].acked
             x == [peer[p] EXCEPT !.acked = m]
  <2>3. peer' = [peer EXCEPT ![p] = x]  BY <2>1, <2>2, <1>2
  <2> HIDE DEF m
  <2>4. x.got = peer[p].got  BY <2>2 DEF PeerType
  <2> HIDE DEF x
  <2> QED  BY <2>2, <2>3, <2>4
<1>6. /\ n.tcp = "established" /\ n.mss = Mss
      /\ n.flight = (IF ack THEN <<>> ELSE conn[c].flight) /\ (n.seen <=> ~ack /\ conn[c].seen)
  BY <1>1, <1>2, <1>3, SegConnFacts
<1>7. cn = IF f = {} THEN n ELSE AppSend(n, r)
  BY DEF SegAfter
<1>8. a = IF f = {} THEN app[c] ELSE r.app
  BY DEF SegApp
<1>9. r \in AnswerType /\ (r.send # <<>> => app[c].state = "send")
  BY <1>2, Zenon DEF Lawful
<1>10. owner[c] = p => Even(conn[c], app[c], peer[p].got, told[p], Part(c))
  BY <1>2 DEF SInv, Accounts, Balanced
<1>11. CASE app[c].state # "send"
  <2>1. conn[c].flight = <<>> /\ ~conn[c].seen /\ ~ack
    BY <1>1, <1>11, NoFlight
  <2>2. n.flight = <<>> /\ ~n.seen /\ r.send = <<>>
    BY <1>6, <1>9, <1>11, <2>1
  <2> HIDE DEF r, n, f, cn, a
  <2>3. cn.mss = Mss /\ cn.flight = <<>> /\ ~cn.seen
    BY <1>2, <1>6, <1>7, <1>9, <2>2, AppSendFacts
  <2> QED  BY <1>1, <1>4, <1>5, <1>11, <2>3, OtherBalances
<1>12. CASE app[c].state = "send"
  <2>1. /\ SendCall(c) /\ me.n \in Nat /\ app[c].len \in Nat /\ app[c].len > 0
        /\ app[c].len <= me.n /\ app[c].ptr \in Nat
        /\ told[owner[c]].sent + me.n <= told[owner[c]].given
    BY <1>12, SendState
  <2>2. Part(c) = me.n - app[c].len  BY <2>1 DEF Part
  <2>3. CASE ack
    <3> DEFINE acked == Upto(app[c].len, Mss)
    <3>1. f # {} /\ f # {"newdata"} /\ "acked" \in f /\ f \cap EndFlags = {}
      BY <2>3 DEF SegFlags, EndFlags
    <3>2. r = Sending(app[c], acked, Mss)
      <4>1. r = Callback(app[c], f, SegMss(window), peer[p].acked + 1, k)
        BY DEF SegReply
      <4> HIDE DEF r, f
      <4> QED  BY <1>3, <1>12, <3>1, <4>1 DEF Callback, EndFlags, Acked
    <3>3. acked \in Nat /\ acked <= app[c].len /\ Mss \in Nat
      BY <2>1 DEF Upto, NetAssumption
    <3> HIDE DEF acked
    <3>4. LET s == Sending(app[c], acked, Mss) IN
          /\ s \in AnswerType /\ Serves(app[c], s.app) /\ s.used = 0 /\ s.does = "nothing"
          /\ s.app.ptr = app[c].ptr + acked /\ s.app.len = app[c].len - acked
          /\ s.app.res = app[c].res
          /\ s.app.state = (IF acked = app[c].len THEN "idle" ELSE "send")
          /\ s.send = Bytes(app[c].ptr + acked, Upto(app[c].len - acked, Mss))
      BY <1>2, <1>12, <3>3, SendingFacts
    <3> HIDE DEF r, n, f
    <3>5. /\ r.does = "nothing" /\ a = r.app
          /\ a.ptr = app[c].ptr + acked /\ a.len = app[c].len - acked
          /\ a.state = (IF acked = app[c].len THEN "idle" ELSE "send")
          /\ r.send = Bytes(a.ptr, Upto(a.len, Mss))
      <4>1. a = r.app  BY <1>8, <3>1
      <4> HIDE DEF a
      <4> QED  BY <3>2, <3>4, <4>1
    <3>6. a \in AppType  BY <1>4 DEF NetStep
    <3> HIDE DEF a
    <3>7. /\ cn \in ConnType /\ cn.mss = Mss /\ cn.tcp = "established" /\ ~cn.seen
          /\ cn.flight = r.send
      <4>1. cn = AppSend(n, r)  BY <1>7, <3>1
      <4>2. n.flight = <<>> /\ ~n.seen  BY <1>6, <2>3
      <4> HIDE DEF cn
      <4> QED  BY <1>2, <1>6, <1>9, <3>5, <4>1, <4>2, AppSendFacts
    <3> HIDE DEF cn
    <3>8. cn.flight # <<>> => a.state = "send"
      <4>1. ASSUME acked = app[c].len PROVE r.send = <<>>
        <5>1. a.ptr \in Nat /\ a.len = 0 /\ Upto(a.len, Mss) = 0
          BY <2>1, <3>3, <3>5, <4>1 DEF Upto, NetAssumption
        <5> QED  BY <3>5, <5>1, NoBytes
      <4> QED  BY <3>5, <3>7, <4>1
    <3>9. ASSUME owner[c] = p PROVE Even(cn, a, peer[p].got, told[p], me.n - a.len)
      <4>1. Even(conn[c], app[c], peer[p].got, told[p], me.n - app[c].len)
        BY <1>10, <2>2, <3>9
      <4>2. peer[p].got \in Stream /\ told[p] \in ToldType  BY <1>2, PeerFacts
      <4>3. conn[c].seen /\ conn[c].flight # <<>>  BY <1>1, <2>3, NoFlight
      <4>4. conn[c].flight = Bytes(app[c].ptr, acked)
        BY <1>1, <1>12, <4>1, <4>3 DEF Even, acked
      <4>5. acked = IF conn[c].seen THEN Len(conn[c].flight) ELSE 0
        <5>1. Len(Bytes(app[c].ptr, acked)) = acked  BY <2>1, <3>3, BytesType, Zenon
        <5> QED  BY <4>3, <4>4, <5>1
      <4>6. cn.flight = Bytes(a.ptr, Upto(a.len, Mss))  BY <3>5, <3>7
      <4>7. told[p].sent + me.n <= told[p].given  BY <2>1, <3>9
      <4> QED  BY <1>1, <1>2, <1>12, <2>1, <3>3, <3>5, <3>6, <3>7, <4>1, <4>2, <4>5, <4>6, <4>7,
                  EvenAcked
    <3> QED  BY <1>2, <1>4, <1>5, <2>1, <3>7, <3>8, <3>9, NetBalances
  <2>4. CASE ~ack
    <3>1. f \in {{}, {"newdata"}}  BY <2>4 DEF SegFlags
    <3>2. f = {"newdata"} => r = Answer(app[c], "stop")
      <4>1. r = Callback(app[c], f, SegMss(window), peer[p].acked + 1, k)
        BY DEF SegReply
      <4> HIDE DEF r, f
      <4> QED  BY <1>12, <4>1 DEF Callback
    <3>3. f = {"newdata"} => r.app = app[c] /\ r.does = "stop" /\ r.send = <<>>
      <4> HIDE DEF r, f
      <4> QED  BY <3>2 DEF Answer
    <3> HIDE DEF r, n, f
    <3>4. a = app[c]  BY <1>8, <3>1, <3>3
    <3>5. /\ cn.mss = Mss /\ cn.tcp = "established" /\ cn.flight = conn[c].flight
          /\ (cn.seen <=> conn[c].seen)
      <4>1. CASE f = {}  BY <1>6, <1>7, <2>4, <4>1
      <4>2. CASE f = {"newdata"}
        <5>1. cn = AppSend(n, r)  BY <1>7, <4>2
        <5>2. r.does = "stop" /\ r.send = <<>>  BY <3>3, <4>2
        <5> HIDE DEF cn
        <5> QED  BY <1>2, <1>6, <1>9, <2>4, <5>1, <5>2, AppSendFacts
      <4> QED  BY <3>1, <4>1, <4>2
    <3> HIDE DEF cn, a
    <3>6. ASSUME owner[c] = p PROVE Even(cn, a, peer[p].got, told[p], me.n - a.len)
      <4>1. Even(conn[c], app[c], peer[p].got, told[p], me.n - app[c].len)
        BY <1>10, <2>2, <3>6
      <4> QED  BY <1>1, <3>4, <3>5, <4>1 DEF Even
    <3>7. cn.seen => cn.flight # <<>>  BY <3>5, NoFlight
    <3> QED  BY <1>2, <1>4, <1>5, <1>12, <2>1, <3>4, <3>5, <3>6, <3>7, NetBalances
  <2> QED  BY <2>3, <2>4
<1> QED  BY <1>11, <1>12

\* A connection whose send is under way is nobody's yet to come.
LEMMA SendingIsHere ==
  ASSUME NEW c \in Conns, pc = "spin", me.call = "send", conn[c].tcp = "established"
  PROVE  ~Coming(c)
BY DEF Coming, Handing, Handshake

\* What is in flight arrives, once.
LEMMA PeerGetsBalances ==
  ASSUME NetAssumption, IInv, SInv, NEW c \in Conns, PeerGets(c)
  PROVE  SInv'
<1> DEFINE q == conn[c].peer
           n == [conn[c] EXCEPT !.seen = TRUE]
           g == peer[q].got \o conn[c].flight
<1>i. Flight /\ Books /\ Fresh /\ Accounts  BY DEF SInv
<1>1. /\ conn[c].tcp = "established" /\ conn[c].flight # <<>> /\ ~conn[c].seen
      /\ conn' = [conn EXCEPT ![c].seen = TRUE]
      /\ peer' = [peer EXCEPT ![q].got = @ \o conn[c].flight]
      /\ app' = app /\ accept' = accept /\ pc' = pc /\ me' = me /\ owner' = owner /\ told' = told
  BY DEF PeerGets, In, programVars
<1>2. q \in Peers /\ app[c].state = "send"
  BY <1>1, NoFlight DEF IInv, OneSlot, Alive
<1>3. /\ pc = "spin" /\ me.call = "send" /\ SendCall(c) /\ app[c].len \in Nat
      /\ app[c].ptr \in Nat /\ app[c].len <= me.n /\ me.n \in Nat
  BY <1>2, SendState
<1>4. /\ conn \in [Conns -> ConnType] /\ conn[c] \in ConnType
      /\ peer \in [Peers -> PeerType] /\ peer[q] \in PeerType
  BY <1>2 DEF IInv, TypeOK
<1>5. /\ n.tcp = conn[c].tcp /\ n.peer = q /\ n.mss = conn[c].mss /\ n.flight = conn[c].flight
      /\ n.seen
  BY <1>4 DEF ConnType
<1>6. /\ conn'[c] = n /\ \A d \in Conns : d # c => conn'[d] = conn[d]
  BY <1>1, <1>4
<1>7. /\ peer'[q].got = g
      /\ \A p \in Peers : p # q => peer'[p] = peer[p]
      /\ \A p \in Peers : peer'[p].met = peer[p].met
  <2>1. peer' = [peer EXCEPT ![q] = [peer[q] EXCEPT !.got = g]]
    BY <1>1, <1>2, <1>4
  <2> HIDE DEF g, q
  <2>2. /\ [peer[q] EXCEPT !.got = g].got = g
        /\ [peer[q] EXCEPT !.got = g].met = peer[q].met
    BY <1>4 DEF PeerType
  <2> QED  BY <2>1, <2>2, <1>2, <1>4
<1> HIDE DEF n, g
<1>8. \A d \in Conns : /\ conn'[d].peer = conn[d].peer
                       /\ conn'[d].tcp = conn[d].tcp
                       /\ conn[d].peer = q => d = c
  BY <1>2, <1>5, <1>6 DEF IInv, OneSlot
<1>9. Flight'
  BY <1>i, <1>1, <1>5, <1>6 DEF Flight
<1>10. Books'
  BY <1>i, <1>1 DEF Books
<1>11. Fresh'
  <2>1. peer[q].met  BY <1>2 DEF IInv, OneSlot
  <2> QED  BY <1>i, <1>1, <1>7, <2>1 DEF Fresh, Untouched, Blank
<1>12. Accounts'
  <2> SUFFICES ASSUME NEW d \in Conns
               PROVE  /\ conn'[d].tcp \in Handshake => peer'[conn'[d].peer].got = <<>>
                      /\ Coming(d)' => Blank(told'[conn'[d].peer], peer'[conn'[d].peer].got)
                      /\ conn'[d].peer \in Peers /\ owner'[d] = conn'[d].peer => Balanced(d)'
    BY Zenon DEF Accounts, Untouched
  <2>1. Coming(d)' => Coming(d)
    BY <1>1, <1>8 DEF Coming, Handing
  <2>2. CASE d = c
    <3>1. conn'[c].tcp \notin Handshake /\ ~Coming(c)'
      BY <1>1, <1>3, <1>8, <2>1, <2>2, SendingIsHere DEF Handshake
    <3>2. ASSUME owner[c] = q PROVE Balanced(c)'
      <4> DEFINE u == Upto(app[c].len, Mss)
                 h == Len(peer[q].got)
      <4>1. Even(conn[c], app[c], peer[q].got, told[q], me.n - app[c].len)
        BY <1>i, <1>2, <1>3, <3>2 DEF Accounts, Balanced, Part
      <4>2. peer[q].got \in Stream /\ told[q].sent \in Nat /\ told[q].given \in Nat
        BY <1>2, PeerFacts
      <4>3. h \in Nat /\ u \in Nat
        BY <4>2, <1>3, StreamLen DEF Upto, NetAssumption
      <4>4. /\ peer[q].got = Bytes(1, h) /\ conn[c].flight = Bytes(app[c].ptr, u)
            /\ h = app[c].ptr - 1
            /\ app[c].ptr + app[c].len = told[q].given + 1
            /\ told[q].sent + (me.n - app[c].len) <= h
        <5>1. peer[q].got = Bytes(1, h) /\ told[q].sent + (me.n - app[c].len) <= h
          BY <4>1, Zenon DEF Even
        <5>2. /\ app[c].ptr + app[c].len = told[q].given + 1
              /\ conn[c].flight = Bytes(app[c].ptr, u)
              /\ h = app[c].ptr - 1 + (IF conn[c].seen THEN Len(conn[c].flight) ELSE 0)
          BY <1>1, <1>2, <4>1, Zenon DEF Even
        <5>3. (IF conn[c].seen THEN Len(conn[c].flight) ELSE 0) = 0  BY <1>1
        <5>4. h = app[c].ptr - 1  BY <5>2, <5>3, <1>3
        <5> QED  BY <5>1, <5>2, <5>4
      <4> HIDE DEF u, h
      <4>5. app[c].ptr = h + 1  BY <1>3, <4>3, <4>4
      <4>6. g = Bytes(1, h + u)
        <5>1. g = Bytes(1, h) \o Bytes(h + 1, u)  BY <4>4, <4>5, Zenon DEF g
        <5> QED  BY <5>1, <4>3, BytesConcat, Zenon
      <4>7. Len(g) = h + u /\ Len(conn[c].flight) = u
        <5>1. h + u \in Nat /\ 1 \in Nat  BY <4>3
        <5>2. Len(Bytes(1, h + u)) = h + u /\ Len(Bytes(app[c].ptr, u)) = u
          BY <5>1, <4>3, <1>3, BytesType, Zenon
        <5> QED  BY <4>4, <4>6, <5>2
      <4>8. Even(n, app[c], g, told[q], me.n - app[c].len)
        <5>1. g = Bytes(1, Len(g))  BY <4>6, <4>7
        <5>2. told[q].sent + (me.n - app[c].len) <= Len(g)
          <6>1. \A x \in Int, y, z \in Nat : x <= y => x <= y + z  OBVIOUS
          <6>2. told[q].sent + (me.n - app[c].len) \in Int  BY <4>2, <1>3
          <6> QED  BY <4>3, <4>4, <4>7, <6>1, <6>2, Zenon
        <5>3. Len(g) = app[c].ptr - 1 + Len(n.flight)
          <6>1. Len(n.flight) = u  BY <4>7, <1>5
          <6>2. h = app[c].ptr - 1  BY <4>4
          <6>3. h + u = app[c].ptr - 1 + u  BY <6>2, Zenon
          <6> QED  BY <4>7, <6>1, <6>3, Zenon
        <5>4. n.flight = Bytes(app[c].ptr, Upto(app[c].len, Mss))
          BY <4>4, <1>5 DEF u
        <5> QED  BY <5>1, <5>2, <5>3, <5>4, <4>4, <1>2, <1>5 DEF Even
      <4>9. Part(c)' = me.n - app[c].len
        BY <1>1, <1>3 DEF Part, SendCall
      <4>10. /\ conn'[c] = n /\ app'[c] = app[c] /\ peer'[conn'[c].peer].got = g
             /\ told'[conn'[c].peer] = told[q]
        BY <1>1, <1>6, <1>7, <1>8
      <4> QED  BY <4>8, <4>9, <4>10 DEF Balanced
    <3> QED  BY <1>1, <1>8, <2>2, <3>1, <3>2
  <2>3. CASE d # c
    <3>1. conn'[d] = conn[d] /\ conn[d].peer # q  BY <1>6, <1>8, <2>3
    <3>2. conn[d].peer \in Peers => peer'[conn[d].peer] = peer[conn[d].peer]
      BY <1>7, <3>1
    <3>3. conn[d].tcp \in Handshake => conn[d].peer \in Peers
      BY DEF IInv, OneSlot, Handshake, Alive
    <3>4. conn'[d].tcp \in Handshake => peer'[conn'[d].peer].got = <<>>
      BY <1>i, <3>1, <3>2, <3>3 DEF Accounts
    <3>5. Coming(d)' => Blank(told'[conn'[d].peer], peer'[conn'[d].peer].got)
      <4>1. Coming(d) => conn[d].peer \in Peers  BY DEF Coming
      <4>2. Coming(d) => Blank(told[conn[d].peer], peer[conn[d].peer].got)
        BY <1>i DEF Accounts, Untouched
      <4> QED  BY <1>1, <2>1, <3>1, <3>2, <4>1, <4>2
    <3>6. ASSUME conn'[d].peer \in Peers, owner'[d] = conn'[d].peer PROVE Balanced(d)'
      <4>1. conn[d].peer \in Peers /\ owner[d] = conn[d].peer  BY <1>1, <3>1, <3>6
      <4>2. Even(conn[d], app[d], peer[conn[d].peer].got, told[conn[d].peer], Part(d))
        BY <1>i, <4>1 DEF Accounts, Balanced
      <4>3. Part(d)' = Part(d)  BY <1>1 DEF Part, SendCall
      <4>4. /\ conn'[d] = conn[d] /\ app'[d] = app[d]
            /\ peer'[conn'[d].peer].got = peer[conn[d].peer].got
            /\ told'[conn'[d].peer] = told[conn[d].peer]
        BY <1>1, <3>1, <3>2, <4>1
      <4> QED  BY <4>2, <4>3, <4>4 DEF Balanced
    <3> QED  BY <3>4, <3>5, <3>6
  <2> QED  BY <2>2, <2>3
<1> QED  BY <1>9, <1>10, <1>11, <1>12 DEF SInv

\* A connection comes to be established: nothing was sent to its peer or given for it.
LEMMA ConnectedBalances ==
  ASSUME NetAssumption, IInv, SInv, NEW c \in Conns, NEW k \in 0..Mss, Connected(c, k)
  PROVE  SInv'
<1> DEFINE q  == conn[c].peer
           n1 == [conn[c] EXCEPT !.tcp = "established"]
           n2 == [n1 EXCEPT !.stopped = TRUE]
           n  == [n2 EXCEPT !.nrtx = 0]
<1>i. Flight /\ Books /\ Fresh /\ Accounts  BY DEF SInv
<1>1. /\ conn[c].tcp \in Handshake
      /\ conn' = [conn EXCEPT ![c].tcp = "established", ![c].stopped = TRUE, ![c].nrtx = 0]
      /\ peer' = [peer EXCEPT ![q].acked = @ + k]
      /\ accept' = IF accept.request
                   THEN [accept EXCEPT !.sock = c, !.remote = q, !.request = FALSE] ELSE accept
      /\ app' = IF ~accept.request /\ app[c].state = "connect"
                THEN [app EXCEPT ![c].state = "idle"] ELSE app
      /\ pc' = pc /\ me' = me /\ owner' = owner /\ told' = told
  BY Zenon DEF Connected, programVars, In, Handshake
<1>2. /\ q \in Peers /\ conn \in [Conns -> ConnType] /\ conn[c] \in ConnType
      /\ app \in [Conns -> AppType] /\ app[c] \in AppType /\ accept \in AcceptType
      /\ peer \in [Peers -> PeerType] /\ peer[q] \in PeerType
  BY <1>1 DEF IInv, TypeOK, OneSlot, Handshake, Alive
<1>3. /\ n.tcp = "established" /\ n.peer = q /\ n.mss = conn[c].mss
      /\ n.flight = conn[c].flight /\ n.seen = conn[c].seen
  <2>1. /\ n1 \in ConnType /\ n1.tcp = "established" /\ n1.peer = q /\ n1.mss = conn[c].mss
        /\ n1.flight = conn[c].flight /\ n1.seen = conn[c].seen
    BY <1>2 DEF ConnType, TcpStates, Alive
  <2> HIDE DEF n1
  <2>2. /\ n2 \in ConnType /\ n2.tcp = n1.tcp /\ n2.peer = n1.peer /\ n2.mss = n1.mss
        /\ n2.flight = n1.flight /\ n2.seen = n1.seen
    BY <2>1 DEF ConnType
  <2> HIDE DEF n2
  <2>3. /\ n.tcp = n2.tcp /\ n.peer = n2.peer /\ n.mss = n2.mss
        /\ n.flight = n2.flight /\ n.seen = n2.seen
    BY <2>2 DEF ConnType
  <2> QED  BY <2>1, <2>2, <2>3
<1>4. conn'[c] = n /\ \A d \in Conns : d # c => conn'[d] = conn[d]
  BY <1>1, <1>2
<1> HIDE DEF n
<1>5. conn[c].flight = <<>> /\ ~conn[c].seen /\ conn[c].mss = Mss
  <2>1. conn[c].tcp # "established"  BY <1>1 DEF Handshake
  <2> QED  BY <2>1, NoFlight
<1>6. /\ \A p \in Peers : peer'[p].got = peer[p].got /\ peer'[p].met = peer[p].met
  <2> DEFINE m == peer[q].acked + k
             x == [peer[q] EXCEPT !.acked = m]
  <2>1. peer' = [peer EXCEPT ![q] = x]  BY <1>1, <1>2
  <2> HIDE DEF m
  <2>2. x.got = peer[q].got /\ x.met = peer[q].met  BY <1>2 DEF PeerType
  <2> HIDE DEF x
  <2> QED  BY <2>1, <2>2, <1>2
<1>7. /\ \A d \in Conns : d # c => app'[d] = app[d]
      /\ app'[c].len = app[c].len /\ app'[c].ptr = app[c].ptr
      /\ app'[c] = app[c] \/ (app[c].state = "connect" /\ app'[c].state = "idle")
  <2> DEFINE x == [app[c] EXCEPT !.state = "idle"]
  <2>1. x.state = "idle" /\ x.len = app[c].len /\ x.ptr = app[c].ptr  BY <1>2 DEF AppType
  <2>2. app' = app \/ (app' = [app EXCEPT ![c] = x] /\ app[c].state = "connect")
    BY <1>1, <1>2
  <2> HIDE DEF x
  <2> QED  BY <2>1, <2>2, <1>2
<1>8. \A d \in Conns : d # c =>
        (accept'.sock = d /\ accept'.sock # None => accept' = accept)
  <2>1. accept.request => accept'.sock = c  BY <1>1, <1>2 DEF AcceptType
  <2> QED  BY <1>1, <2>1
<1>9. Flight'
  BY <1>i, <1>3, <1>4, <1>5, <1>7 DEF Flight
<1>10. Books'
  BY <1>i, <1>1 DEF Books
<1>11. Fresh'
  BY <1>i, <1>1, <1>6 DEF Fresh, Untouched, Blank
<1>12. Accounts'
  <2> SUFFICES ASSUME NEW d \in Conns
               PROVE  /\ conn'[d].tcp \in Handshake => peer'[conn'[d].peer].got = <<>>
                      /\ Coming(d)' => Blank(told'[conn'[d].peer], peer'[conn'[d].peer].got)
                      /\ conn'[d].peer \in Peers /\ owner'[d] = conn'[d].peer => Balanced(d)'
    BY Zenon DEF Accounts, Untouched
  <2>1. conn'[d].peer = conn[d].peer  BY <1>3, <1>4
  <2>2. conn'[d].tcp \in Handshake => conn[d].tcp \in Handshake /\ conn[d].peer \in Peers
    BY <1>3, <1>4 DEF Handshake, IInv, OneSlot, Alive
  <2>3. conn'[d].tcp \in Handshake => peer'[conn'[d].peer].got = <<>>
    BY <1>i, <1>6, <2>1, <2>2 DEF Accounts
  <2>4. Coming(d)' => Coming(d)
    <3>1. CASE d = c  BY <1>1, <2>1, <3>1 DEF Coming
    <3>2. CASE d # c
      <4>1. Handing' /\ accept'.sock = d => accept' = accept /\ Handing
        BY <1>1, <1>8, <3>2 DEF Handing
      <4> QED  BY <1>1, <2>1, <2>2, <4>1 DEF Coming
    <3> QED  BY <3>1, <3>2
  <2>5. Coming(d)' => Blank(told'[conn'[d].peer], peer'[conn'[d].peer].got)
    <3>1. Coming(d) => Blank(told[conn[d].peer], peer[conn[d].peer].got) /\ conn[d].peer \in Peers
      BY <1>i DEF Accounts, Untouched, Coming
    <3> QED  BY <1>1, <1>6, <2>1, <2>4, <3>1
  <2>6. ASSUME conn'[d].peer \in Peers, owner'[d] = conn'[d].peer PROVE Balanced(d)'
    <3>1. conn[d].peer \in Peers /\ owner[d] = conn[d].peer  BY <1>1, <2>1, <2>6
    <3>2. Even(conn[d], app[d], peer[conn[d].peer].got, told[conn[d].peer], Part(d))
      BY <1>i, <3>1 DEF Accounts, Balanced
    <3>3. Part(d)' = Part(d)
      <4>1. app'[d].len = app[d].len  BY <1>7
      <4> QED  BY <1>1, <4>1 DEF Part, SendCall
    <3>4. peer'[conn'[d].peer].got = peer[conn[d].peer].got
          /\ told'[conn'[d].peer] = told[conn[d].peer]
      BY <1>1, <1>6, <2>1, <3>1
    <3>5. Even(conn'[d], app'[d], peer[conn[d].peer].got, told[conn[d].peer], Part(d))
      <4>1. CASE d # c  BY <4>1, <1>4, <1>7, <3>2
      <4>2. CASE d = c
        <5>1. \A g, t, y : Even(conn[c], app[c], g, t, y) => Even(n, app[c], g, t, y)
          BY <1>1, <1>3 DEF Even
        <5>2. app'[c].state # "send" /\ app[c].state # "send" =>
                \A g, t, y : Even(n, app[c], g, t, y) => Even(n, app'[c], g, t, y)
          BY DEF Even
        <5> QED  BY <4>2, <1>4, <1>7, <3>2, <5>1, <5>2
      <4> QED  BY <4>1, <4>2
    <3> QED  BY <3>3, <3>4, <3>5 DEF Balanced
  <2> QED  BY <2>3, <2>5, <2>6
<1> QED  BY <1>9, <1>10, <1>11, <1>12 DEF SInv

\* A new peer, or none, gets connection c.
LEMMA SlotBalances ==
  ASSUME NetAssumption, IInv, SInv, NEW c \in Conns, NEW t \in TcpStates, NEW q \in Hosts,
         q \in Peers => ~peer[q].met, t \in Handshake => q \in Peers,
         conn' = [conn EXCEPT ![c] = Begun(t, q)],
         \A d \in Conns : d # c => app'[d] = app[d],
         \A p \in Peers : peer'[p].got = peer[p].got /\ (peer[p].met => peer'[p].met),
         UNCHANGED <<told, owner>>,
         \/ UNCHANGED <<pc, me, accept>>
         \/ pc = "idle" /\ ~Handing' /\ (pc' = "spin" => me'.call # "send" /\ me'.c = c)
  PROVE  SInv'
<1>i. Flight /\ Books /\ Fresh /\ Accounts  BY DEF SInv
<1> DEFINE n == Begun(t, q)
<1>1. /\ n.tcp = t /\ n.peer = q /\ n.mss = Mss /\ n.flight = <<>> /\ ~n.seen
  BY NewConn
<1>2. conn'[c] = n /\ \A d \in Conns : d # c => conn'[d] = conn[d]
  BY DEF IInv, TypeOK
<1> HIDE DEF n
<1>3. told' = told /\ owner' = owner  OBVIOUS
<1>4. Flight'
  BY <1>i, <1>1, <1>2 DEF Flight
<1>5. Books'
  <2>1. pc' = "spin" /\ me'.call = "send" => pc' = pc /\ me' = me  OBVIOUS
  <2> QED  BY <1>i, <1>3, <2>1 DEF Books
<1>6. Fresh'
  BY <1>i, <1>3 DEF Fresh, Untouched, Blank
<1>7. q \in Peers => Untouched(q) /\ owner[c] # q
  BY <1>i, Unmet DEF Fresh
<1>8. Accounts'
  <2> SUFFICES ASSUME NEW d \in Conns
               PROVE  /\ conn'[d].tcp \in Handshake => peer'[conn'[d].peer].got = <<>>
                      /\ Coming(d)' => Blank(told'[conn'[d].peer], peer'[conn'[d].peer].got)
                      /\ conn'[d].peer \in Peers /\ owner'[d] = conn'[d].peer => Balanced(d)'
    BY Zenon DEF Accounts, Untouched
  <2>1. CASE d = c
    <3>1. conn'[d].peer = q /\ owner'[d] = owner[c]  BY <1>1, <1>2, <1>3, <2>1
    <3>2. q \in Peers => peer'[q].got = <<>> /\ Blank(told'[q], peer'[q].got)
      BY <1>3, <1>7 DEF Untouched, Blank
    <3>3. Coming(d)' => q \in Peers  BY <3>1 DEF Coming
    <3>4. conn'[d].tcp \in Handshake => q \in Peers
      BY <1>1, <1>2, <2>1
    <3> QED  BY <1>7, <3>1, <3>2, <3>3, <3>4
  <2>2. CASE d # c
    <3>1. conn'[d] = conn[d] /\ app'[d] = app[d]  BY <1>2, <2>2
    <3>2. conn[d].tcp \in Handshake => conn[d].peer \in Peers
      BY DEF IInv, OneSlot, Handshake, Alive
    <3>3. conn'[d].tcp \in Handshake => peer'[conn'[d].peer].got = <<>>
      BY <1>i, <3>1, <3>2 DEF Accounts
    <3>4. Coming(d)' => Coming(d)
      <4>1. CASE UNCHANGED <<pc, me, accept>>
        BY <1>3, <3>1, <4>1 DEF Coming, Handing
      <4>2. CASE ~Handing' /\ (pc' = "spin" => me'.call # "send" /\ me'.c = c)
        BY <1>3, <2>2, <3>1, <4>2 DEF Coming
      <4> QED  BY <4>1, <4>2
    <3>5. Coming(d)' => Blank(told'[conn'[d].peer], peer'[conn'[d].peer].got)
      <4>1. Coming(d) => Blank(told[conn[d].peer], peer[conn[d].peer].got) /\ conn[d].peer \in Peers
        BY <1>i DEF Accounts, Untouched, Coming
      <4> QED  BY <1>3, <3>1, <3>4, <4>1
    <3>6. ASSUME conn'[d].peer \in Peers, owner'[d] = conn'[d].peer PROVE Balanced(d)'
      <4>1. conn[d].peer \in Peers /\ owner[d] = conn[d].peer  BY <1>3, <3>1, <3>6
      <4>2. Even(conn[d], app[d], peer[conn[d].peer].got, told[conn[d].peer], Part(d))
        BY <1>i, <4>1 DEF Accounts, Balanced
      <4>3. Part(d)' = Part(d)
        BY <3>1 DEF Part, SendCall
      <4>4. /\ peer'[conn'[d].peer].got = peer[conn[d].peer].got
            /\ told'[conn'[d].peer] = told[conn[d].peer]
        BY <1>3, <3>1, <4>1
      <4> QED  BY <3>1, <4>2, <4>3, <4>4 DEF Balanced
    <3> QED  BY <3>3, <3>5, <3>6
  <2> QED  BY <2>1, <2>2
<1> QED  BY <1>4, <1>5, <1>6, <1>8 DEF SInv

\* A peer connects.
LEMMA SynBalances ==
  ASSUME NetAssumption, IInv, SInv, NEW p \in Peers, Syn(p)
  PROVE  SInv'
<1>1. PICK c \in SynSlots : conn' = [conn EXCEPT ![c] = Begun("syn_rcvd", p)]
  BY DEF Syn, Begun
<1>2. c \in Conns  BY SlotFacts
<1>3. /\ ~peer[p].met /\ peer' = [peer EXCEPT ![p].met = TRUE]
      /\ UNCHANGED <<app, told, owner, pc, me, accept>>
  BY DEF Syn, programVars
<1>4. \A r \in Peers : peer'[r].got = peer[r].got /\ (peer[r].met => peer'[r].met)
  <2>1. peer \in [Peers -> PeerType] /\ peer[p] \in PeerType  BY DEF IInv, TypeOK
  <2>2. [peer[p] EXCEPT !.met = TRUE].got = peer[p].got /\ [peer[p] EXCEPT !.met = TRUE].met
    BY <2>1 DEF PeerType
  <2>3. peer' = [peer EXCEPT ![p] = [peer[p] EXCEPT !.met = TRUE]]  BY <1>3
  <2> QED  BY <2>1, <2>2, <2>3
<1>5. "syn_rcvd" \in TcpStates /\ p \in Hosts  BY DEF TcpStates, Alive, Hosts
<1>6. UNCHANGED <<told, owner>> /\ UNCHANGED <<pc, me, accept>> /\ app' = app  BY <1>3
<1> QED  BY <1>1, <1>2, <1>3, <1>4, <1>5, <1>6, SlotBalances

\* net.connect.
LEMMA ConnectBalances ==
  ASSUME NetAssumption, IInv, SInv, NEW c \in Conns, NEW p \in Peers, Connect(c, p)
  PROVE  SInv'
<1> DEFINE m == [Me0 EXCEPT !.call = "connect", !.c = c]
<1>1. /\ ~peer[p].met /\ pc = "idle" /\ pc' = "spin" /\ me' = m
      /\ conn' = [conn EXCEPT ![c] = Begun("syn_sent", p)]
      /\ app' = [app EXCEPT ![c] = [@ EXCEPT !.res = "ok", !.len = 0, !.state = "connect"]]
      /\ peer' = [peer EXCEPT ![p].met = TRUE]
      /\ UNCHANGED <<told, owner>>
  BY Zenon DEF Connect, Call, Begun
<1>2. m.call = "connect" /\ m.c = c  BY DEF Me0
<1> HIDE DEF m
<1>3. \A r \in Peers : peer'[r].got = peer[r].got /\ (peer[r].met => peer'[r].met)
  <2>1. peer \in [Peers -> PeerType] /\ peer[p] \in PeerType  BY DEF IInv, TypeOK
  <2>2. [peer[p] EXCEPT !.met = TRUE].got = peer[p].got /\ [peer[p] EXCEPT !.met = TRUE].met
    BY <2>1 DEF PeerType
  <2>3. peer' = [peer EXCEPT ![p] = [peer[p] EXCEPT !.met = TRUE]]  BY <1>1
  <2> QED  BY <2>1, <2>2, <2>3
<1>4. "syn_sent" \in TcpStates /\ p \in Hosts  BY DEF TcpStates, Alive, Hosts
<1>5. \A d \in Conns : d # c => app'[d] = app[d]
  <2>1. app \in [Conns -> AppType]  BY DEF IInv, TypeOK
  <2> QED  BY <1>1, <2>1
<1>6. ~Handing' /\ (pc' = "spin" => me'.call # "send" /\ me'.c = c)
  BY <1>1, <1>2 DEF Handing
<1> QED  BY <1>1, <1>3, <1>4, <1>5, <1>6, SlotBalances

\* net.socket.
LEMMA SocketBalances ==
  ASSUME NetAssumption, IInv, SInv, Socket
  PROVE  SInv'
<1>1. PICK c \in Conns : conn' = [conn EXCEPT ![c] = [NoConn EXCEPT !.tcp = "reserved"]]
  BY DEF Socket
<1>2. /\ pc = "idle" /\ pc' = "idle"
      /\ app' = app /\ peer' = peer /\ UNCHANGED <<told, owner>>
  BY DEF Socket, Call
<1>3. [NoConn EXCEPT !.tcp = "reserved"] = Begun("reserved", NoPeer)
  <2> DEFINE r == [NoConn EXCEPT !.tcp = "reserved"]
  <2>1. r.peer = NoPeer /\ r = [x \in DOMAIN r |-> r[x]]  BY DEF NoConn
  <2>2. Begun("reserved", NoPeer) = [r EXCEPT !.peer = NoPeer]  BY DEF Begun
  <2> HIDE DEF r
  <2>3. [r EXCEPT !.peer = NoPeer] = r  BY <2>1
  <2> QED  BY <2>2, <2>3 DEF r
<1>4. /\ "reserved" \in TcpStates /\ "reserved" \notin Handshake
      /\ NoPeer \in Hosts /\ NoPeer \notin Peers
  BY DEF TcpStates, Hosts, Handshake, NetAssumption
<1>5. ~Handing'  BY <1>2 DEF Handing
<1> QED  BY <1>1, <1>2, <1>3, <1>4, <1>5, SlotBalances

\* The program, when no call for a connection is under way before or after: a socket is
\* given up, or taken for the connection accept has got.
LEMMA IdleBalances ==
  ASSUME NetAssumption, IInv, SInv, pc # "spin", pc' # "spin",
         UNCHANGED <<conn, app, peer, told>>,
         Handing' => /\ Handing /\ accept'.sock = accept.sock
                     /\ accept'.remote = accept.remote /\ owner' = owner,
         \A d \in Conns : \/ owner'[d] = owner[d] \/ owner'[d] = NoPeer
                          \/ Handing /\ accept.sock = d /\ accept.remote = owner'[d]
  PROVE  SInv'
<1>i. Flight /\ Books /\ Fresh /\ Accounts  BY DEF SInv
<1>1. conn' = conn /\ app' = app /\ peer' = peer /\ told' = told  OBVIOUS
<1>2. \A d \in Conns : app[d].state = "idle"  BY DEF IInv, OneCall
<1>3. Flight' /\ Books' /\ Fresh'
  BY <1>i, <1>1 DEF Flight, Books, Fresh, Untouched, Blank
<1>4. Accounts'
  <2> SUFFICES ASSUME NEW d \in Conns
               PROVE  /\ conn'[d].tcp \in Handshake => peer'[conn'[d].peer].got = <<>>
                      /\ Coming(d)' => Blank(told'[conn'[d].peer], peer'[conn'[d].peer].got)
                      /\ conn'[d].peer \in Peers /\ owner'[d] = conn'[d].peer => Balanced(d)'
    BY Zenon DEF Accounts, Untouched
  <2>1. conn'[d].tcp \in Handshake => peer'[conn'[d].peer].got = <<>>
    BY <1>i, <1>1 DEF Accounts
  <2>2. Coming(d)' => Blank(told'[conn'[d].peer], peer'[conn'[d].peer].got)
    <3>1. Coming(d)' => Coming(d) \/ conn[d].tcp \in Handshake
      BY <1>1 DEF Coming, Handing
    <3>2. Coming(d) => Untouched(conn[d].peer)  BY <1>i DEF Accounts
    <3>3. conn[d].tcp \in Handshake => Untouched(conn[d].peer)  BY <1>2, HandshakeFresh
    <3> QED  BY <1>1, <3>1, <3>2, <3>3 DEF Untouched
  <2>3. ASSUME conn'[d].peer \in Peers, owner'[d] = conn'[d].peer PROVE Balanced(d)'
    <3>1. Part(d) = 0 /\ Part(d)' = 0  BY DEF Part, SendCall
    <3>2. Even(conn[d], app[d], peer[conn[d].peer].got, told[conn[d].peer], 0)
      <4>1. CASE owner[d] = conn[d].peer
        BY <1>i, <1>1, <2>3, <3>1, <4>1 DEF Accounts, Balanced
      <4>2. CASE owner[d] # conn[d].peer
        <5>1. Coming(d)  BY <1>1, <2>3, <4>2 DEF NetAssumption, Coming
        <5>2. Blank(told[conn[d].peer], peer[conn[d].peer].got)
          BY <1>i, <5>1 DEF Accounts, Untouched
        <5> QED  BY <1>2, <5>2, EvenFresh
      <4> QED  BY <4>1, <4>2
    <3> QED  BY <1>1, <3>1, <3>2 DEF Balanced
  <2> QED  BY <2>1, <2>2, <2>3
<1> QED  BY <1>3, <1>4 DEF SInv

\* net.send, net.recv and net.close, before anything is posted.
LEMMA RequestBalances ==
  ASSUME NetAssumption, IInv, SInv, NEW call, NEW c \in Conns, NEW n, NEW line, NEW timed,
         Request(call, c, n, line, timed)
  PROVE  SInv'
<1>1. /\ pc = "idle" /\ pc' \in {"idle", "post"} /\ UNCHANGED <<conn, app, peer, told>>
      /\ owner' = owner \/ owner' = [owner EXCEPT ![c] = NoPeer]
  BY DEF Request, Call
<1>2. ~Handing'  BY <1>1 DEF Handing
<1>3. \A d \in Conns : owner'[d] = owner[d] \/ owner'[d] = NoPeer
  <2>1. owner \in [Conns -> Hosts]  BY DEF IInv, TypeOK
  <2> QED  BY <1>1, <2>1
<1> QED  BY <1>1, <1>2, <1>3, IdleBalances

\* The steps of net.accept.
LEMMA AcceptingBalances ==
  ASSUME NetAssumption, IInv, SInv,
         \/ \E timed \in BOOLEAN : Accept(timed)
         \/ Ask \/ AcceptTimesOut \/ Withdraw \/ Accepted
  PROVE  SInv'
<1>t. accept \in AcceptType /\ owner \in [Conns -> Hosts]  BY DEF IInv, TypeOK
<1>1. CASE \E timed \in BOOLEAN : Accept(timed)
  <2>1. /\ pc = "idle" /\ pc' = "ask" /\ UNCHANGED <<conn, app, peer, told, owner>>
    BY <1>1, Zenon DEF Accept, Call
  <2>2. ~Handing'  BY <2>1 DEF Handing
  <2> QED  BY <2>1, <2>2, IdleBalances
<1>2. CASE Ask
  <2>1. /\ pc = "ask" /\ pc' = "accept" /\ UNCHANGED <<conn, app, peer, told, owner>>
    BY <1>2 DEF Ask, Goto
  <2>2. accept'.sock = None  BY <1>2, <1>t DEF Ask, AcceptType
  <2>3. ~Handing'  BY <2>2 DEF Handing
  <2> QED  BY <2>1, <2>3, IdleBalances
<1>3. CASE AcceptTimesOut
  <2>1. /\ pc = "accept" /\ pc' = "withdraw" /\ UNCHANGED <<conn, app, peer, told, owner, accept>>
    BY <1>3 DEF AcceptTimesOut, Goto
  <2>2. Handing' => Handing  BY <2>1 DEF Handing
  <2> QED  BY <2>1, <2>2, IdleBalances
<1>4. CASE Withdraw
  <2>1. /\ pc = "withdraw" /\ pc' = "accept" /\ UNCHANGED <<conn, app, peer, told, owner>>
    BY <1>4 DEF Withdraw, Goto
  <2>2. accept'.sock = accept.sock /\ accept'.remote = accept.remote
    BY <1>4, <1>t DEF Withdraw, AcceptType
  <2>3. Handing' => Handing  BY <2>1, <2>2 DEF Handing
  <2> QED  BY <2>1, <2>2, <2>3, IdleBalances
<1>5. CASE Accepted
  <2>1. /\ pc = "accept" /\ pc' = "idle" /\ UNCHANGED <<conn, app, peer, told>>
        /\ \/ owner' = owner
           \/ accept.sock # None /\ owner' = [owner EXCEPT ![accept.sock] = accept.remote]
    BY <1>5 DEF Accepted, GoIdle
  <2>2. ~Handing'  BY <2>1 DEF Handing
  <2>3. \A d \in Conns : \/ owner'[d] = owner[d]
                         \/ Handing /\ accept.sock = d /\ accept.remote = owner'[d]
    BY <2>1, <1>t DEF Handing
  <2> QED  BY <2>1, <2>2, <2>3, IdleBalances
<1> QED  BY <1>1, <1>2, <1>3, <1>4, <1>5

\* A call returns, and send tells of what it has sent.
LEMMA ReturnsBalances ==
  ASSUME NetAssumption, IInv, SInv, Returns
  PROVE  SInv'
<1> DEFINE c == me.c
           o == owner[c]
           part == me.n - app[c].len
<1>i. Flight /\ Books /\ Fresh /\ Accounts  BY DEF SInv
<1>1. /\ pc = "spin" /\ app[c].state = "idle" /\ pc' = "idle"
      /\ told' = IF me.call = "send" THEN [told EXCEPT ![o].sent = @ + part] ELSE told
      /\ owner' = [owner EXCEPT ![c] =
           CASE me.call = "connect" -> IF app[c].res = "ok" THEN conn[c].peer ELSE @
             [] me.call = "close" -> NoPeer
             [] OTHER -> @]
      /\ app' = app /\ conn' = conn /\ accept' = accept /\ peer' = peer
  BY Zenon DEF Returns, GoIdle
<1>2. c \in Conns /\ (me.call # "connect" => o \in Peers)
  BY <1>1 DEF IInv, OneCall
<1>3. /\ owner \in [Conns -> Hosts] /\ told \in [Peers -> ToldType]
      /\ app[c] \in AppType /\ me.n \in Nat
  BY <1>2 DEF IInv, TypeOK, CallType
<1>4. /\ \A d \in Conns : d # c => owner'[d] = owner[d]
      /\ me.call = "connect" => owner'[c] \in {owner[c], conn[c].peer}
      /\ me.call # "connect" => owner'[c] \in {owner[c], NoPeer}
      /\ me.call = "send" => owner'[c] = o
  BY <1>1, <1>2, <1>3
<1>5. /\ me.call # "send" => told' = told
      /\ me.call = "send" =>
           /\ told'[o].given = told[o].given /\ told'[o].sent = told[o].sent + part
           /\ \A p \in Peers : p # o => told'[p] = told[p]
  <2> DEFINE s == told[o].sent + part
             x == [told[o] EXCEPT !.sent = s]
  <2>1. CASE me.call = "send"
    <3>1. told[o] \in ToldType /\ o \in Peers  BY <2>1, <1>2, <1>3
    <3>2. told' = [told EXCEPT ![o] = x]  BY <2>1, <1>1, <1>2, <1>3
    <3> HIDE DEF s
    <3>3. x.given = told[o].given /\ x.sent = s  BY <3>1 DEF ToldType
    <3> HIDE DEF x, o
    <3>4. told'[o] = x /\ \A p \in Peers : p # o => told'[p] = told[p]
      BY <3>1, <3>2, <1>3
    <3> QED  BY <2>1, <3>3, <3>4 DEF s
  <2>2. CASE me.call # "send"  BY <2>2, <1>1
  <2> QED  BY <2>1, <2>2
<1>6. me.call = "send" =>
        /\ part \in Nat /\ o \in Peers /\ told[o].sent + part <= told[o].given
        /\ 0 <= told[o].sent + part
  <2> SUFFICES ASSUME me.call = "send"
               PROVE  /\ part \in Nat /\ o \in Peers /\ told[o].sent + part <= told[o].given
                      /\ 0 <= told[o].sent + part
    OBVIOUS
  <2>1. app[c].len <= me.n /\ app[c].len \in Nat
    BY <1>1, <1>3, Fields DEF IInv, Account
  <2>2. told[o].sent + me.n <= told[o].given /\ 0 <= told[o].sent /\ o \in Peers
    BY <1>i, <1>1, <1>2 DEF Books
  <2>3. told[o].sent \in Int /\ told[o].given \in Nat  BY <2>2, <1>3 DEF ToldType
  <2> HIDE DEF o, c
  <2> QED  BY <2>1, <2>2, <2>3, <1>3
<1>7. \A d \in Conns : app[d].state = "idle"
  BY <1>1 DEF IInv, OneCall
<1>8. \A d \in Conns : conn[d].peer \in Peers /\ conn[d].peer = o => d = c
  BY <1>2 DEF IInv, OneSlot
<1> HIDE DEF c, o, part
<1>9. Flight'
  BY <1>i, <1>1 DEF Flight
<1>10. Books'
  <2>1. \A p \in Peers : 0 <= told'[p].sent /\ told'[p].sent <= told'[p].given
    <3> SUFFICES ASSUME NEW p \in Peers
                 PROVE  0 <= told'[p].sent /\ told'[p].sent <= told'[p].given
      OBVIOUS
    <3>1. CASE me.call = "send" /\ p = o  BY <3>1, <1>5, <1>6
    <3>2. CASE ~(me.call = "send" /\ p = o)
      <4>1. told'[p] = told[p]  BY <3>2, <1>5
      <4> QED  BY <1>i, <4>1 DEF Books
    <3> QED  BY <3>1, <3>2
  <2> QED  BY <1>1, <2>1 DEF Books
<1>11. Fresh'
  <2> SUFFICES ASSUME NEW p \in Peers, ~peer[p].met PROVE Blank(told'[p], peer'[p].got)
    BY <1>1 DEF Fresh, Untouched
  <2>1. told'[p] = told[p]
    <3>1. owner[c] # p  BY <1>2, Unmet
    <3> QED  BY <1>5, <3>1 DEF o
  <2> QED  BY <1>i, <1>1, <2>1 DEF Fresh, Untouched
<1>12. Accounts'
  <2> SUFFICES ASSUME NEW d \in Conns
               PROVE  /\ conn'[d].tcp \in Handshake => peer'[conn'[d].peer].got = <<>>
                      /\ Coming(d)' => Blank(told'[conn'[d].peer], peer'[conn'[d].peer].got)
                      /\ conn'[d].peer \in Peers /\ owner'[d] = conn'[d].peer => Balanced(d)'
    BY Zenon DEF Accounts, Untouched
  <2> DEFINE p == conn[d].peer
  <2>1. conn'[d].tcp \in Handshake => peer'[conn'[d].peer].got = <<>>
    BY <1>i, <1>1 DEF Accounts
  <2>2. ASSUME Coming(d)' PROVE Blank(told'[p], peer'[p].got)
    <3>1. /\ conn[d].tcp \in Handshake /\ p \in Peers /\ owner'[d] # p
      BY <1>1, <2>2 DEF Coming, Handing
    <3>2. Blank(told[p], peer[p].got)
      BY <1>7, <3>1, HandshakeFresh DEF Untouched
    <3>3. told'[p] = told[p]
      <4>1. CASE me.call # "send"  BY <4>1, <1>5
      <4>2. CASE me.call = "send"
        <5>1. p # o  BY <1>4, <1>8, <3>1, <4>2
        <5> QED  BY <1>5, <3>1, <4>2, <5>1
      <4> QED  BY <4>1, <4>2
    <3> QED  BY <1>1, <3>2, <3>3
  <2>3. ASSUME p \in Peers, owner'[d] = p PROVE Even(conn[d], app[d], peer[p].got, told'[p], 0)
    <3>0. NoPeer \notin Peers  BY DEF NetAssumption
    <3>1. CASE owner[d] # p
      <4>1. d = c /\ me.call = "connect"  BY <1>4, <2>3, <3>0, <3>1
      <4>2. Coming(d)  BY <1>1, <2>3, <3>1, <4>1 DEF Coming, c
      <4>3. Blank(told[p], peer[p].got)  BY <1>i, <4>2 DEF Accounts, Untouched
      <4>4. told' = told  BY <1>5, <4>1
      <4> HIDE DEF p
      <4> QED  BY <1>7, <4>3, <4>4, EvenFresh
    <3>2. CASE owner[d] = p /\ d = c /\ me.call = "send"
      <4>1. Part(d) = part  BY <1>1, <3>2 DEF Part, SendCall, c, part
      <4>2. Even(conn[d], app[d], peer[p].got, told[p], part)
        BY <1>i, <2>3, <3>2, <4>1 DEF Accounts, Balanced
      <4>3. p = o  BY <3>2 DEF o
      <4>4. told'[p].given = told[p].given /\ told'[p].sent + 0 = told[p].sent + part
        <5>1. told[p].sent \in Nat  BY <2>3, PeerFacts
        <5>2. told'[p].sent = told[p].sent + part /\ told'[p].given = told[p].given
          BY <1>5, <3>2, <4>3
        <5> QED  BY <1>6, <3>2, <5>1, <5>2
      <4> HIDE DEF p
      <4> QED  BY <1>7, <4>2, <4>4 DEF Even
    <3>3. CASE owner[d] = p /\ ~(d = c /\ me.call = "send")
      <4>1. Part(d) = 0  BY <3>3 DEF Part, SendCall, c
      <4>2. Even(conn[d], app[d], peer[p].got, told[p], 0)
        BY <1>i, <2>3, <3>3, <4>1 DEF Accounts, Balanced
      <4>3. told'[p] = told[p]  BY <1>5, <1>8, <2>3, <3>3
      <4> QED  BY <4>2, <4>3
    <3> QED  BY <3>1, <3>2, <3>3
  <2>4. ASSUME conn'[d].peer \in Peers, owner'[d] = conn'[d].peer PROVE Balanced(d)'
    <3>1. Part(d)' = 0  BY <1>1 DEF Part, SendCall
    <3> QED  BY <1>1, <2>3, <2>4, <3>1 DEF Balanced
  <2> QED  BY <1>1, <2>1, <2>2, <2>4
<1> QED  BY <1>9, <1>10, <1>11, <1>12 DEF SInv

\* A request is posted: what is given to send follows what was.
LEMMA PostBalances ==
  ASSUME NetAssumption, IInv, SInv, Post
  PROVE  SInv'
<1> DEFINE c == me.c
           o == owner[c]
           a == [state |-> me.call, line |-> me.line, len |-> me.n, ptr |-> told[o].given + 1,
                 res |-> IF me.call = "recv" THEN "timedout" ELSE "ok"]
<1>i. Flight /\ Books /\ Fresh /\ Accounts  BY DEF SInv
<1>1. /\ pc = "post" /\ pc' = "spin" /\ me' = me
      /\ app' = [app EXCEPT ![c] = a]
      /\ told' = IF me.call = "send" THEN [told EXCEPT ![o].given = @ + me.n] ELSE told
      /\ conn' = conn /\ accept' = accept /\ peer' = peer /\ owner' = owner
  BY Zenon DEF Post, Goto
<1>2. c \in Conns /\ o \in Peers /\ me.call # "connect"
  BY <1>1 DEF IInv, OneCall
<1>3. /\ told \in [Peers -> ToldType] /\ told[o] \in ToldType /\ me.n \in Nat
      /\ app \in [Conns -> AppType]
  BY <1>2 DEF IInv, TypeOK, CallType
<1>4. /\ a.state = me.call /\ a.len = me.n /\ a.ptr = told[o].given + 1  OBVIOUS
<1> HIDE DEF a
<1>5. app'[c] = a /\ \A d \in Conns : d # c => app'[d] = app[d]
  BY <1>1, <1>2, <1>3
<1>6. /\ me.call # "send" => told' = told
      /\ me.call = "send" =>
           /\ told'[o].given = told[o].given + me.n /\ told'[o].sent = told[o].sent
           /\ \A p \in Peers : p # o => told'[p] = told[p]
  <2> DEFINE s == told[o].given + me.n
             x == [told[o] EXCEPT !.given = s]
  <2>1. CASE me.call = "send"
    <3>1. told' = [told EXCEPT ![o] = x]  BY <2>1, <1>1, <1>2, <1>3
    <3> HIDE DEF s
    <3>2. x.given = s /\ x.sent = told[o].sent  BY <1>3 DEF ToldType
    <3> HIDE DEF x, o
    <3>3. told'[o] = x /\ \A p \in Peers : p # o => told'[p] = told[p]
      BY <3>1, <1>2, <1>3
    <3> QED  BY <2>1, <3>2, <3>3 DEF s
  <2>2. CASE me.call # "send"  BY <2>2, <1>1
  <2> QED  BY <2>1, <2>2
<1>7. \A d \in Conns : app[d].state = "idle" /\ conn[d].flight = <<>> /\ ~conn[d].seen
  <2>1. \A d \in Conns : app[d].state = "idle"  BY <1>1 DEF IInv, OneCall
  <2> QED  BY <2>1, NoFlight
<1>8. \A d \in Conns : conn[d].peer \in Peers /\ conn[d].peer = o => d = c
  BY <1>2 DEF IInv, OneSlot
<1>9. /\ told[o].given \in Nat /\ 0 <= told[o].sent /\ told[o].sent <= told[o].given
      /\ told[o].sent \in Int
  BY <1>i, <1>2, <1>3 DEF Books, ToldType
<1>o. owner'[me'.c] = o  BY <1>1
<1> HIDE DEF c, o
<1>10. Flight'
  BY <1>i, <1>1, <1>7 DEF Flight
<1>11. Books'
  <2>1. \A p \in Peers : 0 <= told'[p].sent /\ told'[p].sent <= told'[p].given
    <3> SUFFICES ASSUME NEW p \in Peers
                 PROVE  0 <= told'[p].sent /\ told'[p].sent <= told'[p].given
      OBVIOUS
    <3>1. CASE me.call = "send" /\ p = o  BY <3>1, <1>3, <1>6, <1>9
    <3>2. CASE ~(me.call = "send" /\ p = o)
      <4>1. told'[p] = told[p]  BY <3>2, <1>6
      <4> QED  BY <1>i, <4>1 DEF Books
    <3> QED  BY <3>1, <3>2
  <2>2. me.call = "send" => told'[o].sent + me.n <= told'[o].given
    BY <1>3, <1>6, <1>9
  <2> QED  BY <1>1, <1>o, <2>1, <2>2 DEF Books
<1>12. Fresh'
  <2> SUFFICES ASSUME NEW p \in Peers, ~peer[p].met PROVE Blank(told'[p], peer'[p].got)
    BY <1>1 DEF Fresh, Untouched
  <2>1. told'[p] = told[p]
    <3>1. owner[c] # p  BY <1>2, Unmet
    <3> QED  BY <1>6, <3>1 DEF o
  <2> QED  BY <1>i, <1>1, <2>1 DEF Fresh, Untouched
<1>13. Accounts'
  <2> SUFFICES ASSUME NEW d \in Conns
               PROVE  /\ conn'[d].tcp \in Handshake => peer'[conn'[d].peer].got = <<>>
                      /\ Coming(d)' => Blank(told'[conn'[d].peer], peer'[conn'[d].peer].got)
                      /\ conn'[d].peer \in Peers /\ owner'[d] = conn'[d].peer => Balanced(d)'
    BY Zenon DEF Accounts, Untouched
  <2> DEFINE p == conn[d].peer
  <2>1. conn'[d].tcp \in Handshake => peer'[conn'[d].peer].got = <<>>
    BY <1>i, <1>1 DEF Accounts
  <2>2. ASSUME Coming(d)' PROVE Blank(told'[p], peer'[p].got)
    <3>1. /\ conn[d].tcp \in Handshake /\ p \in Peers /\ owner[d] # p
      BY <1>1, <1>2, <2>2 DEF Coming, Handing
    <3>2. Blank(told[p], peer[p].got)
      <4>1. app[d].state # "send"  BY <1>7
      <4> QED  BY <3>1, <4>1, HandshakeFresh DEF Untouched
    <3>3. p # o  BY <1>8, <3>1 DEF o
    <3>4. told'[p] = told[p]  BY <1>6, <3>1, <3>3
    <3> QED  BY <1>1, <3>2, <3>4
  <2>3. ASSUME p \in Peers, owner[d] = p
        PROVE  /\ Even(conn[d], app'[d], peer[p].got, told'[p], 0)
               /\ me.c = d => app'[d].len = me.n
    <3>1. Even(conn[d], app[d], peer[p].got, told[p], 0)
      <4>1. Part(d) = 0  BY <1>1 DEF Part, SendCall
      <4> QED  BY <1>i, <2>3, <4>1 DEF Accounts, Balanced
    <3>2. CASE d # c
      <4>1. told'[p] = told[p] /\ app'[d] = app[d]  BY <1>5, <1>6, <1>8, <2>3, <3>2
      <4> QED  BY <3>1, <3>2, <4>1 DEF c
    <3>3. CASE d = c /\ me.call # "send"
      <4>1. /\ told'[p] = told[p] /\ app'[d].state # "send" /\ app[d].state # "send"
            /\ app'[d].len = me.n
        BY <1>4, <1>5, <1>6, <1>7, <3>3
      <4> HIDE DEF p
      <4> QED  BY <3>1, <4>1 DEF Even
    <3>4. CASE d = c /\ me.call = "send"
      <4>1. p = o /\ app'[d] = a  BY <1>5, <2>3, <3>4 DEF o
      <4>2. /\ told'[p].given = told[p].given + me.n /\ told'[p].sent = told[p].sent
            /\ told[p].given \in Nat
        BY <1>6, <1>9, <3>4, <4>1
      <4>3. a.ptr = told[p].given + 1 /\ a.len = me.n /\ a.state = "send"
        BY <1>4, <3>4, <4>1
      <4>4. conn[d].flight = <<>> /\ ~conn[d].seen /\ app[d].state # "send"  BY <1>7
      <4> HIDE DEF p
      <4>5. a.ptr + a.len = told'[p].given + 1  BY <1>3, <4>2, <4>3
      <4>6. Len(peer[p].got) = told[p].given => Len(peer[p].got) = a.ptr - 1 + 0
        BY <4>2, <4>3
      <4>7. Even(conn[d], a, peer[p].got, told'[p], 0)
        BY <3>1, <4>2, <4>3, <4>4, <4>5, <4>6, Zenon DEF Even
      <4> QED  BY <4>1, <4>3, <4>7
    <3> QED  BY <3>2, <3>3, <3>4
  <2>4. ASSUME conn'[d].peer \in Peers, owner'[d] = conn'[d].peer PROVE Balanced(d)'
    <3>1. p \in Peers /\ owner[d] = p  BY <1>1, <2>4
    <3>2. Part(d)' = 0
      <4>1. me.c = d => app'[d].len = me.n  BY <2>3, <3>1
      <4> QED  BY <1>1, <1>3, <4>1 DEF Part, SendCall
    <3> QED  BY <1>1, <2>3, <3>1, <3>2 DEF Balanced
  <2> QED  BY <1>1, <2>1, <2>2, <2>4
<1> QED  BY <1>10, <1>11, <1>12, <1>13 DEF SInv

\* A recv that times out is not about what was sent.
LEMMA TimesOutBalances ==
  ASSUME NetAssumption, IInv, SInv, TimesOut
  PROVE  SInv'
<1> DEFINE c  == me.c
           a1 == [app[c] EXCEPT !.res = "timedout"]
           a  == [a1 EXCEPT !.state = "idle"]
<1>1. /\ pc = "spin" /\ me.timed /\ app' = [app EXCEPT ![c] = a]
      /\ conn' = conn /\ accept' = accept /\ pc' = pc /\ me' = me /\ owner' = owner
      /\ peer' = peer /\ told' = told
  BY Zenon DEF TimesOut
<1>2. c \in Conns /\ me.call = "recv"
  BY <1>1 DEF IInv, OneCall
<1>3. app \in [Conns -> AppType] /\ app[c] \in AppType
  BY <1>2 DEF IInv, TypeOK
<1>4. a.state = "idle"
  <2>1. a1 \in AppType  BY <1>3 DEF AppType, Errors
  <2> HIDE DEF a1
  <2> QED  BY <2>1 DEF AppType
<1> HIDE DEF a
<1>5. app'[c] = a /\ \A d \in Conns : d # c => app'[d] = app[d]
  BY <1>1, <1>2, <1>3
<1>6. app[c].state # "send" /\ \A d \in Conns : ~SendCall(d)
  BY <1>1, <1>2 DEF IInv, OneCall, SendCall
<1>i. Flight /\ Books /\ Fresh /\ Accounts  BY DEF SInv
<1> HIDE DEF c
<1>7. Flight' /\ Books' /\ Fresh'
  BY <1>i, <1>1, <1>5, <1>6 DEF Flight, Books, Fresh, Untouched, Blank
<1>8. Accounts'
  <2> SUFFICES ASSUME NEW d \in Conns
               PROVE  /\ conn'[d].tcp \in Handshake => peer'[conn'[d].peer].got = <<>>
                      /\ Coming(d)' => Blank(told'[conn'[d].peer], peer'[conn'[d].peer].got)
                      /\ conn'[d].peer \in Peers /\ owner'[d] = conn'[d].peer => Balanced(d)'
    BY Zenon DEF Accounts, Untouched
  <2>1. conn'[d].tcp \in Handshake => peer'[conn'[d].peer].got = <<>>
    BY <1>i, <1>1 DEF Accounts
  <2>2. Coming(d)' => Blank(told'[conn'[d].peer], peer'[conn'[d].peer].got)
    <3>1. Coming(d)' => Coming(d)  BY <1>1 DEF Coming, Handing
    <3> QED  BY <1>i, <1>1, <3>1 DEF Accounts, Untouched
  <2>3. ASSUME conn[d].peer \in Peers, owner[d] = conn[d].peer
        PROVE  Even(conn[d], app'[d], peer[conn[d].peer].got, told[conn[d].peer], 0)
    <3>1. Even(conn[d], app[d], peer[conn[d].peer].got, told[conn[d].peer], 0)
      <4>1. Part(d) = 0  BY <1>6 DEF Part
      <4> QED  BY <1>i, <2>3, <4>1 DEF Accounts, Balanced
    <3>2. app'[d] = app[d] \/ (app'[d].state # "send" /\ app[d].state # "send")
      BY <1>4, <1>5, <1>6
    <3> QED  BY <3>1, <3>2 DEF Even
  <2>4. ASSUME conn'[d].peer \in Peers, owner'[d] = conn'[d].peer PROVE Balanced(d)'
    <3>1. Part(d)' = 0  BY <1>1, <1>6 DEF Part, SendCall
    <3> QED  BY <1>1, <2>3, <2>4, <3>1 DEF Balanced
  <2> QED  BY <2>1, <2>2, <2>4
<1> QED  BY <1>7, <1>8 DEF SInv

\* At first nothing is owned, given or got.
LEMMA InitSInv == NetAssumption /\ Init => SInv
<1> SUFFICES ASSUME NetAssumption, Init PROVE SInv  OBVIOUS
<1>1. \A c \in Conns : /\ conn[c].tcp = "closed" /\ conn[c].peer = NoPeer /\ conn[c].mss = Mss
                       /\ conn[c].flight = <<>> /\ ~conn[c].seen
  BY DEF Init, NoConn
<1>2. \A p \in Peers : told[p].given = 0 /\ told[p].sent = 0 /\ peer[p].got = <<>>
  BY DEF Init
<1>3. pc = "idle" /\ NoPeer \notin Peers  BY DEF Init, NetAssumption
<1>4. Flight  BY <1>1 DEF Flight
<1>5. Books  BY <1>2, <1>3 DEF Books
<1>6. Fresh  BY <1>2 DEF Fresh, Untouched, Blank
<1>7. Accounts  BY <1>1, <1>3 DEF Accounts, Coming, Handshake
<1> QED  BY <1>4, <1>5, <1>6, <1>7 DEF SInv

\* Nothing that stands still is an exception.
LEMMA BooksStandStill ==
  ASSUME SInv, UNCHANGED vars
  PROVE  SInv'
<1>1. /\ conn' = conn /\ app' = app /\ accept' = accept /\ pc' = pc /\ me' = me
      /\ owner' = owner /\ peer' = peer /\ told' = told
  BY DEF vars
<1>2. Flight' /\ Books' /\ Fresh'
  BY <1>1 DEF SInv, Flight, Books, Fresh, Untouched, Blank
<1>3. Accounts'
  <2>1. \A d \in Conns : Coming(d)' <=> Coming(d)  BY <1>1 DEF Coming, Handing
  <2>2. \A d \in Conns : Balanced(d)' <=> Balanced(d)
    BY <1>1, Zenon DEF Balanced, Part, SendCall
  <2>3. Accounts  BY DEF SInv
  <2> QED  BY <1>1, <2>1, <2>2, <2>3, Zenon DEF Accounts, Untouched
<1> QED  BY <1>2, <1>3 DEF SInv

\* Every step keeps the accounts.
LEMMA NextSInv == ASSUME NetAssumption, Steady, IInv, SInv, [Next]_vars PROVE SInv'
<1>1. CASE UNCHANGED vars  BY <1>1, BooksStandStill
<1>2. CASE Calls
  <2>1. CASE Socket  BY <2>1, SocketBalances
  <2>2. ASSUME NEW c \in Conns, NEW p \in Peers, Connect(c, p) PROVE SInv'
    BY <2>2, ConnectBalances
  <2>3. CASE \E timed \in BOOLEAN : Accept(timed)  BY <2>3, AcceptingBalances
  <2>4. ASSUME NEW c \in Conns, NEW n \in Sizes, Request("send", c, n, FALSE, FALSE) PROVE SInv'
    BY <2>4, RequestBalances
  <2>5. ASSUME NEW c \in Conns, NEW n \in Sizes, NEW line \in BOOLEAN, NEW timed \in BOOLEAN,
               Request("recv", c, n, line, timed)
        PROVE  SInv'
    BY <2>5, RequestBalances
  <2>6. ASSUME NEW c \in Conns, Request("close", c, 0, FALSE, FALSE) PROVE SInv'
    BY <2>6, RequestBalances
  <2> QED  BY <1>2, <2>1, <2>2, <2>3, <2>4, <2>5, <2>6 DEF Calls
<1>3. CASE Program
  BY <1>3, PostBalances, ReturnsBalances, AcceptingBalances DEF Program
<1>4. CASE TimesOut \/ AcceptTimesOut
  BY <1>4, TimesOutBalances, AcceptingBalances
<1>5. ASSUME NEW p \in Peers, Syn(p) PROVE SInv'
  BY <1>5, SynBalances
<1>6. ASSUME NEW c \in Conns, Network(c) PROVE SInv'
  <2>1. ASSUME NEW k \in 0..Mss, Connected(c, k) PROVE SInv'
    BY <2>1, ConnectedBalances
  <2>2. ASSUME NEW k \in 0..Mss, NEW ack \in BOOLEAN, Fin(c, k, ack) PROVE SInv'
    BY <2>2, FinBalances
  <2>3. CASE PeerGets(c)  BY <2>3, PeerGetsBalances
  <2>4. ASSUME NEW k \in 0..Mss, NEW ack \in BOOLEAN, NEW window \in Windows,
               Segment(c, k, ack, window)
        PROVE  SInv'
    BY <2>4, SegmentBalances
  <2>5. CASE Reset(c)  BY <2>5, ResetBalances
  <2>6. CASE LastAck(c)  BY <2>6, LastAckBalances
  <2>7. CASE PeerCloses(c)  BY <2>7, PeerClosesBalances
  <2> QED  BY <1>6, <2>1, <2>2, <2>3, <2>4, <2>5, <2>6, <2>7 DEF Network
<1>7. ASSUME NEW c \in Conns, Timers(c) PROVE SInv'
  BY <1>7, RetransmitBalances, GiveUpBalances, ForgetBalances DEF Timers
<1>8. ASSUME NEW c \in Conns, Poll(c) PROVE SInv'
  BY <1>8, PollBalances
<1> QED  BY <1>1, <1>2, <1>3, <1>4, <1>5, <1>6, <1>7, <1>8 DEF Next

\* The accounts tell what the peer has got.
LEMMA AccountsTell ==
  ASSUME IInv, SInv
  PROVE  SentArrived
<1> SUFFICES ASSUME NEW c \in Conns, owner[c] # NoPeer, owner[c] = conn[c].peer
             PROVE  /\ told[owner[c]].sent <= Len(peer[owner[c]].got)
                    /\ peer[owner[c]].got = Bytes(1, Len(peer[owner[c]].got))
  BY DEF SentArrived
<1> DEFINE p == conn[c].peer
<1>1. p \in Peers  BY DEF IInv, TypeOK, Hosts
<1>2. Even(conn[c], app[c], peer[p].got, told[p], Part(c))
  BY <1>1 DEF SInv, Accounts, Balanced
<1>3. peer[p].got \in Stream /\ told[p].sent \in Nat  BY <1>1, PeerFacts
<1>4. Part(c) \in Nat /\ Len(peer[p].got) \in Nat  BY <1>3, PartFacts, StreamLen
<1>5. peer[p].got = Bytes(1, Len(peer[p].got)) /\ told[p].sent + Part(c) <= Len(peer[p].got)
  BY <1>2, Zenon DEF Even
<1>6. \A x, y, z \in Nat : x + y <= z => x <= z  OBVIOUS
<1>7. told[p].sent <= Len(peer[p].got)  BY <1>3, <1>4, <1>5, <1>6, Zenon
<1> QED  BY <1>5, <1>7

\* The number send returns is the number of bytes that have arrived, each once and in
\* order, when no peer announces a window smaller than a segment.  (With such a window it
\* is not: the callback counts a segment of the size the peer now wants for the one it
\* had sent.)
THEOREM SendTellsTheTruth == Steady => (Spec => []SentArrived)
<1> SUFFICES ASSUME Steady PROVE Spec => []SentArrived  OBVIOUS
<1>1. Init => IInv /\ SInv  BY NetAssumption, InitIInv, InitSInv
<1>2. IInv /\ SInv /\ [Next]_vars => IInv' /\ SInv'
  BY NetAssumption, NextIInv, NextSInv
<1>3. IInv /\ SInv => SentArrived  BY AccountsTell
<1> QED  BY <1>1, <1>2, <1>3, PTL DEF Spec
=============================================================================
