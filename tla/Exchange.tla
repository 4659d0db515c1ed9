------------------------------ MODULE Exchange ------------------------------
(***************************************************************************)
(* Posts, requests and bidirectional streams multiplexed over one gofast   *)
(* connection: the stream objects and opaque numbers of both ends, the     *)
(* table livestreams that syncRx() keeps, and the packets between them.    *)
(*                                                                         *)
(* Either end takes a stream object (and with it an opaque number) from    *)
(* its pool pStrms, tells its own syncRx() routine about it through rxch,  *)
(* and sends packets tagged with the opaque.  The receiving syncRx() has   *)
(* nothing but the opaque and livestreams to decide what a packet is: a    *)
(* request and its response are the same frame, 0x81.                      *)
(*                                                                         *)
(* doTx() and the socket are the FIFO sequence wire[p] (module TxPath is   *)
(* about doTx()); closing the transport is not part of this module.        *)
(***************************************************************************)
EXTENDS Naturals, Sequences

CONSTANTS
    PeerA, PeerB,   \* the two ends of the connection
    Caller,         \* application routines, each calling on one end
    Home,           \* Home[c] is the end that routine c calls on
    Opaque,         \* every opaque number
    OpaqueOf,       \* OpaqueOf[p], the numbers configured on end p
    ChanSize,       \* "chansize", the capacity of rxch
    DeferredClose,  \* TRUE: the initiator of a stream answers the remote's
                    \* finish after its callback returned, FALSE: within it
    NilCallback,    \* routines that open streams with a nil StreamCallback
    MaxExch,        \* bound: exchanges begun
    MaxMsg          \* bound: stream messages sent

Peer == {PeerA, PeerB}

Op == {"post", "request", "start"}

Other(p) == IF p = PeerA THEN PeerB ELSE PeerA

\* An exchange, for the properties: who began it and how.  It stands for the
\* closure given as StreamCallback, which no two calls share.
Exch == [n : 1..MaxExch, c : Caller, op : Op]
Nil == [n |-> 0]

\* A routine that has not taken a stream yet has no opaque.
NoOpaque == 0

ASSUME ExchangeAssumption ==
    /\ PeerA # PeerB
    /\ Home \in [Caller -> Peer]
    /\ NoOpaque \notin Opaque
    /\ OpaqueOf \in [Peer -> SUBSET Opaque]
    /\ ChanSize \in Nat \ {0}
    /\ DeferredClose \in BOOLEAN
    /\ NilCallback \subseteq Caller
    /\ MaxExch \in Nat
    /\ MaxMsg \in Nat

\* A packet carries its frame type and its opaque; x is a history component.
\* "0x81" is both a request and a response.
FrameType == {"post", "0x81", "start", "stream", "finish"}
Packet == [t : FrameType, o : Opaque, x : Exch]

\* What rxch carries besides packets: rxpacket{stream: stream}.
Update == [t : {"update"}, o : Opaque]

Pc == {"idle", "tell", "tx", "wait", "own", "untell"}

VARIABLES
    pStrms,     \* pStrms[p][o]: how many times stream o is in p's pool
    rxcallb,    \* rxcallb[p][o]: callback of p's local stream object o
    live,       \* live[p][o]: livestreams[o] of p: none, a local or a remote
    rstrm,      \* rstrm[p][o]: exchange of the remote stream in livestreams
    rxch,       \* rxch[p]: packets and stream updates for p's syncRx()
    wire,       \* wire[p]: packets sent by p, not yet read by the other end
    cs,         \* cs[c]: what application routine c is doing
    done,       \* requests whose donech is closed
    closed,     \* streams whose initiator has called Close()
    serving,    \* serving[p]: streams the application at p owes an end
    nexch,      \* number of exchanges begun
    nmsg        \* number of stream messages sent

vars == <<pStrms, rxcallb, live, rstrm, rxch, wire, cs, done, closed,
          serving, nexch, nmsg>>

Init ==
    /\ pStrms = [p \in Peer |-> [o \in Opaque |->
                    IF o \in OpaqueOf[p] THEN 1 ELSE 0]]
    /\ rxcallb = [p \in Peer |-> [o \in Opaque |-> Nil]]
    /\ live = [p \in Peer |-> [o \in Opaque |-> "none"]]
    /\ rstrm = [p \in Peer |-> [o \in Opaque |-> Nil]]
    /\ rxch = [p \in Peer |-> <<>>]
    /\ wire = [p \in Peer |-> <<>>]
    /\ cs = [c \in Caller |-> [pc |-> "idle", o |-> NoOpaque, x |-> Nil]]
    /\ done = {}
    /\ closed = {}
    /\ serving = [p \in Peer |-> {}]
    /\ nexch = 0
    /\ nmsg = 0

-----------------------------------------------------------------------------
(* Helpers. *)

Send(p, t, o, x) ==
    wire' = [wire EXCEPT ![p] = Append(@, [t |-> t, o |-> o, x |-> x])]

Goto(c, pc) == cs' = [cs EXCEPT ![c].pc = pc]

\* Mutant of putch: rxch is made with room for a batch too, as txch is.
putchRoomy(p, item) ==
    /\ Len(rxch[p]) < ChanSize + 1
    /\ rxch' = [rxch EXCEPT ![p] = Append(@, item)]

\* `ch <- val` of putch(), enabled while rxch has room.
putch(p, item) ==
    /\ Len(rxch[p]) < ChanSize
    /\ rxch' = [rxch EXCEPT ![p] = Append(@, item)]

\* `t.pStrms <- stream`.  The channel has a slot for every stream object, so
\* the send could block only if an object were in it twice (PoolExclusive).
ToPool(p, o) == pStrms' = [pStrms EXCEPT ![p][o] = @ + 1]

-----------------------------------------------------------------------------
(* Application routines: Post(), Request() and Stream() of Transport. *)

\* First half of getlocalstream(): any free stream, its callback installed.
getlocalstream(c, op) ==
    LET p == Home[c]
        x == [n |-> nexch + 1, c |-> c, op |-> op]
    IN  /\ cs[c].pc = "idle"
        /\ nexch < MaxExch
        /\ nexch' = nexch + 1
        /\ \E o \in OpaqueOf[p] :
            /\ pStrms[p][o] > 0
            /\ pStrms' = [pStrms EXCEPT ![p][o] = @ - 1]
            /\ rxcallb' = [rxcallb EXCEPT ![p][o] =
                   IF op = "request" \/ (op = "start" /\ c \notin NilCallback)
                   THEN x ELSE Nil]
            /\ cs' = [cs EXCEPT ![c] =
                   [pc |-> IF op = "post" THEN "tx" ELSE "tell",
                    o |-> o, x |-> x]]
        /\ UNCHANGED <<live, rstrm, rxch, wire, done, closed, serving, nmsg>>

\* Mutant of TellRx: tellrx is false.
TellRxSkipped(c) ==
    /\ cs[c].pc = "tell"
    /\ Goto(c, "tx")
    /\ UNCHANGED <<pStrms, rxcallb, live, rstrm, rxch, wire, done, closed,
                   serving, nexch, nmsg>>

\* Second half, when tellrx: syncRx() learns of the stream before anything
\* is sent on it.
TellRx(c) ==
    /\ cs[c].pc = "tell"
    /\ putch(Home[c], [t |-> "update", o |-> cs[c].o])
    /\ Goto(c, "tx")
    /\ UNCHANGED <<pStrms, rxcallb, live, rstrm, wire, done, closed, serving,
                   nexch, nmsg>>

\* txasync() of Post(), whose deferred putstream() gives the stream back.
Post(c) ==
    /\ cs[c].pc = "tx"
    /\ cs[c].x.op = "post"
    /\ Send(Home[c], "post", cs[c].o, cs[c].x)
    /\ ToPool(Home[c], cs[c].o)
    /\ Goto(c, "idle")
    /\ UNCHANGED <<rxcallb, live, rstrm, rxch, done, closed, serving, nexch,
                   nmsg>>

\* tx() of Request(), which then waits on donech.
Request(c) ==
    /\ cs[c].pc = "tx"
    /\ cs[c].x.op = "request"
    /\ Send(Home[c], "0x81", cs[c].o, cs[c].x)
    /\ Goto(c, "wait")
    /\ UNCHANGED <<pStrms, rxcallb, live, rstrm, rxch, done, closed, serving,
                   nexch, nmsg>>

\* Mutant of RequestDone: the callback stays.
RequestDoneKeepsCallback(c) ==
    /\ cs[c].pc = "wait"
    /\ cs[c].x \in done
    /\ Goto(c, "untell")
    /\ UNCHANGED <<pStrms, rxcallb, live, rstrm, rxch, wire, done, closed,
                   serving, nexch, nmsg>>

\* donech is closed: the callback is removed ...
RequestDone(c) ==
    /\ cs[c].pc = "wait"
    /\ cs[c].x \in done
    /\ rxcallb' = [rxcallb EXCEPT ![Home[c]][cs[c].o] = Nil]
    /\ Goto(c, "untell")
    /\ UNCHANGED <<pStrms, live, rstrm, rxch, wire, done, closed, serving,
                   nexch, nmsg>>

\* Mutant of putstream: tellrx is false, the stream goes to the pool at once.
putstreamUntold(c) ==
    /\ cs[c].pc = "untell"
    /\ ToPool(Home[c], cs[c].o)
    /\ Goto(c, "idle")
    /\ UNCHANGED <<rxcallb, live, rstrm, rxch, wire, done, closed, serving,
                   nexch, nmsg>>

\* ... and the deferred putstream() leaves the release to syncRx().
putstream(c) ==
    /\ cs[c].pc = "untell"
    /\ putch(Home[c], [t |-> "update", o |-> cs[c].o])
    /\ Goto(c, "idle")
    /\ UNCHANGED <<pStrms, rxcallb, live, rstrm, wire, done, closed, serving,
                   nexch, nmsg>>

\* tx() of Transport.Stream(); the stream is now the caller's.
Stream(c) ==
    /\ cs[c].pc = "tx"
    /\ cs[c].x.op = "start"
    /\ Send(Home[c], "start", cs[c].o, cs[c].x)
    /\ Goto(c, "own")
    /\ UNCHANGED <<pStrms, rxcallb, live, rstrm, rxch, done, closed, serving,
                   nexch, nmsg>>

\* Stream.Stream() by the initiator.
StreamMsg(c) ==
    /\ cs[c].pc = "own"
    /\ nmsg < MaxMsg
    /\ nmsg' = nmsg + 1
    /\ Send(Home[c], "stream", cs[c].o, cs[c].x)
    /\ UNCHANGED <<pStrms, rxcallb, live, rstrm, rxch, cs, done, closed,
                   serving, nexch>>

\* Stream.Close() by the initiator: a finish packet and nothing else.
StreamClose(c) ==
    /\ cs[c].pc = "own"
    /\ Send(Home[c], "finish", cs[c].o, cs[c].x)
    /\ closed' = closed \cup {cs[c].x}
    /\ Goto(c, "idle")
    /\ UNCHANGED <<pStrms, rxcallb, live, rstrm, rxch, done, serving, nexch,
                   nmsg>>

-----------------------------------------------------------------------------
(* The application on the other side: what a RequestCallback was given. *)

\* Stream.Response(), once for every request.
Response(p, e) ==
    /\ e.x.op = "request"
    /\ Send(p, "0x81", e.o, e.x)
    /\ serving' = [serving EXCEPT ![p] = @ \ {e}]
    /\ UNCHANGED <<pStrms, rxcallb, live, rstrm, rxch, cs, done, closed,
                   nexch, nmsg>>

\* Stream.Stream() on a stream opened by the remote.
RemoteMsg(p, e) ==
    /\ e.x.op = "start"
    /\ nmsg < MaxMsg
    /\ nmsg' = nmsg + 1
    /\ Send(p, "stream", e.o, e.x)
    /\ UNCHANGED <<pStrms, rxcallb, live, rstrm, rxch, cs, done, closed,
                   serving, nexch>>

\* Stream.Close() on a stream opened by the remote.
RemoteClose(p, e) ==
    /\ e.x.op = "start"
    /\ Send(p, "finish", e.o, e.x)
    /\ serving' = [serving EXCEPT ![p] = @ \ {e}]
    /\ UNCHANGED <<pStrms, rxcallb, live, rstrm, rxch, cs, done, closed,
                   nexch, nmsg>>

-----------------------------------------------------------------------------
(* The receive side: doRx() and syncRx(). *)

\* doRx() reads the next packet off the connection into rxch.
doRx(p) ==
    /\ wire[Other(p)] # <<>>
    /\ putch(p, Head(wire[Other(p)]))
    /\ wire' = [wire EXCEPT ![Other(p)] = Tail(@)]
    /\ UNCHANGED <<pStrms, rxcallb, live, rstrm, cs, done, closed, serving,
                   nexch, nmsg>>

\* syncRx() takes the next item of rxch.
Next_rxpkt(p, k) ==
    /\ rxch[p] # <<>>
    /\ k = Head(rxch[p])
    /\ rxch' = [rxch EXCEPT ![p] = Tail(@)]

\* The callback of the stream in livestreams[o].
Callback(p, o) ==
    CASE live[p][o] = "local"  -> rxcallb[p][o]
      [] live[p][o] = "remote" -> rstrm[p][o]
      [] OTHER                 -> Nil

\* streamupdate(): a local stream enters the table, or leaves it for the pool.
streamupdate(p) ==
    \E k \in Update :
        /\ Next_rxpkt(p, k)
        /\ \/ /\ rxcallb[p][k.o] # Nil
              /\ live' = [live EXCEPT ![p][k.o] = "local"]
              /\ UNCHANGED pStrms
           \/ /\ rxcallb[p][k.o] = Nil
              /\ live[p][k.o] # "none"
              /\ live' = [live EXCEPT ![p][k.o] = "none"]
              /\ ToPool(p, k.o)
           \/ /\ rxcallb[p][k.o] = Nil
              /\ live[p][k.o] = "none"
              /\ UNCHANGED <<live, pStrms>>
        /\ UNCHANGED <<rxcallb, rstrm, wire, cs, done, closed, serving, nexch,
                       nmsg>>

\* handlepkt(), a finish on a stream in the table: the callback is told, and
\* may Close() its own side before putstream() hands a local stream back.
handleFinish(p) ==
    LET k == Head(rxch[p])
        x == Callback(p, k.o)
        answers == /\ live[p][k.o] = "local"
                   /\ x # Nil
                   /\ x.op = "start"
                   /\ x \notin closed
                   /\ ~DeferredClose
    IN  /\ Next_rxpkt(p, k)
        /\ k.t = "finish"
        /\ live[p][k.o] # "none"
        /\ done' = IF x # Nil /\ x.op = "request" THEN done \cup {x} ELSE done
        /\ \/ /\ answers
              /\ Send(p, "finish", k.o, x)
              /\ closed' = closed \cup {x}
              /\ Goto(x.c, "idle")
           \/ /\ ~answers
              /\ UNCHANGED <<wire, closed, cs>>
        /\ IF live[p][k.o] = "local" THEN ToPool(p, k.o) ELSE UNCHANGED pStrms
        /\ live' = [live EXCEPT ![p][k.o] = "none"]
        /\ UNCHANGED <<rxcallb, rstrm, serving, nexch, nmsg>>

\* handlepkt(), a post, request or start on an opaque that is not in the
\* table: the RequestCallback is dispatched, and a start enters the table.
handleOpen(p) ==
    LET k == Head(rxch[p]) IN
    /\ Next_rxpkt(p, k)
    /\ k.t \in {"post", "0x81", "start"}
    /\ live[p][k.o] = "none"
    /\ serving' = IF k.t = "post" THEN serving
                  ELSE [serving EXCEPT ![p] = @ \cup {[o |-> k.o, x |-> k.x]}]
    /\ \/ /\ k.t = "start"
          /\ live' = [live EXCEPT ![p][k.o] = "remote"]
          /\ rstrm' = [rstrm EXCEPT ![p][k.o] = k.x]
       \/ /\ k.t # "start"
          /\ UNCHANGED <<live, rstrm>>
    /\ UNCHANGED <<pStrms, rxcallb, wire, cs, done, closed, nexch, nmsg>>

\* handlepkt(), anything but a finish on a stream in the table: its callback
\* is called.  The callback of a request closes donech, whatever arrived.
handleLive(p) ==
    LET k == Head(rxch[p])
        x == Callback(p, k.o)
    IN  /\ Next_rxpkt(p, k)
        /\ k.t \in FrameType \ {"finish"}
        /\ live[p][k.o] # "none"
        /\ done' = IF x # Nil /\ x.op = "request" THEN done \cup {x} ELSE done
        /\ UNCHANGED <<pStrms, rxcallb, live, rstrm, wire, cs, closed,
                       serving, nexch, nmsg>>

\* handlepkt(), a stream message or finish for a stream not in the table.
handleDrop(p) ==
    LET k == Head(rxch[p]) IN
    /\ Next_rxpkt(p, k)
    /\ k.t \in {"stream", "finish"}
    /\ live[p][k.o] = "none"
    /\ UNCHANGED <<pStrms, rxcallb, live, rstrm, wire, cs, done, closed,
                   serving, nexch, nmsg>>

-----------------------------------------------------------------------------

syncRx(p) == \/ streamupdate(p)
             \/ handleFinish(p)
             \/ handleOpen(p)
             \/ handleLive(p)
             \/ handleDrop(p)

\* The steps a routine takes once it has begun an exchange.
Proceed(c) == \/ TellRx(c)
              \/ Post(c)
              \/ Request(c)
              \/ RequestDone(c)
              \/ putstream(c)
              \/ Stream(c)

Next == \/ \E c \in Caller : \/ \E op \in Op : getlocalstream(c, op)
                             \/ Proceed(c)
                             \/ StreamMsg(c)
                             \/ StreamClose(c)
        \/ \E p \in Peer : \/ doRx(p)
                           \/ syncRx(p)
                           \/ \E e \in serving[p] : \/ Response(p, e)
                                                    \/ RemoteMsg(p, e)
                                                    \/ RemoteClose(p, e)

Spec == Init /\ [][Next]_vars

\* Go's scheduler runs every routine that can run; applications answer the
\* requests they are given and, as docs/gettingstarted.md demands, close
\* their side of every stream.  Nobody has to begin an exchange or to send
\* stream messages.
Fairness ==
    /\ \A p \in Peer : WF_vars(doRx(p)) /\ WF_vars(syncRx(p))
    /\ \A c \in Caller : WF_vars(Proceed(c)) /\ WF_vars(StreamClose(c))
    /\ \A p \in Peer :
        WF_vars(\E e \in serving[p] : Response(p, e) \/ RemoteClose(p, e))

FairSpec == Spec /\ Fairness

-----------------------------------------------------------------------------
(* Properties. *)

Item == Packet \cup Update

\* The types of the variables; rxch never holds more than chansize items.
TypeOK ==
    /\ pStrms \in [Peer -> [Opaque -> Nat]]
    /\ rxcallb \in [Peer -> [Opaque -> Exch \cup {Nil}]]
    /\ live \in [Peer -> [Opaque -> {"none", "local", "remote"}]]
    /\ rstrm \in [Peer -> [Opaque -> Exch \cup {Nil}]]
    /\ rxch \in [Peer -> Seq(Item)]
    /\ \A p \in Peer : Len(rxch[p]) =< ChanSize
    /\ wire \in [Peer -> Seq(Packet)]
    /\ cs \in [Caller -> [pc : Pc, o : Opaque \cup {NoOpaque},
                          x : Exch \cup {Nil}]]
    /\ \A c \in Caller : cs[c].pc # "idle" =>
           cs[c].o \in OpaqueOf[Home[c]] /\ cs[c].x \in Exch
    /\ done \in SUBSET Exch
    /\ closed \in SUBSET Exch
    /\ serving \in [Peer -> SUBSET [o : Opaque, x : Exch]]
    /\ nexch \in 0..MaxExch
    /\ nmsg \in 0..MaxMsg

\* Whether packet k, at end p, was sent by the end that began its exchange.
FromInitiator(p, k) == Home[k.x.c] # p

\* livestreams[k.o] of p is what the sender of packet k believes it is: what
\* opens an exchange finds no entry, what the initiator sends later finds the
\* remote stream that its own start made, and what the responder sends finds
\* the local stream whose callback belongs to that very exchange.
FindsItsStream(p, k) ==
    IF FromInitiator(p, k)
    THEN IF k.t \in {"post", "0x81", "start"}
         THEN live[p][k.o] = "none"
         ELSE live[p][k.o] = "remote" /\ rstrm[p][k.o] = k.x
    ELSE IF k.x.op = "start" /\ k.x.c \in NilCallback
         THEN live[p][k.o] = "none"
         ELSE live[p][k.o] = "local" /\ rxcallb[p][k.o] = k.x

\* handlepkt() never mistakes a packet: the one it is about to handle is
\* dispatched to the exchange it was sent for, although a request and a
\* response are the same frame and opaques are reused.
RoutedRight ==
    \A p \in Peer :
        rxch[p] # <<>> /\ Head(rxch[p]).t # "update"
            => FindsItsStream(p, Head(rxch[p]))

\* Application routine c still uses the stream object that it took.
Holds(c, p, o) == Home[c] = p /\ cs[c].o = o /\ cs[c].pc # "idle"

\* A local stream object, hence an opaque, has at most one user: it is in
\* pStrms at most once, and while it is there no routine holds it and
\* livestreams does not refer to it; and no two routines hold it.
PoolExclusive ==
    \A p \in Peer, o \in Opaque :
        /\ pStrms[p][o] =< 1
        /\ pStrms[p][o] = 1 =>
               /\ live[p][o] # "local"
               /\ \A c \in Caller : ~Holds(c, p, o)
        /\ \A c, d \in Caller : Holds(c, p, o) /\ Holds(d, p, o) => c = d

\* Nothing is under way: every call has returned, every stream is closed by
\* both sides, and every packet is handled.
Quiescent ==
    /\ \A c \in Caller : cs[c].pc = "idle"
    /\ \A p \in Peer : rxch[p] = <<>> /\ wire[p] = <<>> /\ serving[p] = {}

\* What the exchanges leave behind when all are over: an empty livestreams
\* at both ends and a full pStrms.  No stream object leaks, unless it was
\* opened with a nil callback.
QuiescentClean ==
    Quiescent => \A p \in Peer, o \in Opaque :
                    /\ live[p][o] = "none"
                    /\ o \in OpaqueOf[p] /\ pStrms[p][o] = 0 =>
                           \E c \in NilCallback : Home[c] = p

\* Request() returns: the response reaches its donech and nothing else
\* swallows it.
RequestsReturn ==
    \A c \in Caller : cs[c].pc = "wait" ~> cs[c].pc = "idle"

\* A stream object taken from pStrms comes back once both sides have closed,
\* on an end where no stream is opened with a nil callback: such a stream
\* never enters livestreams, and nothing gives it back.
StreamsComeBack ==
    \A p \in Peer \ {Home[c] : c \in NilCallback} : \A o \in OpaqueOf[p] :
        pStrms[p][o] = 0 ~> pStrms[p][o] = 1
=============================================================================
