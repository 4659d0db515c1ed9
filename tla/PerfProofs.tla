----------------------------- MODULE PerfProofs -----------------------------
(***************************************************************************)
(* Proofs about Perf, for all options: any number of operations, routines, *)
(* messages to stream and heartbeats, of either program.                   *)
(*                                                                         *)
(* The invariant follows each stream object of the client through its uses *)
(* (Streams): what its exchange has on the wires, in livestreams of both   *)
(* ends and with a routine fits one of a few stages.  From the stages      *)
(* follows what a packet meets when it is handled.  Cover says why a       *)
(* routine's Whoami() is enough to close: each packet under way is         *)
(* followed by a Whoami() that is not answered, or by a routine that has   *)
(* not yet sent its own.                                                   *)
(* Issued and Delivered balance the counters of both ends with what is     *)
(* still to be done or under way, which is nothing but heartbeats when the *)
(* client closes.                                                          *)
(***************************************************************************)
EXTENDS Perf, SequenceLemmas, FiniteSetTheorems, TLAPS

-----------------------------------------------------------------------------
(* The invariant. *)

\* Packets, whatever the options; those of stream o, and those of frame type
\* t.  The opaque of a post is not that of a stream.
Message == [t : {"post", "0x81", "start", "stream", "finish"},
            id : {"msgPost", "msgReqsp", "msgStreamRx", "msgStreamTx",
                  "whoami", "heartbeat", Nothing},
            o : Nat]
OnStream(o) == {k \in Message : k.o = o /\ k.t # "post"}
Kind(t) == {k \in Message : k.t = t}

\* Where a routine can be, and its record.
Pc == {"range", "whoami", "sendpost", "sendreq", "wait", "bye",
       "sendstream", "rcvstream", "streaming", "rcv", "done"}
Routine == [pc : Pc, o : Opaque \cup {0}, left : 0..options.stream]

\* TypeOK without the one part that is no type: the pool has no duplicates.
Types ==
    /\ options \in Options
    /\ fed \in 0..options.count /\ shut \in BOOLEAN
    /\ doch \in [Worker -> Seq({doit(options.do)})]
    /\ wk \in [Worker -> Routine]
    /\ donech \subseteq Worker
    /\ main \in {"wait", "closed", "reported"}
    /\ wire \in [End -> Seq(Packet)]
    /\ live \in [End -> SUBSET Opaque]
    /\ pStrms \in Seq(Opaque)
    /\ rxcallb \in [Opaque -> Worker \cup {NoWorker}]
    /\ returning \subseteq Opaque
    /\ senders \subseteq [o : Opaque, left : 0..options.stream]
    /\ stat \in [End -> [Counter -> Nat]]
    /\ counting \in [End -> Counter \cup {Nothing}]
    /\ nbeat \in [End -> 0..options.maxbeat]

\* The program is perf and does do; where the routines can be then, and
\* where they use the stream object in their record.
Perfs(do) == options.prog = "perf" /\ options.do = do
Pcs == {"range", "whoami", "bye", "done"}
       \cup (IF options.do = "post" THEN {"sendpost"} ELSE {})
       \cup (IF Perfs("request") THEN {"sendreq", "wait"} ELSE {})
       \cup (IF Perfs("streamtx") THEN {"sendstream", "streaming"} ELSE {})
       \cup (IF Perfs("streamrx") THEN {"rcvstream", "rcv"} ELSE {})
HoldPc == {"wait", "bye", "streaming"}

\* What feeder, routines and main know of each other.
Flow ==
    /\ \A w \in Worker :
        /\ wk[w].pc \in Pcs
        /\ wk[w].pc \in HoldPc => wk[w].o \in Opaque
        /\ wk[w].pc \in {"whoami", "bye", "done"} => shut /\ doch[w] = <<>>
        /\ Len(doch[w]) =< fed
    /\ \A w \in donech : wk[w].pc \in {"wait", "bye"}
    /\ shut => fed = options.count
    /\ main # "wait" => \A w \in Worker : wk[w].pc = "done"
    /\ Endless /\ fed > 0 => \/ doch[1] # <<>>
                             \/ wk[1].pc \in {"rcvstream", "rcv"}

\* The packets that each end sends.
FromClient ==
    {k \in Packet : /\ k.o \in Opaque
                    /\ k.id = "heartbeat" => k.t = "post"
                    /\ k.t = "start" => k.id = IF Endless THEN "msgStreamTx"
                                               ELSE "msgStreamRx"}
FromServer ==
    {k \in Packet : IF k.t = "post" THEN k.id = "heartbeat" /\ k.o = 0
                    ELSE k.id # "heartbeat" /\ k.o \in Opaque}

Packets == /\ wire["client"] \in Seq(FromClient)
           /\ wire["server"] \in Seq(FromServer)

\* The routines that hold stream object o, and the server's for it.
Holder(w) == [w |-> w, pc |-> wk[w].pc, told |-> w \in donech]
Hold(o) == {Holder(w) : w \in {u \in Worker : wk[u].o = o
                                             /\ wk[u].pc \in HoldPc}}
Snd(o) == {x \in senders : x.o = o}

\* All there is of stream object o, at both ends and under way.
View(o) ==
    [c |-> Keep(OnStream(o), wire["client"]),
     s |-> Keep(OnStream(o), wire["server"]),
     lc |-> o \in live["client"], ls |-> o \in live["server"],
     ret |-> o \in returning, pool |-> o \in ToSet(pStrms),
     cb |-> rxcallb[o], hold |-> Hold(o), snd |-> Snd(o)]

\* Sequences of packets of a stream: one packet of type t, no packets but
\* "stream", the same after a start, before a finish, and between the two.
One(s, t) == Len(s) = 1 /\ s[1].t = t
Within(s) == \A i \in DOMAIN s : s[i].t = "stream"
Starting(s) == /\ s # <<>> /\ s[1].t = "start"
               /\ \A i \in DOMAIN s : i # 1 => s[i].t = "stream"
Ending(s) == /\ s # <<>> /\ s[Len(s)].t = "finish"
             /\ \A i \in DOMAIN s : i # Len(s) => s[i].t = "stream"
Whole(s) == /\ Len(s) >= 2 /\ s[1].t = "start" /\ s[Len(s)].t = "finish"
            /\ \A i \in DOMAIN s : i # 1 /\ i # Len(s) => s[i].t = "stream"

\* The stages of a stream object with view v; e is Endless.  In the pool;
\* the server may still have a stream of that opaque when e holds.
Free(v, e) ==
    /\ v.pool /\ ~v.lc /\ ~v.ret /\ v.hold = {} /\ v.snd = {}
    /\ v.c = <<>> /\ v.s = <<>> /\ (v.ls => e)

\* A request is under way, or its response, or the routine has been told.
Asked(v, e) ==
    /\ ~v.pool /\ v.lc /\ ~v.ret /\ v.snd = {} /\ (v.ls => e)
    /\ \E h \in v.hold :
        /\ v.hold = {h} /\ h.pc \in {"wait", "bye"} /\ v.cb = h.w
        /\ \/ One(v.c, "0x81") /\ v.s = <<>> /\ ~h.told
           \/ v.c = <<>> /\ One(v.s, "0x81") /\ ~h.told
           \/ v.c = <<>> /\ v.s = <<>> /\ (h.told \/ e)

\* On its way back to the pool, through rxch.
Back(v, e) ==
    /\ ~v.pool /\ v.lc /\ v.ret /\ v.hold = {} /\ v.snd = {}
    /\ v.c = <<>> /\ v.s = <<>> /\ (v.ls => e)

\* doStreamTx() streams, has closed its side, or the server has too.
Streamed(v, e) ==
    /\ ~v.pool /\ v.lc /\ ~v.ret /\ v.snd = {} /\ ~e
    /\ \/ /\ \E h \in v.hold : v.hold = {h} /\ h.pc = "streaming"
          /\ v.s = <<>>
          /\ IF v.ls THEN Within(v.c) ELSE Starting(v.c)
       \/ /\ v.hold = {}
          /\ v.s = <<>>
          /\ IF v.ls THEN Ending(v.c) ELSE Whole(v.c)
       \/ /\ v.hold = {}
          /\ v.c = <<>> /\ One(v.s, "finish") /\ ~v.ls

\* doStreamRx() has asked for a stream, the server sends it, or it has closed
\* it; or a duplicate was dropped and nobody answers.
Received(v, e) ==
    /\ ~v.pool /\ v.lc /\ ~v.ret /\ v.hold = {} /\ e
    /\ \/ One(v.c, "start") /\ v.s = <<>> /\ v.snd = {}
       \/ v.c = <<>> /\ Within(v.s) /\ \E x \in v.snd : v.snd = {x}
       \/ v.c = <<>> /\ Ending(v.s) /\ v.snd = {}
       \/ v.c = <<>> /\ v.s = <<>> /\ v.snd = {}

Good(v, e) == \/ Free(v, e) \/ Asked(v, e) \/ Back(v, e)
              \/ Streamed(v, e) \/ Received(v, e)

\* Every stream object is in one of the stages, and in the pool once at most.
Streams == /\ IsInjective(pStrms)
           /\ \A o \in Opaque : Good(View(o), Endless)

\* On the wire of e a request of routine w, or its response, comes no earlier
\* than packet i.
Ask(e, i, w) == \E j \in DOMAIN wire[e] : /\ j >= i /\ wire[e][j].t = "0x81"
                                           /\ wire[e][j].o = wk[w].o

\* Routine w has not yet sent its Whoami(); it waits for the answer.
Busy(w) == wk[w].pc \notin {"bye", "done"}
Bye(w) == wk[w].pc = "bye"

\* Every packet under way but heartbeats is answered for by a routine: one
\* that is busy, or one whose Whoami() is behind the packet.
Cover ==
    /\ \A i \in DOMAIN wire["client"] :
        wire["client"][i].id # "heartbeat" =>
            \E w \in Worker : Busy(w) \/ (Bye(w) /\ Ask("client", i, w))
    /\ \A i \in DOMAIN wire["server"] :
        wire["server"][i].id # "heartbeat" =>
            \E w \in Worker :
                \/ Busy(w)
                \/ Bye(w) /\ (Ask("client", 1, w) \/ Ask("server", i, w))

\* A post under way meets no stream of its opaque at the server.
Posted ==
    \A i \in DOMAIN wire["client"] :
        wire["client"][i].t = "post" =>
            /\ wire["client"][i].o \notin live["server"]
            /\ \A j \in 1..i : ~ /\ wire["client"][j].t = "start"
                                 /\ wire["client"][j].o = wire["client"][i].o

\* The sum of what f has for each element of its domain, at most n each.
Total(n, f) == Cardinality({x \in (DOMAIN f) \X (1..n) : x[2] =< f[x[1]]})

\* What the counters are made of: operations in the channels, routines with
\* pc in S, messages still to be streamed, packets of type t on their way.
Is(a, S) == IF a \in S THEN 1 ELSE 0
InDoch == [w \in Worker |-> Len(doch[w])]
At(S) == [w \in Worker |-> Is(wk[w].pc, S)]
ToGo(w) == IF wk[w].pc = "streaming" THEN wk[w].left ELSE 0
Left == [w \in Worker |-> ToGo(w)]

Queued == Total(options.count, InDoch)
Number(S) == Total(1, At(S))
ToStream == Total(options.stream, Left)
Way(e, t) == Len(Keep(Kind(t), wire[e]))

\* What the client has counted as sent, and has still to do, is what the
\* feeder has asked for.
Issued ==
    LET st == stat["client"] IN
    /\ IF options.do = "post"
       THEN fed + nbeat["client"]
                = Queued + Number({"sendpost"}) + st["txpost"]
       ELSE st["txpost"] = nbeat["client"]
    /\ IF Perfs("request")
       THEN fed + Number({"bye", "done"})
                = Queued + Number({"sendreq"}) + st["txreq"]
       ELSE st["txreq"] = Number({"bye", "done"})
    /\ IF Perfs("streamtx")
       THEN fed = Queued + Number({"sendstream"}) + st["txstart"]
       ELSE st["txstart"] = 0
    /\ st["txfin"] + Number({"streaming"}) = st["txstart"]
    /\ st["txstream"] + ToStream = st["txstart"] * options.stream

\* The counters of what is received.
Rx == {"rxpost", "rxreq", "rxresp", "rxstart", "rxstream", "rxfin", "mdrops"}

\* A frame type of the client and its counters at both ends; and those that
\* the server answers with the same type, with the client's counter of them.
Sent == {[t |-> "post", tx |-> "txpost", rx |-> "rxpost"],
         [t |-> "0x81", tx |-> "txreq", rx |-> "rxreq"],
         [t |-> "start", tx |-> "txstart", rx |-> "rxstart"],
         [t |-> "stream", tx |-> "txstream", rx |-> "rxstream"],
         [t |-> "finish", tx |-> "txfin", rx |-> "rxfin"]}
Replied == {[t |-> "0x81", tx |-> "txreq", rx |-> "rxresp"],
            [t |-> "finish", tx |-> "txfin", rx |-> "rxfin"]}

\* What an end has counted as received, and what is on its way, is what the
\* other has counted as sent; each request is answered once, and each finish.
Delivered ==
    /\ \A x \in Sent : Settled("server", x.rx) + Way("client", x.t)
                           = stat["client"][x.tx]
    /\ \A x \in Replied :
        Settled("client", x.rx) + Way("server", x.t) + Way("client", x.t)
            = stat["client"][x.tx]
    /\ \A e \in End : Settled(e, "mdrops") = 0
    /\ \A e \in End : counting[e] \in Rx \cup {Nothing}

\* The client sends no other types than those.
Sorted ==
    Len(wire["client"]) = Way("client", "post") + Way("client", "0x81")
        + Way("client", "start") + Way("client", "stream")
        + Way("client", "finish")

-----------------------------------------------------------------------------
(* Options and types. *)

\* The options, and what is made of them.
LEMMA OptionType ==
    ASSUME options \in Options
    PROVE  /\ options.prog \in {"perf", "example"} /\ options.do \in Do
           /\ options.count \in Nat \ {0} /\ options.routines \in Nat \ {0}
           /\ options.stream \in Nat /\ options.maxbeat \in Nat
           /\ Worker \subseteq Nat \ {0} /\ 1 \in Worker
           /\ Opaque \subseteq Nat \ {0}
<1>1. options \in Option
    BY PerfAssumption
<1>2. /\ options.prog \in {"perf", "example"} /\ options.do \in Do
      /\ options.count \in Nat \ {0} /\ options.routines \in Nat \ {0}
      /\ options.stream \in Nat /\ options.maxbeat \in Nat
    BY <1>1 DEF Option
<1>3. Worker \subseteq Nat \ {0} /\ 1 \in Worker
    BY <1>2 DEF Worker
<1>4. Opaque \subseteq Nat \ {0}
    BY <1>2 DEF Opaque, perfOpaque, exampleOpaque
<1> QED
    BY <1>2, <1>3, <1>4

\* They stay as they are.
LEMMA SameOptions ==
    ASSUME options' = options
    PROVE  /\ Worker' = Worker /\ Opaque' = Opaque /\ Packet' = Packet
           /\ Routine' = Routine
           /\ FromClient' = FromClient /\ FromServer' = FromServer
           /\ Endless' <=> Endless
           /\ Pcs' = Pcs /\ \A do : Perfs(do)' <=> Perfs(do)
BY DEF Worker, Opaque, perfOpaque, exampleOpaque, Packet, Endless, Pcs, Perfs,
       Routine, FromClient, FromServer

\* Nobody changes the options.
LEMMA NextOptions == Next => options' = options
<1> SUFFICES ASSUME Next PROVE options' = options
    OBVIOUS
<1> USE DEF client, base
<1>1. CASE Feed \/ FeederCloses \/ Close \/ addCounts
    BY <1>1 DEF Feed, FeederCloses, Close, addCounts
<1>2. CASE \E w \in Worker : worker(w)
    BY <1>2 DEF worker, RangeNext, RangeEnds, sendpost, sendreq, Requested,
                doStream, doStreamTx
<1>3. CASE \E e \in End : syncRx(e)
    BY <1>3 DEF syncRx, handlepkt, handlePost, handleStream, handleRequest,
                handleStart, handleDuplicate, handleFinishServer,
                handleResponse, handleFinishClient, Count, streamupdate
<1>4. CASE \E e \in End : Heartbeat(e)
    BY <1>4 DEF Heartbeat
<1>5. CASE \E x \in senders : Sender(x)
    BY <1>5 DEF Sender
<1> QED
    BY <1>1, <1>2, <1>3, <1>4, <1>5 DEF Next

\* A packet is one of the packets of any options.
LEMMA PacketMessage ==
    ASSUME options \in Options
    PROVE  Packet \subseteq Message
<1>1. Opaque \cup {0} \subseteq Nat
    BY OptionType
<1> QED
    BY <1>1 DEF Packet, Message

\* What appending packet k to the wire of e does.
LEMMA SendWire ==
    ASSUME options \in Options, wire \in [End -> Seq(Packet)],
           NEW e \in End, NEW k \in Packet,
           wire' = [wire EXCEPT ![e] = Append(@, k)]
    PROVE  /\ wire' \in [End -> Seq(Packet)]
           /\ wire'[e] = Append(wire[e], k)
           /\ \A f \in End : f # e => wire'[f] = wire[f]
           /\ \A M : Keep(M, wire'[e]) = IF k \in M
                                         THEN Append(Keep(M, wire[e]), k)
                                         ELSE Keep(M, wire[e])
<1>1. wire[e] \in Seq(Packet)
    OBVIOUS
<1>2. /\ Append(wire[e], k) \in Seq(Packet) /\ wire'[e] = Append(wire[e], k)
      /\ \A f \in End : f # e => wire'[f] = wire[f]
    BY <1>1
<1>3. wire' \in [End -> Seq(Packet)]
    BY <1>2
<1>4. ASSUME NEW M
      PROVE  Keep(M, Append(wire[e], k)) = IF k \in M
                                           THEN Append(Keep(M, wire[e]), k)
                                           ELSE Keep(M, wire[e])
    BY <1>1, KeepAppend
<1> QED
    BY <1>2, <1>3, <1>4, Zenon

\* What taking the first packet off the wire of e does.
LEMMA TakeWire ==
    ASSUME options \in Options, wire \in [End -> Seq(Packet)],
           NEW e \in End, wire[e] # <<>>,
           wire' = [wire EXCEPT ![e] = Tail(@)]
    PROVE  /\ wire' \in [End -> Seq(Packet)]
           /\ wire'[e] = Tail(wire[e]) /\ Head(wire[e]) \in Packet
           /\ \A f \in End : f # e => wire'[f] = wire[f]
           /\ \A M : Keep(M, wire[e]) = IF Head(wire[e]) \in M
                         THEN <<Head(wire[e])>> \o Keep(M, wire'[e])
                         ELSE Keep(M, wire'[e])
<1>1. wire[e] \in Seq(Packet)
    OBVIOUS
<1>2. /\ Tail(wire[e]) \in Seq(Packet) /\ wire'[e] = Tail(wire[e])
      /\ Head(wire[e]) \in Packet
      /\ \A f \in End : f # e => wire'[f] = wire[f]
    BY <1>1
<1>3. wire' \in [End -> Seq(Packet)]
    BY <1>2
<1>4. ASSUME NEW M
      PROVE  Keep(M, wire[e]) = IF Head(wire[e]) \in M
                         THEN <<Head(wire[e])>> \o Keep(M, Tail(wire[e]))
                         ELSE Keep(M, Tail(wire[e]))
    BY <1>1, KeepHead
<1> QED
    BY <1>2, <1>3, <1>4, Zenon

\* What the server's handlers do that answer a packet with k.
LEMMA AnswerWire ==
    ASSUME options \in Options, wire \in [End -> Seq(Packet)],
           NEW k \in Packet, wire["client"] # <<>>,
           wire' = [Taken("server") EXCEPT !["server"] = Append(@, k)]
    PROVE  /\ wire' \in [End -> Seq(Packet)]
           /\ wire'["client"] = Tail(wire["client"])
           /\ wire'["server"] = Append(wire["server"], k)
           /\ Head(wire["client"]) \in Packet
           /\ \A M : Keep(M, wire["client"]) = IF Head(wire["client"]) \in M
                      THEN <<Head(wire["client"])>> \o Keep(M, wire'["client"])
                      ELSE Keep(M, wire'["client"])
           /\ \A M : Keep(M, wire'["server"]) = IF k \in M
                      THEN Append(Keep(M, wire["server"]), k)
                      ELSE Keep(M, wire["server"])
<1>1. wire["client"] \in Seq(Packet) /\ wire["server"] \in Seq(Packet)
    BY DEF End
<1>2. /\ wire'["client"] = Tail(wire["client"])
      /\ wire'["server"] = Append(wire["server"], k)
      /\ wire' = [e \in End |-> IF e = "client" THEN Tail(wire["client"])
                                ELSE Append(wire["server"], k)]
    BY DEF Taken, Other, End
<1>3. /\ Tail(wire["client"]) \in Seq(Packet)
      /\ Head(wire["client"]) \in Packet
      /\ Append(wire["server"], k) \in Seq(Packet)
    BY <1>1
<1>4. wire' \in [End -> Seq(Packet)]
    BY <1>2, <1>3 DEF End
<1>5. ASSUME NEW M
      PROVE  /\ Keep(M, wire["client"]) = IF Head(wire["client"]) \in M
                THEN <<Head(wire["client"])>> \o Keep(M, Tail(wire["client"]))
                  ELSE Keep(M, Tail(wire["client"]))
             /\ Keep(M, Append(wire["server"], k)) = IF k \in M
                  THEN Append(Keep(M, wire["server"]), k)
                  ELSE Keep(M, wire["server"])
  <2>1. Keep(M, wire["client"]) = IF Head(wire["client"]) \in M
                THEN <<Head(wire["client"])>> \o Keep(M, Tail(wire["client"]))
                  ELSE Keep(M, Tail(wire["client"]))
    BY <1>1, KeepHead
  <2>2. Keep(M, Append(wire["server"], k)) = IF k \in M
                  THEN Append(Keep(M, wire["server"]), k)
                  ELSE Keep(M, wire["server"])
    <3> DEFINE s == wire["server"]
    <3>1. s \in Seq(Packet)
      BY <1>1
    <3> HIDE DEF s
    <3>2. Keep(M, Append(s, k)) = IF k \in M THEN Append(Keep(M, s), k)
                                  ELSE Keep(M, s)
      BY <3>1, KeepAppend
    <3> QED
      BY <3>2 DEF s
  <2> QED
    BY <2>1, <2>2
<1> QED
    BY <1>2, <1>3, <1>4, <1>5, Zenon

\* Counters are incremented.
LEMMA StatType ==
    ASSUME stat \in [End -> [Counter -> Nat]], NEW e \in End,
           NEW k \in Counter, stat' = [stat EXCEPT ![e][k] = @ + 1]
    PROVE  /\ stat' \in [End -> [Counter -> Nat]]
           /\ \A f \in End : \A j \in Counter :
                  stat'[f][j] = IF f = e /\ j = k THEN stat[f][j] + 1
                                ELSE stat[f][j]
OBVIOUS

\* A packet of a known kind.
LEMMA NewPacket ==
    ASSUME NEW t \in {"post", "0x81", "start", "stream", "finish"},
           NEW id \in {"msgPost", "msgReqsp", "msgStreamRx", "msgStreamTx",
                       "whoami", "heartbeat", Nothing},
           NEW o \in Opaque \cup {0}
    PROVE  [t |-> t, id |-> id, o |-> o] \in Packet
BY DEF Packet

\* The steps of the client's routines and of its end.
LEMMA FeedTypes ==
    ASSUME Types, Feed \/ FeederCloses \/ Close \/ addCounts
    PROVE  Types'
<1>1. options \in Options
    BY DEF Types
<1> USE <1>1, OptionType
<1>2. CASE Feed
  <2> DEFINE w == (fed % options.routines) + 1
  <2>1. options' = options
    BY <1>2 DEF Feed
  <2>2. /\ Worker' = Worker /\ Opaque' = Opaque /\ Packet' = Packet
        /\ Routine' = Routine
    BY <2>1, SameOptions
  <2>3. fed \in Nat /\ fed % options.routines \in 0..(options.routines - 1)
    BY SMTT(30) DEF Types
  <2>4. w \in Worker
    BY <2>3 DEF Worker
  <2>5. doch' \in [Worker -> Seq({doit(options.do)})]
    <3>1. doch' = [doch EXCEPT ![w] = Append(@, doit(options.do))]
      BY <1>2 DEF Feed
    <3> HIDE DEF w
    <3> QED
      BY <2>4, <3>1 DEF Types
  <2>6. fed' \in 0..options.count
    BY <1>2, <2>3 DEF Feed
  <2> QED
    BY <1>2, <2>1, <2>2, <2>5, <2>6 DEF Feed, Types, strms
<1>3. CASE FeederCloses
  <2>2. /\ options' = options /\ Worker' = Worker /\ Opaque' = Opaque
        /\ Packet' = Packet /\ Routine' = Routine
    BY <1>3, SameOptions DEF FeederCloses
  <2> QED
    BY <1>3, <2>2 DEF FeederCloses, Types, strms
<1>4. CASE Close \/ addCounts
  <2>2. /\ options' = options /\ Worker' = Worker /\ Opaque' = Opaque
        /\ Packet' = Packet /\ Routine' = Routine
    BY <1>4, SameOptions DEF Close, addCounts
  <2> QED
    BY <1>4, <2>2 DEF Close, addCounts, Types, strms
<1> QED
    BY <1>2, <1>3, <1>4

\* The fields of a routine.
LEMMA WkType ==
    ASSUME Types, NEW w \in Worker
    PROVE  /\ wk[w].pc \in Pc
           /\ wk[w].o \in Opaque \cup {0} /\ wk[w].left \in 0..options.stream
           /\ wk[w] = [pc |-> wk[w].pc, o |-> wk[w].o, left |-> wk[w].left]
BY DEF Types, Routine

\* Going to pc changes nothing else of a routine.
LEMMA GotoType ==
    ASSUME Types, NEW w \in Worker,
           NEW pc \in Pc, Goto(w, pc)
    PROVE  /\ wk' \in [Worker -> Routine]
           /\ wk'[w].pc = pc /\ wk'[w].o = wk[w].o
           /\ wk'[w].left = wk[w].left
           /\ \A u \in Worker : u # w => wk'[u] = wk[u]
<1>1. wk' = [wk EXCEPT ![w].pc = pc]
    BY DEF Goto
<1> QED
    BY <1>1 DEF Types, Routine

\* getlocalstream() takes the first free stream.
LEMMA OpenType ==
    ASSUME Types, NEW w \in Worker, NEW pc \in Pc,
           NEW left \in 0..options.stream, Open(w, pc, left)
    PROVE  /\ Head(pStrms) \in Opaque /\ pStrms # <<>>
           /\ pStrms' = Tail(pStrms) /\ pStrms' \in Seq(Opaque)
           /\ rxcallb' \in [Opaque -> Worker \cup {NoWorker}]
           /\ rxcallb'[Head(pStrms)] = w
           /\ \A u \in Opaque : u # Head(pStrms) => rxcallb'[u] = rxcallb[u]
           /\ live' \in [End -> SUBSET Opaque]
           /\ live'["server"] = live["server"]
           /\ live'["client"] = live["client"] \cup {Head(pStrms)}
           /\ wk' \in [Worker -> Routine]
           /\ wk'[w].pc = pc /\ wk'[w].o = Head(pStrms) /\ wk'[w].left = left
           /\ \A u \in Worker : u # w => wk'[u] = wk[u]
<1> DEFINE h == Head(pStrms)
<1>1. pStrms \in Seq(Opaque) /\ pStrms # <<>>
    BY DEF Types, Open
<1>2. h \in Opaque /\ pStrms' = Tail(pStrms) /\ pStrms' \in Seq(Opaque)
    BY <1>1 DEF Open
<1>3. /\ rxcallb' = [rxcallb EXCEPT ![h] = w]
      /\ live' = [live EXCEPT !["client"] = @ \cup {h}]
      /\ wk' = [wk EXCEPT ![w] = [pc |-> pc, o |-> h, left |-> left]]
    BY DEF Open
<1> HIDE DEF h
<1>4. /\ rxcallb' \in [Opaque -> Worker \cup {NoWorker}] /\ rxcallb'[h] = w
      /\ \A u \in Opaque : u # h => rxcallb'[u] = rxcallb[u]
    BY <1>2, <1>3 DEF Types
<1>5. /\ live' \in [End -> SUBSET Opaque]
      /\ live'["server"] = live["server"]
      /\ live'["client"] = live["client"] \cup {h}
    BY <1>2, <1>3 DEF Types, End
<1>6. [pc |-> pc, o |-> h, left |-> left] \in Routine
    BY <1>2 DEF Routine
<1>7. /\ wk' \in [Worker -> Routine]
      /\ wk'[w].pc = pc /\ wk'[w].o = h /\ wk'[w].left = left
      /\ \A u \in Worker : u # w => wk'[u] = wk[u]
    BY <1>3, <1>6 DEF Types
<1> QED
    BY <1>1, <1>2, <1>4, <1>5, <1>7 DEF h

\* The range loop of a routine goes on, or ends.
LEMMA RangeTypes ==
    ASSUME Types, NEW w \in Worker, RangeNext(w) \/ RangeEnds(w)
    PROVE  Types'
<1>1. options \in Options
    BY DEF Types
<1>2. options' = options
    BY DEF RangeNext, RangeEnds, base
<1>3. /\ Worker' = Worker /\ Opaque' = Opaque /\ Packet' = Packet
      /\ Routine' = Routine
    BY <1>2, SameOptions
<1>4. CASE RangeEnds(w)
  <2>1. wk' \in [Worker -> Routine]
    BY <1>4, GotoType DEF RangeEnds, Pc
  <2> QED
    BY <1>2, <1>3, <1>4, <2>1 DEF RangeEnds, Types, strms, base
<1>5. CASE RangeNext(w)
  <2>1. /\ doch[w] \in Seq({doit(options.do)}) /\ doch[w] # <<>>
        /\ doch' = [doch EXCEPT ![w] = Tail(@)]
    BY <1>5 DEF RangeNext, Types
  <2>2. /\ Head(doch[w]) = doit(options.do)
        /\ Tail(doch[w]) \in Seq({doit(options.do)})
    BY <2>1
  <2>3. doch' \in [Worker -> Seq({doit(options.do)})]
    BY <2>1, <2>2 DEF Types
  <2>4. doit(options.do) \in Pc
    BY <1>1, OptionType DEF doit, Pc, Do
  <2>5. wk' \in [Worker -> Routine]
    <3> DEFINE pc == IF options.prog = "perf" THEN Head(doch[w])
                     ELSE exampleWorker(Head(doch[w]))
    <3>1. pc \in Pc
      BY <2>2, <2>4 DEF exampleWorker, Pc
    <3>2. Goto(w, pc)
      BY <1>5 DEF RangeNext
    <3> HIDE DEF pc
    <3> QED
      BY <3>1, <3>2, GotoType
  <2> QED
    BY <1>2, <1>3, <1>5, <2>3, <2>5 DEF RangeNext, Types, strms
<1> QED
    BY <1>4, <1>5

\* Post(), of a routine or of the heartbeat of e.
LEMMA PostTypes ==
    ASSUME Types, NEW w \in Worker, NEW e \in End, sendpost(w) \/ Heartbeat(e)
    PROVE  Types'
<1>1. options \in Options
    BY DEF Types
<1>2. options' = options
    BY DEF sendpost, Heartbeat, base, client
<1>3. /\ Worker' = Worker /\ Opaque' = Opaque /\ Packet' = Packet
      /\ Routine' = Routine
    BY <1>2, SameOptions
<1>4. pStrms # <<>> => /\ Head(pStrms) \in Opaque
                       /\ Append(Tail(pStrms), Head(pStrms)) \in Seq(Opaque)
    BY DEF Types
<1>5. ASSUME NEW f \in End, NEW id \in {"msgPost", "heartbeat"},
             NEW o \in Opaque \cup {0}, Send(f, "post", id, o, "txpost")
      PROVE  /\ wire' \in [End -> Seq(Packet)]
             /\ stat' \in [End -> [Counter -> Nat]]
  <2> DEFINE k == [t |-> "post", id |-> id, o |-> o]
  <2>1. k \in Packet
    BY NewPacket
  <2>2. /\ wire' = [wire EXCEPT ![f] = Append(@, k)]
        /\ stat' = [stat EXCEPT ![f]["txpost"] = @ + 1]
    BY <1>5 DEF Send
  <2>3. /\ wire \in [End -> Seq(Packet)] /\ stat \in [End -> [Counter -> Nat]]
        /\ "txpost" \in Counter
    BY DEF Types, Counter
  <2> HIDE DEF k
  <2> QED
    BY <1>1, <2>1, <2>2, <2>3, SendWire, StatType
<1>6. CASE sendpost(w)
  <2>1. wk' \in [Worker -> Routine]
    BY <1>6, GotoType DEF sendpost, Pc
  <2>2. /\ wire' \in [End -> Seq(Packet)]
        /\ stat' \in [End -> [Counter -> Nat]]
    BY <1>4, <1>5, <1>6 DEF sendpost, End
  <2> QED
    BY <1>2, <1>3, <1>4, <1>6, <2>1, <2>2 DEF sendpost, Types, base
<1>7. CASE Heartbeat(e)
  <2>1. /\ wire' \in [End -> Seq(Packet)]
        /\ stat' \in [End -> [Counter -> Nat]]
    BY <1>4, <1>5, <1>7 DEF Heartbeat
  <2>2. pStrms' \in Seq(Opaque)
    BY <1>4, <1>7 DEF Heartbeat, Types
  <2>3. nbeat' \in [End -> 0..options.maxbeat]
    BY <1>1, <1>7, OptionType, SMTT(30) DEF Heartbeat, Types
  <2> QED
    BY <1>2, <1>3, <1>7, <2>1, <2>2, <2>3
    DEF Heartbeat, Types, client, base
<1> QED
    BY <1>6, <1>7

\* Sending anything else.
LEMMA SendTypes ==
    ASSUME Types, NEW e \in End, NEW o \in Opaque,
           NEW t \in {"post", "0x81", "start", "stream", "finish"},
           NEW id \in {"msgPost", "msgReqsp", "msgStreamRx", "msgStreamTx",
                       "whoami", "heartbeat", Nothing},
           NEW k \in Counter, Send(e, t, id, o, k)
    PROVE  /\ wire' \in [End -> Seq(Packet)]
           /\ stat' \in [End -> [Counter -> Nat]]
<1> DEFINE q == [t |-> t, id |-> id, o |-> o]
<1>1. q \in Packet
    BY NewPacket
<1>2. /\ wire' = [wire EXCEPT ![e] = Append(@, q)]
      /\ stat' = [stat EXCEPT ![e][k] = @ + 1]
    BY DEF Send
<1>3. /\ wire \in [End -> Seq(Packet)] /\ stat \in [End -> [Counter -> Nat]]
      /\ options \in Options
    BY DEF Types
<1> HIDE DEF q
<1> QED
    BY <1>1, <1>2, <1>3, SendWire, StatType

\* Request() and Transport.Stream().
LEMMA OpenTypes ==
    ASSUME Types, NEW w \in Worker, sendreq(w) \/ doStream(w)
    PROVE  Types'
<1>1. options \in Options
    BY DEF Types
<1>2. options' = options
    BY DEF sendreq, doStream, base
<1>3. /\ Worker' = Worker /\ Opaque' = Opaque /\ Packet' = Packet
      /\ Routine' = Routine
    BY <1>2, SameOptions
<1>4. 0 \in 0..options.stream /\ options.stream \in 0..options.stream
    BY <1>1, OptionType
<1>5. \E pc \in Pc : \E left \in 0..options.stream : Open(w, pc, left)
    BY <1>4 DEF sendreq, doStream, Pc
<1>6. PICK pc \in Pc, left \in 0..options.stream : Open(w, pc, left)
    BY <1>5
<1>7. /\ Head(pStrms) \in Opaque /\ pStrms' \in Seq(Opaque)
      /\ rxcallb' \in [Opaque -> Worker \cup {NoWorker}]
      /\ live' \in [End -> SUBSET Opaque] /\ wk' \in [Worker -> Routine]
    BY <1>6, OpenType
<1>8. /\ wire' \in [End -> Seq(Packet)]
      /\ stat' \in [End -> [Counter -> Nat]]
  <2> DEFINE h == Head(pStrms)
  <2>1. \/ Send("client", "0x81", "whoami", h, "txreq")
        \/ Send("client", "0x81", "msgReqsp", h, "txreq")
        \/ Send("client", "start", "msgStreamRx", h, "txstart")
        \/ Send("client", "start", "msgStreamTx", h, "txstart")
    BY DEF sendreq, doStream
  <2>2. "client" \in End /\ "txreq" \in Counter /\ "txstart" \in Counter
    BY DEF End, Counter
  <2>3. h \in Opaque
    BY <1>7
  <2> HIDE DEF h
  <2> QED
    BY <2>1, <2>2, <2>3, SendTypes
<1> QED
    BY <1>2, <1>3, <1>7, <1>8 DEF sendreq, doStream, Types, base

\* Request() is over.
LEMMA RequestedTypes ==
    ASSUME Types, Flow, NEW w \in Worker, Requested(w)
    PROVE  Types'
<1>1. options' = options
    BY DEF Requested, base
<1>2. /\ Worker' = Worker /\ Opaque' = Opaque /\ Packet' = Packet
      /\ Routine' = Routine
    BY <1>1, SameOptions
<1>3. wk[w].o \in Opaque
    BY DEF Flow, Requested, HoldPc
<1>4. wk' \in [Worker -> Routine]
    BY GotoType DEF Requested, Pc
<1>5. rxcallb' \in [Opaque -> Worker \cup {NoWorker}]
    BY <1>3 DEF Requested, Types
<1> QED
    BY <1>1, <1>2, <1>3, <1>4, <1>5 DEF Requested, Types, base

\* A message of doStreamTx(), or its finish.
LEMMA StreamTxTypes ==
    ASSUME Types, Flow, NEW w \in Worker, doStreamTx(w)
    PROVE  Types'
<1>1. options' = options
    BY DEF doStreamTx, base
<1>2. /\ Worker' = Worker /\ Opaque' = Opaque /\ Packet' = Packet
      /\ Routine' = Routine
    BY <1>1, SameOptions
<1>3. wk[w].o \in Opaque
    BY DEF Flow, doStreamTx, HoldPc
<1>4. wk' \in [Worker -> Routine]
  <2>1. CASE Goto(w, "range")
    BY <2>1, GotoType DEF Pc
  <2>2. CASE wk[w].left > 0 /\ wk' = [wk EXCEPT ![w].left = @ - 1]
    <3>1. wk[w].left - 1 \in 0..options.stream
      BY <2>2, WkType, OptionType, SMTT(30) DEF Types
    <3> QED
      BY <2>2, <3>1, ZenonT(60) DEF Types, Routine
  <2> QED
    BY <2>1, <2>2 DEF doStreamTx
<1>5. /\ wire' \in [End -> Seq(Packet)]
      /\ stat' \in [End -> [Counter -> Nat]]
  <2>1. \/ Send("client", "stream", "msgStreamRx", wk[w].o, "txstream")
        \/ Send("client", "finish", Nothing, wk[w].o, "txfin")
    BY DEF doStreamTx
  <2>2. "client" \in End /\ "txstream" \in Counter /\ "txfin" \in Counter
    BY DEF End, Counter
  <2> QED
    BY <1>3, <2>1, <2>2, SendTypes
<1> QED
    BY <1>1, <1>2, <1>4, <1>5 DEF doStreamTx, Types, base, strms

\* The next packet of either end.
LEMMA NextPacket ==
    ASSUME Types, Packets, NEW e \in End, wire[e] # <<>>
    PROVE  /\ Head(wire[e]) \in Packet /\ 1 \in DOMAIN wire[e]
           /\ Head(wire[e]) = wire[e][1]
           /\ Head(wire[e]) \in IF e = "client" THEN FromClient
                               ELSE FromServer
           /\ e = "client" \/ Head(wire[e]).t # "post"
                  => Head(wire[e]).o \in Opaque
<1>1. wire[e] \in Seq(Packet)
    BY DEF Types
<1>2. /\ Head(wire[e]) \in Packet /\ 1 \in DOMAIN wire[e]
      /\ Head(wire[e]) = wire[e][1]
    BY <1>1
<1>3. CASE e = "client"
  <2>1. wire[e] \in Seq(FromClient)
    BY <1>3 DEF Packets
  <2>2. Head(wire[e]) \in FromClient
    BY <2>1
  <2> QED
    BY <1>2, <1>3, <2>2 DEF FromClient
<1>4. CASE e # "client"
  <2>1. wire[e] \in Seq(FromServer)
    BY <1>4 DEF Packets, End
  <2>2. Head(wire[e]) \in FromServer
    BY <2>1
  <2> QED
    BY <1>2, <1>4, <2>2 DEF FromServer
<1> QED
    BY <1>3, <1>4

\* syncRx() takes a packet without an answer.
LEMMA TakesTypes ==
    ASSUME Types, NEW e \in End, NEW p, NEW k \in Counter, Takes(e, p, k)
    PROVE  /\ counting' \in [End -> Counter \cup {Nothing}]
           /\ Other(e) \in End /\ wire[Other(e)] # <<>>
           /\ wire' = Taken(e) => wire' \in [End -> Seq(Packet)]
<1>1. Other(e) \in End /\ wire[Other(e)] # <<>>
    BY DEF Takes, Other, End
<1>2. counting' \in [End -> Counter \cup {Nothing}]
    BY DEF Types, Takes
<1>3. ASSUME wire' = Taken(e) PROVE wire' \in [End -> Seq(Packet)]
  <2>1. wire' = [wire EXCEPT ![Other(e)] = Tail(@)]
    BY <1>3 DEF Taken
  <2>2. wire \in [End -> Seq(Packet)] /\ options \in Options
    BY DEF Types
  <2> QED
    BY <1>1, <2>1, <2>2, TakeWire
<1> QED
    BY <1>1, <1>2, <1>3

\* Packets that are taken and change nothing else.
LEMMA QuietTypes ==
    ASSUME Types, NEW e \in End,
           handlePost(e) \/ handleStream(e) \/ handleDuplicate
    PROVE  Types'
<1>1. options' = options
    BY DEF handlePost, handleStream, handleDuplicate, client, base
<1>2. /\ Worker' = Worker /\ Opaque' = Opaque /\ Packet' = Packet
      /\ Routine' = Routine
    BY <1>1, SameOptions
<1>3. PICK f \in End, k \in Counter :
          Takes(f, Head(wire[Other(f)]), k) /\ wire' = Taken(f)
  <2>1. CASE handlePost(e)
    <3>1. "rxpost" \in Counter
      BY DEF Counter
    <3> QED
      BY <2>1, <3>1 DEF handlePost
  <2>2. CASE handleStream(e)
    <3> DEFINE p == Head(wire[Other(e)])
    <3>1. Counted(e, p, "rxstream") \in Counter
      BY DEF Counter, Counted
    <3>2. Takes(e, p, Counted(e, p, "rxstream")) /\ wire' = Taken(e)
      BY <2>2 DEF handleStream
    <3> QED
      BY <3>1, <3>2
  <2>3. CASE handleDuplicate
    <3> DEFINE p == Head(wire["client"])
               k == IF p.t = "0x81" THEN "rxresp" ELSE "mdrops"
    <3>1. Takes("server", p, k) /\ wire' = Taken("server")
      BY <2>3 DEF handleDuplicate
    <3>2. "server" \in End /\ Other("server") = "client" /\ k \in Counter
      BY DEF End, Other, Counter
    <3> QED
      BY <3>1, <3>2
  <2> QED
    BY <2>1, <2>2, <2>3
<1>4. /\ counting' \in [End -> Counter \cup {Nothing}]
      /\ wire' \in [End -> Seq(Packet)]
    BY <1>3, TakesTypes
<1> QED
    BY <1>1, <1>2, <1>4 DEF handlePost, handleStream, handleDuplicate, Types,
                            client, base, strms

\* Packets that the server answers.
LEMMA AnswerTypes ==
    ASSUME Types, Packets, NEW t \in {"0x81", "finish"},
           NEW p, NEW id, NEW k \in Counter, NEW j \in Counter,
           Takes("server", p, j), p = Head(wire["client"]),
           id \in {p.id, Nothing}, Answers(t, id, p.o, k)
    PROVE  /\ counting' \in [End -> Counter \cup {Nothing}]
           /\ wire' \in [End -> Seq(Packet)]
           /\ stat' \in [End -> [Counter -> Nat]]
<1>1. "server" \in End /\ "client" \in End /\ Other("server") = "client"
    BY DEF End, Other
<1>2. /\ counting' \in [End -> Counter \cup {Nothing}]
      /\ wire["client"] # <<>>
    BY <1>1, TakesTypes
<1>3. p \in Packet /\ p.o \in Opaque
    BY <1>1, <1>2, NextPacket
<1> DEFINE q == [t |-> t, id |-> id, o |-> p.o]
<1>4. q \in Packet
    BY <1>3 DEF Packet
<1>5. /\ wire' = [Taken("server") EXCEPT !["server"] = Append(@, q)]
      /\ stat' = [stat EXCEPT !["server"][k] = @ + 1]
    BY DEF Answers
<1>6. /\ wire \in [End -> Seq(Packet)] /\ stat \in [End -> [Counter -> Nat]]
      /\ options \in Options
    BY DEF Types
<1> HIDE DEF q
<1>7. wire' \in [End -> Seq(Packet)]
    BY <1>2, <1>4, <1>5, <1>6, AnswerWire
<1>8. stat' \in [End -> [Counter -> Nat]]
    BY <1>1, <1>5, <1>6, StatType
<1> QED
    BY <1>2, <1>7, <1>8

\* The server's other handlers.
LEMMA ServerTypes ==
    ASSUME Types, Packets, handleRequest \/ handleStart \/ handleFinishServer
    PROVE  Types'
<1>1. options' = options /\ options \in Options
    BY DEF handleRequest, handleStart, handleFinishServer, client, base, Types
<1>2. /\ Worker' = Worker /\ Opaque' = Opaque /\ Packet' = Packet
      /\ Routine' = Routine
    BY <1>1, SameOptions
<1>3. /\ "server" \in End /\ "client" \in End /\ Other("server") = "client"
      /\ {"rxreq", "txresp", "rxstart", "rxfin", "mdrops", "txfin"}
             \subseteq Counter
    BY DEF End, Other, Counter
<1> DEFINE p == Head(wire["client"])
<1>4. CASE handleRequest
  <2>1. /\ Takes("server", p, "rxreq")
        /\ Answers("0x81", p.id, p.o, "txresp")
    BY <1>4 DEF handleRequest
  <2> HIDE DEF p
  <2>2. /\ counting' \in [End -> Counter \cup {Nothing}]
        /\ wire' \in [End -> Seq(Packet)]
        /\ stat' \in [End -> [Counter -> Nat]]
    BY <1>3, <2>1, AnswerTypes DEF p
  <2> QED
    BY <1>1, <1>2, <1>4, <2>2 DEF handleRequest, Types, client, base, strms
<1>5. CASE handleStart
  <2>1. Takes("server", p, "rxstart") /\ wire' = Taken("server")
    BY <1>5 DEF handleStart
  <2> HIDE DEF p
  <2>2. /\ counting' \in [End -> Counter \cup {Nothing}]
        /\ wire' \in [End -> Seq(Packet)] /\ wire["client"] # <<>>
    BY <1>3, <2>1, TakesTypes
  <2>3. p.o \in Opaque
    BY <1>3, <2>2, NextPacket DEF p
  <2>4. live' \in [End -> SUBSET Opaque]
    <3>1. live' = [live EXCEPT !["server"] = @ \cup {p.o}]
      BY <1>5 DEF handleStart, p
    <3> QED
      BY <1>3, <2>3, <3>1 DEF Types
  <2>5. senders' \subseteq [o : Opaque, left : 0..options.stream]
    <3>1. options.stream \in 0..options.stream
      BY <1>1, OptionType
    <3>2. \/ senders' = senders
          \/ senders' = senders \cup {[o |-> p.o, left |-> options.stream]}
      BY <1>5 DEF handleStart, p
    <3> QED
      BY <2>3, <3>1, <3>2 DEF Types
  <2> QED
    BY <1>1, <1>2, <1>5, <2>2, <2>4, <2>5
    DEF handleStart, Types, client, base
<1>6. CASE handleFinishServer
  <2>1. PICK j \in Counter : Takes("server", p, j)
    BY <1>3, <1>6 DEF handleFinishServer, Counted
  <2>2. \/ Answers("finish", Nothing, p.o, "txfin")
        \/ wire' = Taken("server") /\ stat' = stat
    BY <1>6 DEF handleFinishServer, Closes
  <2> HIDE DEF p
  <2>3. /\ counting' \in [End -> Counter \cup {Nothing}]
        /\ wire' \in [End -> Seq(Packet)]
        /\ stat' \in [End -> [Counter -> Nat]]
    <3>1. CASE Answers("finish", Nothing, p.o, "txfin")
      BY <1>3, <2>1, <3>1, AnswerTypes DEF p
    <3>2. CASE wire' = Taken("server") /\ stat' = stat
      BY <1>3, <2>1, <3>2, TakesTypes DEF Types
    <3> QED
      BY <2>2, <3>1, <3>2
  <2>4. live' \in [End -> SUBSET Opaque]
    <3>1. live' = [live EXCEPT !["server"] = @ \ {p.o}]
      BY <1>6 DEF handleFinishServer, p
    <3> QED
      BY <1>3, <3>1 DEF Types
  <2> QED
    BY <1>1, <1>2, <1>6, <2>3, <2>4
    DEF handleFinishServer, Types, client, base
<1> QED
    BY <1>4, <1>5, <1>6

\* The client's handlers; a response has a routine that waits for it.
LEMMA ClientTypes ==
    ASSUME Types, Packets, handleResponse \/ handleFinishClient,
           handleResponse => rxcallb[Head(wire["server"]).o] \in Worker
    PROVE  Types'
<1>1. options' = options
    BY DEF handleResponse, handleFinishClient, client, base
<1>2. /\ Worker' = Worker /\ Opaque' = Opaque /\ Packet' = Packet
      /\ Routine' = Routine
    BY <1>1, SameOptions
<1>3. /\ "server" \in End /\ "client" \in End /\ Other("client") = "server"
      /\ {"rxresp", "rxfin", "mdrops"} \subseteq Counter
    BY DEF End, Other, Counter
<1> DEFINE p == Head(wire["server"])
<1>4. PICK k \in Counter : Takes("client", p, k) /\ wire' = Taken("client")
  <2>1. CASE handleResponse
    BY <1>3, <2>1 DEF handleResponse
  <2>2. CASE handleFinishClient
    <3>1. Counted("client", p, "rxfin") \in Counter
      BY <1>3 DEF Counted
    <3> QED
      BY <2>2, <3>1 DEF handleFinishClient
  <2> QED
    BY <2>1, <2>2
<1> HIDE DEF p
<1>5. /\ counting' \in [End -> Counter \cup {Nothing}]
      /\ wire' \in [End -> Seq(Packet)] /\ wire["server"] # <<>>
    BY <1>3, <1>4, TakesTypes
<1>6. CASE handleResponse
  <2>1. donech' \subseteq Worker
    BY <1>6 DEF handleResponse, Types
  <2> QED
    BY <1>1, <1>2, <1>5, <1>6, <2>1
    DEF handleResponse, Types, client, base, strms
<1>7. CASE handleFinishClient
  <2>1. live' = [live EXCEPT !["client"] = @ \ {p.o}]
    BY <1>7 DEF handleFinishClient, p
  <2>2. live' \in [End -> SUBSET Opaque]
    BY <1>3, <2>1 DEF Types
  <2>3. pStrms' \in Seq(Opaque)
    <3>1. p.t = "finish"
      BY <1>7 DEF handleFinishClient, p
    <3>2. p.o \in Opaque
      BY <1>3, <1>5, <3>1, NextPacket DEF p
    <3>3. pStrms' \in {Append(pStrms, p.o), pStrms}
      BY <1>7 DEF handleFinishClient, p
    <3>4. pStrms \in Seq(Opaque) /\ Append(pStrms, p.o) \in Seq(Opaque)
      BY <3>2 DEF Types
    <3> QED
      BY <3>3, <3>4
  <2> QED
    BY <1>1, <1>2, <1>5, <1>7, <2>2, <2>3
    DEF handleFinishClient, Types, client, base
<1> QED
    BY <1>6, <1>7

\* An update of the client's syncRx(), and its counting of packets.
LEMMA RestTypes ==
    ASSUME Types, NEW e \in End, streamupdate \/ Count(e)
    PROVE  Types'
<1>1. options' = options
    BY DEF streamupdate, Count, client, base
<1>2. /\ Worker' = Worker /\ Opaque' = Opaque /\ Packet' = Packet
      /\ Routine' = Routine
    BY <1>1, SameOptions
<1>3. CASE streamupdate
  <2>1. PICK o \in returning :
            /\ returning' = returning \ {o}
            /\ live' = [live EXCEPT !["client"] = @ \ {o}]
            /\ pStrms' = Append(pStrms, o)
            /\ UNCHANGED <<client, donech, wire, rxcallb, senders, stat,
                           counting, nbeat>>
    BY <1>3 DEF streamupdate
  <2>2. o \in Opaque /\ "client" \in End
    BY DEF Types, End
  <2>3. live' \in [End -> SUBSET Opaque] /\ pStrms' \in Seq(Opaque)
    BY <2>1, <2>2 DEF Types
  <2> QED
    BY <1>1, <1>2, <2>1, <2>3 DEF Types, client, base
<1>4. CASE Count(e)
  <2>1. /\ counting[e] \in Counter
        /\ stat' = [stat EXCEPT ![e][counting[e]] = @ + 1]
        /\ counting' = [counting EXCEPT ![e] = Nothing]
    BY <1>4 DEF Count, Types
  <2>2. stat' \in [End -> [Counter -> Nat]]
    BY <2>1, StatType DEF Types
  <2>3. counting' \in [End -> Counter \cup {Nothing}]
    BY <2>1 DEF Types
  <2> QED
    BY <1>1, <1>2, <1>4, <2>2, <2>3 DEF Count, Types, client, base, strms
<1> QED
    BY <1>3, <1>4

\* A routine of the server that streams.
LEMMA SenderTypes ==
    ASSUME Types, NEW x \in senders, Sender(x)
    PROVE  Types'
<1>1. options' = options /\ options \in Options
    BY DEF Sender, client, base, Types
<1>2. /\ Worker' = Worker /\ Opaque' = Opaque /\ Packet' = Packet
      /\ Routine' = Routine
    BY <1>1, SameOptions
<1>3. x \in [o : Opaque, left : 0..options.stream]
    BY DEF Types
<1>4. x.o \in Opaque /\ x.left \in 0..options.stream
    BY <1>3
<1>5. /\ wire' \in [End -> Seq(Packet)]
      /\ stat' \in [End -> [Counter -> Nat]]
  <2>1. \/ Send("server", "stream", "msgStreamTx", x.o, "txstream")
        \/ Send("server", "finish", Nothing, x.o, "txfin")
    BY DEF Sender
  <2>2. "server" \in End /\ "txstream" \in Counter /\ "txfin" \in Counter
    BY DEF End, Counter
  <2> QED
    BY <1>4, <2>1, <2>2, SendTypes
<1>6. senders' \subseteq [o : Opaque, left : 0..options.stream]
  <2>1. CASE x.left > 0 /\ senders' = (senders \ {x})
                               \cup {[x EXCEPT !.left = @ - 1]}
    <3>1. x.left - 1 \in 0..options.stream
      BY <1>1, <1>4, <2>1, OptionType
    <3>2. [x EXCEPT !.left = @ - 1] \in [o : Opaque, left : 0..options.stream]
      BY <1>3, <3>1
    <3> QED
      BY <2>1, <3>2 DEF Types
  <2>2. CASE senders' = senders \ {x}
    BY <2>2 DEF Types
  <2> QED
    BY <2>1, <2>2 DEF Sender
<1> QED
    BY <1>1, <1>2, <1>5, <1>6 DEF Sender, Types, client, base, strms

-----------------------------------------------------------------------------
(* Packets and the flow of the client. *)

\* Packets, when one is sent.
LEMMA PacketsSend ==
    ASSUME Types, Packets, options' = options, NEW e \in End,
           NEW k \in IF e = "client" THEN FromClient ELSE FromServer,
           wire' = [wire EXCEPT ![e] = Append(@, k)]
    PROVE  Packets'
<1>1. FromClient' = FromClient /\ FromServer' = FromServer
    BY SameOptions
<1>2. /\ wire \in [End -> Seq(Packet)]
      /\ wire["client"] \in Seq(FromClient)
      /\ wire["server"] \in Seq(FromServer)
    BY DEF Types, Packets
<1>3. CASE e = "client"
  <2>1. /\ wire'["client"] = Append(wire["client"], k)
        /\ wire'["server"] = wire["server"]
    BY <1>2, <1>3 DEF End
  <2>2. wire'["client"] \in Seq(FromClient)
    BY <1>2, <1>3, <2>1
  <2> QED
    BY <1>1, <1>2, <2>1, <2>2 DEF Packets
<1>4. CASE e = "server"
  <2>1. /\ wire'["server"] = Append(wire["server"], k)
        /\ wire'["client"] = wire["client"]
    BY <1>2, <1>4 DEF End
  <2>2. wire'["server"] \in Seq(FromServer)
    BY <1>2, <1>4, <2>1
  <2> QED
    BY <1>1, <1>2, <2>1, <2>2 DEF Packets
<1> QED
    BY <1>3, <1>4 DEF End

\* Packets, when one is taken.
LEMMA PacketsTake ==
    ASSUME Types, Packets, options' = options, NEW e \in End,
           wire[Other(e)] # <<>>, wire' = Taken(e)
    PROVE  Packets'
<1>1. FromClient' = FromClient /\ FromServer' = FromServer
    BY SameOptions
<1>2. /\ wire \in [End -> Seq(Packet)]
      /\ wire["client"] \in Seq(FromClient)
      /\ wire["server"] \in Seq(FromServer)
    BY DEF Types, Packets
<1>3. CASE e = "client"
  <2>1. /\ wire'["server"] = Tail(wire["server"]) /\ wire["server"] # <<>>
        /\ wire'["client"] = wire["client"]
    BY <1>2, <1>3 DEF End, Taken, Other
  <2>2. wire'["server"] \in Seq(FromServer)
    BY <1>2, <2>1
  <2> QED
    BY <1>1, <1>2, <2>1, <2>2 DEF Packets
<1>4. CASE e = "server"
  <2>1. /\ wire'["client"] = Tail(wire["client"]) /\ wire["client"] # <<>>
        /\ wire'["server"] = wire["server"]
    BY <1>2, <1>4 DEF End, Taken, Other
  <2>2. wire'["client"] \in Seq(FromClient)
    BY <1>2, <2>1
  <2> QED
    BY <1>1, <1>2, <2>1, <2>2 DEF Packets
<1> QED
    BY <1>3, <1>4 DEF End

\* Packets, when one is answered.
LEMMA PacketsAnswer ==
    ASSUME Types, Packets, options' = options, wire["client"] # <<>>,
           NEW k \in FromServer,
           wire' = [Taken("server") EXCEPT !["server"] = Append(@, k)]
    PROVE  Packets'
<1>1. FromClient' = FromClient /\ FromServer' = FromServer
    BY SameOptions
<1>2. /\ wire \in [End -> Seq(Packet)] /\ options \in Options
      /\ wire["client"] \in Seq(FromClient)
      /\ wire["server"] \in Seq(FromServer) /\ k \in Packet
    BY DEF Types, Packets, FromServer
<1>3. /\ wire'["client"] = Tail(wire["client"])
      /\ wire'["server"] = Append(wire["server"], k)
    BY <1>2, AnswerWire
<1>4. ASSUME NEW S, NEW s \in Seq(S), s # <<>> PROVE Tail(s) \in Seq(S)
    BY <1>4
<1>5. ASSUME NEW S, NEW s \in Seq(S), NEW q \in S PROVE Append(s, q) \in Seq(S)
    OBVIOUS
<1>6. wire'["client"] \in Seq(FromClient)
    BY <1>2, <1>3, <1>4, Zenon
<1>7. wire'["server"] \in Seq(FromServer)
    BY <1>2, <1>3, <1>5, Zenon
<1> QED
    BY <1>1, <1>6, <1>7 DEF Packets

\* What the client's routines send.
LEMMA ClientPackets ==
    ASSUME Types, Flow, Packets, NEW w \in Worker, worker(w)
    PROVE  Packets'
<1>1. options \in Options /\ pStrms \in Seq(Opaque)
    BY DEF Types
<1>2. options' = options
    BY DEF worker, RangeNext, RangeEnds, sendpost, sendreq, Requested,
           doStream, doStreamTx, base
<1>3. wk[w].pc \in Pcs /\ (wk[w].pc = "streaming" => wk[w].o \in Opaque)
    BY DEF Flow, HoldPc
<1>4. pStrms # <<>> => Head(pStrms) \in Opaque
    BY <1>1
<1>5. ASSUME NEW t \in {"post", "0x81", "start", "stream", "finish"},
             NEW id \in {"msgPost", "msgReqsp", "msgStreamRx", "msgStreamTx",
                         "whoami", Nothing},
             NEW o \in Opaque, NEW k, Send("client", t, id, o, k),
             t = "start" => id = IF Endless THEN "msgStreamTx"
                                 ELSE "msgStreamRx"
      PROVE  Packets'
  <2> DEFINE q == [t |-> t, id |-> id, o |-> o]
  <2>1. q \in Packet
    BY NewPacket
  <2>2. q \in FromClient
    BY <1>5, <2>1 DEF FromClient, Nothing
  <2>3. wire' = [wire EXCEPT !["client"] = Append(@, q)] /\ "client" \in End
    BY <1>5 DEF Send, End
  <2> HIDE DEF q
  <2> QED
    BY <1>2, <2>2, <2>3, PacketsSend
<1>6. CASE RangeNext(w) \/ RangeEnds(w) \/ Requested(w)
  <2>1. wire' = wire
    BY <1>6 DEF RangeNext, RangeEnds, Requested
  <2> QED
    BY <1>2, <2>1, SameOptions DEF Packets
<1>7. CASE sendpost(w)
  <2>1. /\ Head(pStrms) \in Opaque
        /\ Send("client", "post", "msgPost", Head(pStrms), "txpost")
    BY <1>4, <1>7 DEF sendpost
  <2> QED
    BY <1>5, <2>1
<1>8. CASE sendreq(w)
  <2>1. /\ Head(pStrms) \in Opaque
        /\ \/ Send("client", "0x81", "whoami", Head(pStrms), "txreq")
           \/ Send("client", "0x81", "msgReqsp", Head(pStrms), "txreq")
    BY <1>4, <1>8 DEF sendreq, Open
  <2> QED
    BY <1>5, <2>1
<1>9. CASE doStream(w)
  <2>1. Head(pStrms) \in Opaque
    BY <1>4, <1>9 DEF doStream, Open
  <2>2. \/ /\ wk[w].pc = "sendstream"
           /\ Send("client", "start", "msgStreamRx", Head(pStrms), "txstart")
        \/ /\ wk[w].pc = "rcvstream"
           /\ Send("client", "start", "msgStreamTx", Head(pStrms), "txstart")
    BY <1>9 DEF doStream
  <2>3. /\ wk[w].pc = "sendstream" => ~Endless
        /\ wk[w].pc = "rcvstream" => Endless
    BY <1>3 DEF Pcs, Perfs, Endless
  <2>4. CASE wk[w].pc = "sendstream"
    BY <1>5, <2>1, <2>2, <2>3, <2>4
  <2>5. CASE wk[w].pc = "rcvstream"
    BY <1>5, <2>1, <2>2, <2>3, <2>5
  <2> QED
    BY <2>2, <2>4, <2>5
<1>10. CASE doStreamTx(w)
  <2>1. wk[w].o \in Opaque
    BY <1>3, <1>10 DEF doStreamTx
  <2>2. \/ Send("client", "stream", "msgStreamRx", wk[w].o, "txstream")
        \/ Send("client", "finish", Nothing, wk[w].o, "txfin")
    BY <1>10 DEF doStreamTx
  <2> QED
    BY <1>5, <2>1, <2>2
<1> QED
    BY <1>6, <1>7, <1>8, <1>9, <1>10 DEF worker

\* All packets are of the kinds that client and server send.
LEMMA NextPackets ==
    ASSUME Types, Flow, Packets, Next
    PROVE  Packets'
<1>1. options' = options /\ options \in Options /\ pStrms \in Seq(Opaque)
    BY NextOptions DEF Types
<1>2. /\ "client" \in End /\ "server" \in End
      /\ Other("client") = "server" /\ Other("server") = "client"
    BY DEF End, Other
<1>3. ASSUME wire' = wire PROVE Packets'
    BY <1>1, <1>3, SameOptions DEF Packets
<1>4. CASE Feed \/ FeederCloses \/ Close \/ addCounts \/ streamupdate
    BY <1>3, <1>4 DEF Feed, FeederCloses, Close, addCounts, streamupdate
<1>5. CASE \E w \in Worker : worker(w)
    BY <1>5, ClientPackets
<1>6. ASSUME NEW e \in End, Count(e) PROVE Packets'
    BY <1>3, <1>6 DEF Count
<1>7. ASSUME NEW e \in End, Heartbeat(e) PROVE Packets'
  <2>1. PICK o \in Opaque \cup {0} :
                 /\ Send(e, "post", "heartbeat", o, "txpost")
                 /\ e = "client" => o \in Opaque
                 /\ e = "server" => o = 0
    <3>1. CASE e = "client"
      <4>1. /\ pStrms # <<>>
            /\ Send(e, "post", "heartbeat", Head(pStrms), "txpost")
        BY <1>7, <3>1 DEF Heartbeat
      <4>2. Head(pStrms) \in Opaque
        BY <1>1, <4>1
      <4> QED
        BY <3>1, <4>1, <4>2
    <3>2. CASE e = "server"
      BY <1>7, <3>2 DEF Heartbeat
    <3> QED
      BY <3>1, <3>2 DEF End
  <2> DEFINE k == [t |-> "post", id |-> "heartbeat", o |-> o]
  <2>2. k \in Packet
    BY NewPacket
  <2>3. k \in IF e = "client" THEN FromClient ELSE FromServer
    BY <2>1, <2>2 DEF FromClient, FromServer, End
  <2>4. wire' = [wire EXCEPT ![e] = Append(@, k)]
    BY <2>1 DEF Send
  <2> HIDE DEF k
  <2> QED
    BY <1>1, <2>3, <2>4, PacketsSend
<1>8. ASSUME NEW x \in senders, Sender(x) PROVE Packets'
  <2>1. x.o \in Opaque
    BY DEF Types
  <2>2. PICK t \in {"stream", "finish"}, id \in {"msgStreamTx", Nothing},
             k \in Counter : Send("server", t, id, x.o, k)
    BY <1>8 DEF Sender, Counter
  <2> DEFINE q == [t |-> t, id |-> id, o |-> x.o]
  <2>3. q \in Packet
    BY <2>1 DEF Packet
  <2>4. q \in FromServer
    BY <2>1, <2>3 DEF FromServer, Nothing
  <2>5. wire' = [wire EXCEPT !["server"] = Append(@, q)]
    BY <2>2 DEF Send
  <2> HIDE DEF q
  <2> QED
    BY <1>1, <1>2, <2>4, <2>5, PacketsSend
<1>9. ASSUME NEW e \in End, wire' = Taken(e), wire[Other(e)] # <<>>
      PROVE  Packets'
    BY <1>1, <1>9, PacketsTake
<1>10. ASSUME NEW e \in End, handlePost(e) \/ handleStream(e) PROVE Packets'
    BY <1>9, <1>10 DEF handlePost, handleStream, Takes
<1>11. CASE handleStart \/ handleDuplicate
    BY <1>2, <1>9, <1>11 DEF handleStart, handleDuplicate, Takes
<1>12. CASE handleResponse \/ handleFinishClient
    BY <1>2, <1>9, <1>12 DEF handleResponse, handleFinishClient, Takes
<1> DEFINE p == Head(wire["client"])
<1>13. ASSUME wire["client"] # <<>>, NEW id \in {p.id, Nothing},
              NEW t \in {"0x81", "finish"}, NEW k, p.t # "post",
              Answers(t, id, p.o, k)
       PROVE  Packets'
  <2>1. p \in Packet /\ p \in FromClient
    BY <1>2, <1>13, NextPacket
  <2> DEFINE q == [t |-> t, id |-> id, o |-> p.o]
  <2>2. q \in FromServer
    BY <1>13, <2>1 DEF FromClient, FromServer, Packet, Nothing
  <2>3. wire' = [Taken("server") EXCEPT !["server"] = Append(@, q)]
    BY <1>13 DEF Answers
  <2> HIDE DEF q
  <2> QED
    BY <1>1, <1>13, <2>2, <2>3, PacketsAnswer
<1>14. CASE handleRequest
  <2>1. /\ wire["client"] # <<>> /\ p.t # "post"
        /\ Answers("0x81", p.id, p.o, "txresp")
    BY <1>2, <1>14 DEF handleRequest, Takes
  <2> HIDE DEF p
  <2> QED
    BY <1>13, <2>1
<1>15. CASE handleFinishServer
  <2>1. /\ wire["client"] # <<>> /\ p.t # "post"
        /\ \/ Answers("finish", Nothing, p.o, "txfin")
           \/ wire' = Taken("server")
    BY <1>2, <1>15 DEF handleFinishServer, Takes, Closes
  <2> HIDE DEF p
  <2> QED
    BY <1>2, <1>9, <1>13, <2>1
<1> QED
    BY <1>4, <1>5, <1>6, <1>7, <1>8, <1>10, <1>11, <1>12, <1>14, <1>15
    DEF Next, syncRx, handlepkt

\* The flow of the client does not change with what is sent and received.
LEMMA SameFlow ==
    ASSUME Flow, UNCHANGED <<client, donech>>
    PROVE  Flow'
<1>1. /\ options' = options /\ fed' = fed /\ shut' = shut /\ doch' = doch
      /\ main' = main /\ wk' = wk /\ donech' = donech
    BY DEF client, base
<1>2. /\ Worker' = Worker /\ Opaque' = Opaque /\ Pcs' = Pcs
      /\ Endless' <=> Endless
    BY <1>1, SameOptions
<1> QED
    BY <1>1, <1>2 DEF Flow

\* The feeder and the end of the client.
LEMMA FeedFlow ==
    ASSUME Types, Flow, Feed \/ FeederCloses \/ Close \/ addCounts
    PROVE  Flow'
<1>1. options' = options /\ options \in Options
    BY DEF Feed, FeederCloses, Close, addCounts, Types
<1>2. /\ Worker' = Worker /\ Opaque' = Opaque /\ Pcs' = Pcs
      /\ Endless' <=> Endless
    BY <1>1, SameOptions
<1>3. CASE Feed
  <2> DEFINE w == (fed % options.routines) + 1
  <2>1. /\ fed < options.count /\ fed' = fed + 1
        /\ doch' = [doch EXCEPT ![w] = Append(@, doit(options.do))]
        /\ shut' = shut /\ wk' = wk /\ main' = main /\ donech' = donech
    BY <1>3 DEF Feed
  <2>2. fed \in Nat /\ options.count \in Nat /\ options.routines \in Nat \ {0}
    BY <1>1, OptionType DEF Types
  <2>3. fed % options.routines \in 0..(options.routines - 1)
    BY <2>2
  <2>4. w \in Worker
    BY <2>2, <2>3 DEF Worker
  <2>5. fed = 0 => w = 1
    BY <2>2
  <2> HIDE DEF w
  <2>6. /\ \A u \in Worker : doch[u] \in Seq({doit(options.do)})
        /\ \A u \in Worker : u # w => doch'[u] = doch[u]
        /\ doch'[w] = Append(doch[w], doit(options.do))
    BY <2>1, <2>4 DEF Types
  <2>7. Len(doch'[w]) = Len(doch[w]) + 1 /\ doch'[w] # <<>>
    BY <2>4, <2>6
  <2>8. ~shut
    BY <2>1, <2>2 DEF Flow
  <2>9. ASSUME NEW u \in Worker
        PROVE  /\ wk'[u].pc \in Pcs
               /\ wk'[u].pc \in HoldPc => wk'[u].o \in Opaque
               /\ wk'[u].pc \in {"whoami", "bye", "done"}
                      => shut' /\ doch'[u] = <<>>
               /\ Len(doch'[u]) =< fed'
    <3>1. Len(doch[u]) =< fed /\ Len(doch[u]) \in Nat
      BY <2>6 DEF Flow
    <3>2. Len(doch'[u]) =< fed'
      BY <2>1, <2>2, <2>6, <2>7, <3>1
    <3> QED
      BY <2>1, <2>8, <3>2 DEF Flow
  <2>10. Endless /\ fed' > 0
             => doch'[1] # <<>> \/ wk'[1].pc \in {"rcvstream", "rcv"}
    <3>1. 1 \in Worker
      BY <1>1, OptionType
    <3>2. fed # 0 => fed > 0
      BY <2>2
    <3> QED
      BY <2>1, <2>5, <2>6, <2>7, <3>1, <3>2 DEF Flow
  <2> QED
    BY <1>1, <1>2, <2>1, <2>8, <2>9, <2>10 DEF Flow
<1>4. CASE FeederCloses
    BY <1>1, <1>2, <1>4 DEF FeederCloses, Flow
<1>5. CASE Close \/ addCounts
    BY <1>1, <1>2, <1>5 DEF Close, addCounts, Flow
<1> QED
    BY <1>3, <1>4, <1>5

\* A routine of the client that goes on to pc.
LEMMA GoesFlow ==
    ASSUME Types, Flow, NEW w \in Worker, options' = options,
           fed' = fed, shut' = shut, main' = main, wk[w].pc # "done",
           wk' \in [Worker -> Routine],
           \A u \in Worker : u # w => wk'[u] = wk[u],
           doch' \in [Worker -> Seq({doit(options.do)})],
           \A u \in Worker : u # w => doch'[u] = doch[u],
           Len(doch'[w]) =< Len(doch[w]),
           wk'[w].pc \in Pcs, wk'[w].pc \in HoldPc => wk'[w].o \in Opaque,
           wk'[w].pc \in {"whoami", "bye", "done"} => shut /\ doch'[w] = <<>>,
           Endless /\ (doch[w] # <<>> \/ wk[w].pc \in {"rcvstream", "rcv"}) =>
               doch'[w] # <<>> \/ wk'[w].pc \in {"rcvstream", "rcv"},
           \A u \in donech' : /\ u \in donech \/ u = w
                              /\ u = w => wk'[w].pc \in {"wait", "bye"}
    PROVE  Flow'
<1>1. /\ Worker' = Worker /\ Opaque' = Opaque /\ Pcs' = Pcs
      /\ Endless' <=> Endless
    BY SameOptions
<1>2. \A u \in Worker : /\ Len(doch[u]) \in Nat /\ Len(doch'[u]) \in Nat
                        /\ Len(doch[u]) =< fed /\ fed \in Nat
    BY DEF Flow, Types
<1>3. ASSUME NEW u \in Worker
      PROVE  /\ wk'[u].pc \in Pcs
             /\ wk'[u].pc \in HoldPc => wk'[u].o \in Opaque
             /\ wk'[u].pc \in {"whoami", "bye", "done"}
                    => shut' /\ doch'[u] = <<>>
             /\ Len(doch'[u]) =< fed'
  <2>1. Len(doch'[u]) =< fed'
    <3>1. CASE u = w
      BY <1>2, <3>1
    <3>2. CASE u # w
      BY <1>2, <3>2
    <3> QED
      BY <3>1, <3>2
  <2> QED
    BY <2>1 DEF Flow
<1>4. main' = "wait"
    BY DEF Flow
<1>5. \A u \in donech' : wk'[u].pc \in {"wait", "bye"}
    BY DEF Flow, Types
<1>6. Endless /\ fed' > 0
             => doch'[1] # <<>> \/ wk'[1].pc \in {"rcvstream", "rcv"}
  <2>1. 1 \in Worker
    BY OptionType DEF Types
  <2> QED
    BY <2>1 DEF Flow
<1>7. shut' => fed' = options'.count
    BY DEF Flow
<1> QED
    BY <1>1, <1>3, <1>4, <1>5, <1>6, <1>7 DEF Flow

\* What a routine of the client does is one of its steps at wk[w].pc.
LEMMA WorkerFlow ==
    ASSUME Types, Flow, NEW w \in Worker, worker(w)
    PROVE  Flow'
<1>1. /\ options' = options /\ fed' = fed /\ shut' = shut /\ main' = main
      /\ options \in Options
    BY DEF worker, RangeNext, RangeEnds, sendpost, sendreq, Requested,
           doStream, doStreamTx, base, Types
<1>2. /\ doch \in [Worker -> Seq({doit(options.do)})]
      /\ doch[w] \in Seq({doit(options.do)}) /\ Len(doch[w]) \in Nat
    BY DEF Types
<1>3. options.do \in Do
    BY <1>1, OptionType
<1>4. donech \subseteq Worker /\ \A u \in donech : wk[u].pc \in {"wait", "bye"}
    BY DEF Types, Flow
<1>5. ASSUME doch' = doch, wk[w].pc \notin {"rcvstream", "rcv", "done"},
             wk' \in [Worker -> Routine],
             \A u \in Worker : u # w => wk'[u] = wk[u],
             wk'[w].pc \in Pcs, wk'[w].pc \in HoldPc => wk'[w].o \in Opaque,
             wk'[w].pc \in {"whoami", "bye", "done"}
                 => shut /\ doch[w] = <<>>,
             donech' = donech \ {w}
      PROVE  Flow'
    BY <1>1, <1>2, <1>5, GoesFlow
<1>6. wk[w].pc \notin {"wait", "bye"} => donech \ {w} = donech
    BY <1>4
<1>7. {"range", "whoami", "bye", "done"} \subseteq Pcs
    BY DEF Pcs
<1>8. CASE RangeEnds(w)
  <2>1. /\ wk[w].pc = "range" /\ shut /\ doch[w] = <<>> /\ doch' = doch
        /\ donech' = donech /\ Goto(w, "whoami")
    BY <1>8 DEF RangeEnds, base
  <2>2. /\ wk' \in [Worker -> Routine] /\ wk'[w].pc = "whoami"
        /\ \A u \in Worker : u # w => wk'[u] = wk[u]
    BY <2>1, GotoType DEF Pc
  <2> QED
    BY <1>5, <1>6, <1>7, <2>1, <2>2 DEF HoldPc
<1>9. CASE RangeNext(w)
  <2> DEFINE pc == IF options.prog = "perf" THEN Head(doch[w])
                   ELSE exampleWorker(Head(doch[w]))
  <2>1. /\ wk[w].pc = "range" /\ doch[w] # <<>> /\ Goto(w, pc)
        /\ doch' = [doch EXCEPT ![w] = Tail(@)] /\ donech' = donech
    BY <1>9 DEF RangeNext
  <2>2. Head(doch[w]) = doit(options.do)
    BY <1>2, <2>1
  <2>3. /\ pc \in Pcs /\ pc \in Pc
        /\ pc \notin {"wait", "bye", "streaming", "whoami", "done"}
        /\ Endless => pc = "rcvstream"
    BY <1>1, <1>3, <2>2, OptionType
    DEF exampleWorker, doit, Do, Pcs, Pc, Perfs, Endless
  <2> HIDE DEF pc
  <2>4. /\ wk' \in [Worker -> Routine] /\ wk'[w].pc = pc
        /\ \A u \in Worker : u # w => wk'[u] = wk[u]
    BY <2>1, <2>3, GotoType
  <2>5. /\ Tail(doch[w]) \in Seq({doit(options.do)})
        /\ Len(Tail(doch[w])) = Len(doch[w]) - 1
    BY <1>2, <2>1
  <2>6. /\ doch' \in [Worker -> Seq({doit(options.do)})]
        /\ \A u \in Worker : u # w => doch'[u] = doch[u]
        /\ doch'[w] = Tail(doch[w])
    BY <1>2, <2>1, <2>5
  <2>7. Len(doch'[w]) =< Len(doch[w])
    BY <1>2, <2>5, <2>6
  <2>8. /\ wk'[w].pc \in HoldPc => wk'[w].o \in Opaque
        /\ wk'[w].pc \in {"whoami", "bye", "done"}
               => shut /\ doch'[w] = <<>>
        /\ Endless => wk'[w].pc \in {"rcvstream", "rcv"}
        /\ w \notin donech'
    BY <1>4, <2>1, <2>3, <2>4 DEF HoldPc
  <2> QED
    BY <1>1, <2>1, <2>3, <2>4, <2>6, <2>7, <2>8, GoesFlow
<1>10. CASE sendpost(w)
  <2>1. /\ wk[w].pc = "sendpost" /\ doch' = doch /\ donech' = donech
        /\ Goto(w, "range")
    BY <1>10 DEF sendpost, base
  <2>2. /\ wk' \in [Worker -> Routine] /\ wk'[w].pc = "range"
        /\ \A u \in Worker : u # w => wk'[u] = wk[u]
    BY <2>1, GotoType DEF Pc
  <2> QED
    BY <1>5, <1>6, <1>7, <2>1, <2>2 DEF HoldPc
<1>11. CASE sendreq(w)
  <2> DEFINE pc == IF wk[w].pc = "whoami" THEN "bye" ELSE "wait"
  <2>1. /\ wk[w].pc \in {"sendreq", "whoami"} /\ doch' = doch
        /\ donech' = donech /\ Open(w, pc, 0)
    BY <1>11 DEF sendreq, base
  <2>2. pc \in Pc /\ 0 \in 0..options.stream
    BY <1>1, OptionType DEF Pc
  <2>3. /\ pc \in Pcs
        /\ pc = "bye" => shut /\ doch[w] = <<>>
        /\ pc \notin {"whoami", "done"}
    BY <2>1 DEF Flow, Pcs
  <2> HIDE DEF pc
  <2>4. /\ wk' \in [Worker -> Routine] /\ wk'[w].pc = pc /\ wk'[w].o \in Opaque
        /\ \A u \in Worker : u # w => wk'[u] = wk[u]
    BY <2>1, <2>2, OpenType
  <2> QED
    BY <1>5, <1>6, <2>1, <2>3, <2>4
<1>12. CASE Requested(w)
  <2> DEFINE pc == IF wk[w].pc = "bye" THEN "done" ELSE "range"
  <2>1. /\ wk[w].pc \in {"wait", "bye"} /\ doch' = doch
        /\ donech' = donech \ {w} /\ Goto(w, pc)
    BY <1>12 DEF Requested, base
  <2>2. /\ pc \in Pc /\ pc \in Pcs /\ pc \notin {"whoami", "bye"}
        /\ pc \notin HoldPc
        /\ pc = "done" => shut /\ doch[w] = <<>>
    BY <1>7, <2>1 DEF Flow, HoldPc, Pc
  <2> HIDE DEF pc
  <2>3. /\ wk' \in [Worker -> Routine] /\ wk'[w].pc = pc
        /\ \A u \in Worker : u # w => wk'[u] = wk[u]
    BY <2>1, <2>2, GotoType
  <2> QED
    BY <1>5, <2>1, <2>2, <2>3
<1>13. CASE doStream(w)
  <2> DEFINE pc == IF wk[w].pc = "sendstream" THEN "streaming" ELSE "rcv"
  <2>1. /\ wk[w].pc \in {"sendstream", "rcvstream"} /\ doch' = doch
        /\ donech' = donech /\ Open(w, pc, options.stream)
    BY <1>13 DEF doStream, base
  <2>2. pc \in Pc /\ options.stream \in 0..options.stream
    BY <1>1, OptionType DEF Pc
  <2>3. /\ pc \in Pcs /\ pc \notin {"whoami", "bye", "done"}
        /\ wk[w].pc = "rcvstream" => pc = "rcv"
        /\ wk[w].pc = "sendstream" => ~Endless
    BY <2>1 DEF Flow, Pcs, Perfs, Endless
  <2> HIDE DEF pc
  <2>4. /\ wk' \in [Worker -> Routine] /\ wk'[w].pc = pc /\ wk'[w].o \in Opaque
        /\ \A u \in Worker : u # w => wk'[u] = wk[u]
    BY <2>1, <2>2, OpenType
  <2>5. \A u \in donech' : u \in donech /\ u # w
    BY <1>4, <2>1
  <2>6. Len(doch'[w]) =< Len(doch[w])
    BY <1>2, <2>1
  <2> QED
    BY <1>1, <1>2, <2>1, <2>3, <2>4, <2>5, <2>6, GoesFlow
<1>14. CASE doStreamTx(w)
  <2>1. /\ wk[w].pc = "streaming" /\ doch' = doch /\ donech' = donech
    BY <1>14 DEF doStreamTx, base
  <2>2. /\ wk' \in [Worker -> Routine]
        /\ \A u \in Worker : u # w => wk'[u] = wk[u]
        /\ \/ wk'[w].pc = "range"
           \/ wk'[w].pc = wk[w].pc /\ wk'[w].o = wk[w].o
    <3>1. CASE Goto(w, "range")
      BY <3>1, GotoType DEF Pc
    <3>2. CASE wk[w].left > 0 /\ wk' = [wk EXCEPT ![w].left = @ - 1]
      <4>1. wk[w].left \in 0..options.stream
        BY WkType
      <4>2. options.stream \in Nat
        BY <1>1, OptionType
      <4>3. wk[w].left - 1 \in 0..options.stream
        BY <3>2, <4>1, <4>2
      <4> QED
        BY <3>2, <4>3 DEF Types, Routine
    <3> QED
      BY <1>14, <3>1, <3>2 DEF doStreamTx
  <2>3. wk[w].pc \in Pcs /\ wk[w].o \in Opaque
    BY <2>1 DEF Flow, HoldPc
  <2> QED
    BY <1>5, <1>6, <1>7, <2>1, <2>2, <2>3 DEF HoldPc
<1> QED
    BY <1>8, <1>9, <1>10, <1>11, <1>12, <1>13, <1>14 DEF worker
-----------------------------------------------------------------------------
(* The streams: what a step does to the view of one opaque. *)

\* t is s without its first element k.
Rest(s, k, t) == /\ Len(t) \in Nat /\ Len(s) = Len(t) + 1 /\ s[1] = k
                 /\ DOMAIN t = 1..Len(t) /\ DOMAIN s = 1..Len(s)
                 /\ \A i \in 1..Len(t) : t[i] = s[i + 1]
                 /\ s # <<>>
                 /\ t = <<>> <=> Len(t) = 0

\* A sequence without its first element.
LEMMA RestIs ==
    ASSUME NEW S, NEW t \in Seq(S), NEW k \in S
    PROVE  Rest(<<k>> \o t, k, t)
BY DEF Rest

\* A sequence of packets that loses its first.
LEMMA RestKinds ==
    ASSUME NEW t, NEW k, NEW s, Rest(s, k, t)
    PROVE  /\ s # <<>>
           /\ \A x : One(s, x) => k.t = x /\ t = <<>>
           /\ Within(s) => k.t = "stream" /\ Within(t)
           /\ Starting(s) => k.t = "start" /\ Within(t)
           /\ Ending(s) => \/ k.t = "stream" /\ Ending(t)
                           \/ k.t = "finish" /\ t = <<>>
           /\ Whole(s) => k.t = "start" /\ Ending(t)
<1>1. /\ Len(t) \in Nat /\ Len(s) = Len(t) + 1 /\ s[1] = k
      /\ DOMAIN t = 1..Len(t) /\ DOMAIN s = 1..Len(s)
      /\ \A i \in 1..Len(t) : t[i] = s[i + 1]
      /\ s # <<>>
      /\ t = <<>> <=> Len(t) = 0
    BY DEF Rest
<1>3. /\ \A x : One(s, x) => k.t = x /\ t = <<>>
      /\ Within(s) => k.t = "stream" /\ Within(t)
      /\ Starting(s) => k.t = "start" /\ Within(t)
    BY <1>1 DEF One, Within, Starting
<1>4. Ending(s) => \/ k.t = "stream" /\ Ending(t)
                   \/ k.t = "finish" /\ t = <<>>
    BY <1>1 DEF Ending
<1>5. Whole(s) => k.t = "start" /\ Ending(t)
    BY <1>1 DEF Ending, Whole
<1> QED
    BY <1>1, <1>3, <1>4, <1>5

\* The same, of a sequence that is written as its first and the rest.
LEMMA ConsKinds ==
    ASSUME NEW t \in Seq(Message), NEW k \in Message, NEW s, s = <<k>> \o t
    PROVE  /\ s # <<>>
           /\ \A x : One(s, x) => k.t = x /\ t = <<>>
           /\ Within(s) => k.t = "stream" /\ Within(t)
           /\ Starting(s) => k.t = "start" /\ Within(t)
           /\ Ending(s) => \/ k.t = "stream" /\ Ending(t)
                           \/ k.t = "finish" /\ t = <<>>
           /\ Whole(s) => k.t = "start" /\ Ending(t)
<1>1. Rest(s, k, t)
    BY RestIs
<1> QED
    BY <1>1, RestKinds

\* A sequence of packets that gets another.
LEMMA AppendKinds ==
    ASSUME NEW s \in Seq(Message), NEW k \in Message
    PROVE  /\ s = <<>> => One(Append(s, k), k.t)
           /\ s = <<>> /\ k.t = "start" => Starting(Append(s, k))
           /\ k.t = "stream" => /\ Within(s) => Within(Append(s, k))
                                /\ Starting(s) => Starting(Append(s, k))
           /\ k.t = "finish" => /\ Within(s) => Ending(Append(s, k))
                                /\ Starting(s) => Whole(Append(s, k))
<1> DEFINE u == Append(s, k)
<1>1. /\ Len(s) \in Nat /\ Len(u) = Len(s) + 1 /\ u[Len(s) + 1] = k
      /\ DOMAIN s = 1..Len(s) /\ DOMAIN u = 1..Len(u) /\ u # <<>>
      /\ \A i \in 1..Len(s) : u[i] = s[i]
    OBVIOUS
<1>2. s = <<>> <=> Len(s) = 0
    OBVIOUS
<1> HIDE DEF u
<1>3. /\ s = <<>> => One(u, k.t)
      /\ s = <<>> /\ k.t = "start" => Starting(u)
    BY <1>1, <1>2 DEF One, Starting
<1>4. k.t = "stream" => /\ Within(s) => Within(u)
                        /\ Starting(s) => Starting(u)
    BY <1>1, <1>2 DEF Within, Starting
<1>5. k.t = "finish" => /\ Within(s) => Ending(u)
                        /\ Starting(s) => Whole(u)
    BY <1>1, <1>2 DEF Within, Starting, Ending, Whole
<1> QED
    BY <1>3, <1>4, <1>5 DEF u

\* Request() on a free stream.
LEMMA AskView ==
    ASSUME NEW v, NEW u, NEW e \in BOOLEAN, NEW k \in Message, NEW h,
           Free(v, e), k.t = "0x81", v.c \in Seq(Message),
           u.c = Append(v.c, k), u.s = v.s, u.lc, u.ls <=> v.ls,
           ~u.ret, ~u.pool, u.snd = v.snd, u.hold = {h},
           h.pc \in {"wait", "bye"}, ~h.told, u.cb = h.w
    PROVE  Good(u, e)
<1>1. One(u.c, "0x81")
    BY AppendKinds DEF Free
<1> QED
    BY <1>1 DEF Good, Free, Asked

\* Transport.Stream() on a free stream, to send or to receive.
LEMMA OpenView ==
    ASSUME NEW v, NEW u, NEW e \in BOOLEAN, NEW k \in Message, NEW h,
           Free(v, e), k.t = "start", v.c \in Seq(Message),
           u.c = Append(v.c, k), u.s = v.s, u.lc, u.ls <=> v.ls,
           ~u.ret, ~u.pool, u.snd = v.snd,
           IF e THEN u.hold = {} ELSE u.hold = {h} /\ h.pc = "streaming"
    PROVE  Good(u, e)
<1>1. One(u.c, "start") /\ Starting(u.c)
    BY AppendKinds DEF Free
<1> QED
    BY <1>1 DEF Good, Free, Streamed, Received

\* A routine that streams sends a message, or closes.
LEMMA StreamView ==
    ASSUME NEW v, NEW u, NEW e \in BOOLEAN, NEW k \in Message,
           NEW h, NEW g,
           Good(v, e), v.c \in Seq(Message), h \in v.hold, h.pc = "streaming",
           u.c = Append(v.c, k), u.s = v.s, u.lc <=> v.lc, u.ls <=> v.ls,
           u.ret <=> v.ret, u.pool <=> v.pool, u.snd = v.snd,
           \/ k.t = "stream" /\ u.hold = {g} /\ g.pc = "streaming"
           \/ k.t = "finish" /\ u.hold = {}
    PROVE  Good(u, e)
<1>1. Streamed(v, e) /\ v.s = <<>> /\ IF v.ls THEN Within(v.c)
                                      ELSE Starting(v.c)
    BY DEF Good, Free, Asked, Back, Streamed, Received
<1>2. IF k.t = "stream"
      THEN IF v.ls THEN Within(u.c) ELSE Starting(u.c)
      ELSE IF v.ls THEN Ending(u.c) ELSE Whole(u.c)
    BY <1>1, AppendKinds
<1> QED
    BY <1>1, <1>2 DEF Good, Streamed

\* Request() is over.
LEMMA OverView ==
    ASSUME NEW v, NEW u, NEW e \in BOOLEAN, NEW h,
           Good(v, e), h \in v.hold, h.pc \in {"wait", "bye"}, h.told,
           u.c = v.c, u.s = v.s, u.lc <=> v.lc, u.ls <=> v.ls, u.ret,
           u.pool <=> v.pool, u.snd = v.snd, u.hold = {}
    PROVE  Good(u, e)
<1>1. Asked(v, e) /\ v.c = <<>> /\ v.s = <<>>
    BY DEF Good, Free, Asked, Back, Streamed, Received
<1> QED
    BY <1>1 DEF Good, Asked, Back

\* What the first packet to the server says of its stream.
LEMMA FromClientView ==
    ASSUME NEW v, NEW e \in BOOLEAN, NEW k \in Message,
           NEW c \in Seq(Message), Good(v, e), v.c = <<k>> \o c
    PROVE  \/ /\ k.t = "0x81" /\ Asked(v, e) /\ c = <<>> /\ v.s = <<>>
              /\ \A h \in v.hold : ~h.told
           \/ /\ k.t = "start" /\ Streamed(v, e) /\ v.s = <<>> /\ ~v.ls
              /\ \/ /\ Within(c)
                    /\ \E h \in v.hold : v.hold = {h} /\ h.pc = "streaming"
                 \/ Ending(c) /\ v.hold = {}
           \/ /\ k.t = "start" /\ Received(v, e) /\ c = <<>> /\ v.s = <<>>
              /\ v.snd = {}
           \/ /\ k.t = "stream" /\ Streamed(v, e) /\ v.s = <<>> /\ v.ls
              /\ \/ /\ Within(c)
                    /\ \E h \in v.hold : v.hold = {h} /\ h.pc = "streaming"
                 \/ Ending(c) /\ v.hold = {}
           \/ /\ k.t = "finish" /\ Streamed(v, e) /\ v.s = <<>> /\ v.ls
              /\ c = <<>> /\ v.hold = {}
<1>1. /\ v.c # <<>>
      /\ \A x : One(v.c, x) => k.t = x /\ c = <<>>
      /\ Within(v.c) => k.t = "stream" /\ Within(c)
      /\ Starting(v.c) => k.t = "start" /\ Within(c)
      /\ Ending(v.c) => \/ k.t = "stream" /\ Ending(c)
                        \/ k.t = "finish" /\ c = <<>>
      /\ Whole(v.c) => k.t = "start" /\ Ending(c)
    BY ConsKinds
<1>2. CASE Asked(v, e)
    BY <1>1, <1>2 DEF Asked
<1>3. CASE Streamed(v, e)
    BY <1>1, <1>3 DEF Streamed
<1>4. CASE Received(v, e)
    BY <1>1, <1>4 DEF Received
<1> QED
    BY <1>1, <1>2, <1>3, <1>4 DEF Good, Free, Back

\* What the first packet to the client says of its stream.
LEMMA FromServerView ==
    ASSUME NEW v, NEW e \in BOOLEAN, NEW k \in Message,
           NEW s \in Seq(Message), Good(v, e), v.s = <<k>> \o s
    PROVE  \/ /\ k.t = "0x81" /\ Asked(v, e) /\ s = <<>> /\ v.c = <<>>
           \/ /\ k.t = "stream" /\ Received(v, e) /\ v.c = <<>>
              /\ \/ Within(s) /\ \E x \in v.snd : v.snd = {x}
                 \/ Ending(s) /\ v.snd = {}
           \/ /\ k.t = "finish" /\ (Streamed(v, e) \/ Received(v, e))
              /\ s = <<>> /\ v.c = <<>> /\ v.hold = {} /\ v.snd = {}
              /\ v.ls => e
<1>1. /\ v.s # <<>>
      /\ \A x : One(v.s, x) => k.t = x /\ s = <<>>
      /\ Within(v.s) => k.t = "stream" /\ Within(s)
      /\ Ending(v.s) => \/ k.t = "stream" /\ Ending(s)
                        \/ k.t = "finish" /\ s = <<>>
    BY ConsKinds
<1>2. CASE Asked(v, e)
    BY <1>1, <1>2 DEF Asked
<1>3. CASE Streamed(v, e)
    BY <1>1, <1>3 DEF Streamed
<1>4. CASE Received(v, e)
    BY <1>1, <1>4 DEF Received
<1> QED
    BY <1>1, <1>2, <1>3, <1>4 DEF Good, Free, Back

\* The client's side of two views is the same.
Alike(v, u) == /\ u.lc <=> v.lc
               /\ u.ret <=> v.ret
               /\ u.pool <=> v.pool
               /\ u.cb = v.cb
               /\ u.hold = v.hold

\* The server responds to a request.
LEMMA RequestView ==
    ASSUME NEW v, NEW u, NEW e \in BOOLEAN, NEW k \in Message,
           NEW q \in Message, Good(v, e), v.s \in Seq(Message),
           u.c \in Seq(Message), v.c = <<k>> \o u.c, k.t = "0x81",
           u.s = Append(v.s, q), q.t = "0x81",
           Alike(v, u), u.ls <=> v.ls, u.snd = v.snd
    PROVE  Good(u, e)
<1>1. /\ Asked(v, e) /\ u.c = <<>> /\ v.s = <<>>
      /\ \A h \in v.hold : ~h.told
    BY FromClientView
<1>2. One(u.s, "0x81")
    BY <1>1, AppendKinds
<1> QED
    BY <1>1, <1>2 DEF Good, Asked, Alike

\* It drops what it takes for a second use of a stream.
LEMMA DuplicateView ==
    ASSUME NEW v, NEW u, NEW e \in BOOLEAN, NEW k \in Message, Good(v, e),
           u.c \in Seq(Message), v.c = <<k>> \o u.c, k.t \in {"0x81", "start"},
           v.ls, u.s = v.s, Alike(v, u), u.ls, u.snd = v.snd
    PROVE  Good(u, e)
<1>1. \/ Asked(v, e) /\ u.c = <<>> /\ v.s = <<>>
      \/ Received(v, e) /\ u.c = <<>> /\ v.s = <<>> /\ v.snd = {}
    BY FromClientView
<1>2. CASE Asked(v, e) /\ u.c = <<>> /\ v.s = <<>>
    BY <1>2 DEF Good, Asked, Alike
<1>3. CASE Received(v, e) /\ u.c = <<>> /\ v.s = <<>> /\ v.snd = {}
    BY <1>3 DEF Good, Received, Alike
<1> QED
    BY <1>1, <1>2, <1>3

\* The server starts a stream.
LEMMA StartView ==
    ASSUME NEW v, NEW u, NEW e \in BOOLEAN, NEW k \in Message, NEW x,
           Good(v, e), u.c \in Seq(Message), v.c = <<k>> \o u.c,
           k.t = "start", ~v.ls, u.ls, u.s = v.s, Alike(v, u),
           IF e THEN u.snd = {x} ELSE u.snd = v.snd
    PROVE  Good(u, e)
<1>1. \/ /\ Streamed(v, e) /\ v.s = <<>>
         /\ \/ /\ Within(u.c)
               /\ \E h \in v.hold : v.hold = {h} /\ h.pc = "streaming"
            \/ Ending(u.c) /\ v.hold = {}
      \/ Received(v, e) /\ u.c = <<>> /\ v.s = <<>>
    BY FromClientView
<1>2. CASE /\ Streamed(v, e) /\ v.s = <<>>
           /\ \/ /\ Within(u.c)
                 /\ \E h \in v.hold : v.hold = {h} /\ h.pc = "streaming"
              \/ Ending(u.c) /\ v.hold = {}
    BY <1>2 DEF Good, Streamed, Alike
<1>3. CASE Received(v, e) /\ u.c = <<>> /\ v.s = <<>>
  <2>1. Within(u.s)
    BY <1>3 DEF Within
  <2> QED
    BY <1>3, <2>1 DEF Good, Received, Alike
<1> QED
    BY <1>1, <1>2, <1>3

\* The server takes a stream message.
LEMMA MessageView ==
    ASSUME NEW v, NEW u, NEW e \in BOOLEAN, NEW k \in Message, Good(v, e),
           u.c \in Seq(Message), v.c = <<k>> \o u.c, k.t = "stream",
           u.s = v.s, Alike(v, u), u.ls <=> v.ls, u.snd = v.snd
    PROVE  Good(u, e)
<1>1. /\ Streamed(v, e) /\ v.s = <<>> /\ v.ls
      /\ \/ /\ Within(u.c)
            /\ \E h \in v.hold : v.hold = {h} /\ h.pc = "streaming"
         \/ Ending(u.c) /\ v.hold = {}
    BY FromClientView
<1> QED
    BY <1>1 DEF Good, Streamed, Alike

\* The server takes a finish, and closes its side.
LEMMA FinishView ==
    ASSUME NEW v, NEW u, NEW e \in BOOLEAN, NEW k \in Message,
           NEW q \in Message, Good(v, e), v.s \in Seq(Message),
           u.c \in Seq(Message), v.c = <<k>> \o u.c, k.t = "finish",
           v.ls => u.s = Append(v.s, q), q.t = "finish",
           Alike(v, u), ~u.ls, u.snd = v.snd
    PROVE  Good(u, e) /\ v.ls
<1>1. /\ Streamed(v, e) /\ u.c = <<>> /\ v.s = <<>> /\ v.ls /\ v.hold = {}
    BY FromClientView
<1>2. One(u.s, "finish")
    BY <1>1, AppendKinds
<1> QED
    BY <1>1, <1>2 DEF Good, Streamed, Alike

\* The client takes a response, and tells the routine that waits for it.
LEMMA ResponseView ==
    ASSUME NEW v, NEW e \in BOOLEAN, NEW k \in Message,
           NEW s \in Seq(Message), Good(v, e), v.s = <<k>> \o s, k.t = "0x81"
    PROVE  /\ \E h \in v.hold : v.hold = {h} /\ h.pc \in {"wait", "bye"}
                                /\ v.cb = h.w
           /\ \A u : /\ u.c = v.c /\ u.s = s /\ u.snd = v.snd
                     /\ u.lc <=> v.lc
                     /\ u.ls <=> v.ls
                     /\ u.ret <=> v.ret
                     /\ u.pool <=> v.pool
                     /\ u.cb = v.cb
                     /\ \A h \in v.hold : \E g : /\ u.hold = {g} /\ g.w = h.w
                                                 /\ g.pc = h.pc /\ g.told
                     => Good(u, e)
<1>1. Asked(v, e) /\ s = <<>> /\ v.c = <<>>
    BY FromServerView
<1> QED
    BY <1>1 DEF Asked, Good

\* The client takes a stream message.
LEMMA ReceivedView ==
    ASSUME NEW v, NEW u, NEW e \in BOOLEAN, NEW k \in Message, Good(v, e),
           u.s \in Seq(Message), v.s = <<k>> \o u.s, k.t = "stream",
           u.c = v.c, Alike(v, u), u.ls <=> v.ls, u.snd = v.snd
    PROVE  Good(u, e)
<1>1. /\ Received(v, e) /\ v.c = <<>>
      /\ \/ Within(u.s) /\ \E x \in v.snd : v.snd = {x}
         \/ Ending(u.s) /\ v.snd = {}
    BY FromServerView
<1> QED
    BY <1>1 DEF Good, Received, Alike

\* The client takes a finish, and has the stream back.
LEMMA ClosedView ==
    ASSUME NEW v, NEW u, NEW e \in BOOLEAN, NEW k \in Message, Good(v, e),
           u.s \in Seq(Message), v.s = <<k>> \o u.s, k.t = "finish",
           u.c = v.c, u.hold = v.hold, u.ls <=> v.ls, u.snd = v.snd,
           u.ret <=> v.ret, ~u.lc, v.lc => u.pool
    PROVE  Good(u, e) /\ v.lc /\ ~v.pool
<1>1. /\ Streamed(v, e) \/ Received(v, e)
      /\ u.s = <<>> /\ v.c = <<>> /\ v.hold = {} /\ v.snd = {}
      /\ v.ls => e
    BY FromServerView
<1>2. v.lc /\ ~v.pool /\ ~v.ret
    BY <1>1 DEF Streamed, Received
<1> QED
    BY <1>1, <1>2 DEF Good, Free

\* The client has a stream back whose request is over.
LEMMA UpdateView ==
    ASSUME NEW v, NEW u, NEW e \in BOOLEAN, Good(v, e), v.ret,
           u.c = v.c, u.s = v.s, u.hold = v.hold, u.ls <=> v.ls,
           u.snd = v.snd, ~u.ret, ~u.lc, u.pool
    PROVE  Good(u, e) /\ ~v.pool
<1>1. Back(v, e)
    BY DEF Good, Free, Asked, Streamed, Received
<1> QED
    BY <1>1 DEF Good, Back, Free

\* A routine of the server sends a message, or closes.
LEMMA SenderView ==
    ASSUME NEW v, NEW u, NEW e \in BOOLEAN, NEW k \in Message, NEW y,
           Good(v, e), v.s \in Seq(Message), v.snd # {},
           u.s = Append(v.s, k), u.c = v.c, Alike(v, u), u.ls <=> v.ls,
           \/ k.t = "stream" /\ u.snd = {y}
           \/ k.t = "finish" /\ u.snd = {}
    PROVE  Good(u, e)
<1>1. Received(v, e) /\ v.c = <<>> /\ Within(v.s)
    BY DEF Good, Free, Asked, Back, Streamed, Received
<1>2. IF k.t = "stream" THEN Within(u.s) ELSE Ending(u.s)
    BY <1>1, AppendKinds
<1> QED
    BY <1>1, <1>2 DEF Good, Received, Alike

-----------------------------------------------------------------------------
(* The streams: every step. *)

\* The parts of the view of a stream, now and after a step.
LEMMA ViewIs ==
    ASSUME NEW o
    PROVE  /\ View(o).c = Keep(OnStream(o), wire["client"])
           /\ View(o).s = Keep(OnStream(o), wire["server"])
           /\ View(o).lc <=> o \in live["client"]
           /\ View(o).ls <=> o \in live["server"]
           /\ View(o).ret <=> o \in returning
           /\ View(o).pool <=> o \in ToSet(pStrms)
           /\ View(o).cb = rxcallb[o]
           /\ View(o).hold = Hold(o) /\ View(o).snd = Snd(o)
BY DEF View

\* The parts of a view after a step.
LEMMA ViewNext ==
    ASSUME NEW o
    PROVE  /\ View(o)'.c = Keep(OnStream(o), wire'["client"])
           /\ View(o)'.s = Keep(OnStream(o), wire'["server"])
           /\ View(o)'.lc <=> o \in live'["client"]
           /\ View(o)'.ls <=> o \in live'["server"]
           /\ View(o)'.ret <=> o \in returning'
           /\ View(o)'.pool <=> o \in ToSet(pStrms')
           /\ View(o)'.cb = rxcallb'[o]
           /\ View(o)'.hold = Hold(o)' /\ View(o)'.snd = Snd(o)'
BY DEF View

\* The parts of a view but for the packets: they stay as they are.
Idle(o) == /\ o \in live'["client"] <=> o \in live["client"]
           /\ o \in live'["server"] <=> o \in live["server"]
           /\ o \in returning' <=> o \in returning
           /\ o \in ToSet(pStrms') <=> o \in ToSet(pStrms)
           /\ rxcallb'[o] = rxcallb[o] /\ Hold(o)' = Hold(o)
           /\ Snd(o)' = Snd(o)

\* The packets of stream o stay as they are.
Silent(o, e) == Keep(OnStream(o), wire'[e]) = Keep(OnStream(o), wire[e])

\* A stream that a step does not touch.
LEMMA SameView ==
    ASSUME NEW o \in Opaque, Streams, Idle(o), Silent(o, "client"),
           Silent(o, "server")
    PROVE  Good(View(o)', Endless)
<1>1. View(o)' = View(o)
    BY DEF View, Idle, Silent
<1>2. Good(View(o), Endless)
    BY DEF Streams
<1> QED
    BY <1>1, <1>2

\* The streams after a step.
LEMMA StreamsNext ==
    ASSUME options' = options, IsInjective(pStrms'),
           \A o \in Opaque : Good(View(o)', Endless)
    PROVE  Streams'
<1>1. Opaque' = Opaque /\ Endless' = Endless
    BY DEF Opaque, perfOpaque, exampleOpaque, Endless
<1> QED
    BY <1>1 DEF Streams

\* The packets of a stream.
LEMMA ViewType ==
    ASSUME Types, NEW M, NEW e \in End
    PROVE  wire[e] \in Seq(Message) /\ Keep(M, wire[e]) \in Seq(Message)
<1>1. Packet \subseteq Message /\ wire[e] \in Seq(Packet)
    BY PacketMessage DEF Types
<1>2. wire[e] \in Seq(Message)
    BY <1>1
<1> QED
    BY <1>2, KeepType

\* The wires as a stream sees them are sequences of packets.
LEMMA ViewSeqs ==
    ASSUME Types, NEW o
    PROVE  View(o).c \in Seq(Message) /\ View(o).s \in Seq(Message)
<1>1. "client" \in End /\ "server" \in End
    BY DEF End
<1>2. /\ Keep(OnStream(o), wire["client"]) \in Seq(Message)
      /\ Keep(OnStream(o), wire["server"]) \in Seq(Message)
    BY <1>1, ViewType
<1> QED
    BY <1>2, ViewIs

\* Endless is true or false, for the provers.
LEMMA EndlessType == Endless \in BOOLEAN
BY DEF Endless

\* Who has a stream, when nothing changes that matters to it.
Holds(x, o) == wk[x].o = o /\ wk[x].pc \in HoldPc

\* The routines that have stream o are the same when none of them changes.
LEMMA HoldSame ==
    ASSUME Worker' = Worker, NEW o,
           \A x \in Worker : Holds(x, o)' <=> Holds(x, o),
           \A x \in Worker : Holds(x, o) => Holder(x)' = Holder(x)
    PROVE  Hold(o)' = Hold(o)
<1>1. /\ Hold(o) = {Holder(x) : x \in {y \in Worker : Holds(y, o)}}
      /\ Hold(o)' = {Holder(x)' : x \in {y \in Worker : Holds(y, o)'}}
    BY DEF Hold, Holds
<1> QED
    BY <1>1

\* Those who have no stream before and after.
LEMMA HoldMoves ==
    ASSUME Worker' = Worker, NEW w \in Worker, donech' = donech, NEW o,
           \A x \in Worker : x # w => wk'[x] = wk[x],
           ~Holds(w, o), ~Holds(w, o)'
    PROVE  Hold(o)' = Hold(o)
<1>1. ASSUME NEW x \in Worker, x # w
      PROVE  /\ Holds(x, o)' <=> Holds(x, o)
             /\ Holder(x)' = Holder(x)
  <2>1. wk'[x] = wk[x]
    BY <1>1
  <2> QED
    BY <2>1 DEF Holds, Holder
<1>2. /\ \A x \in Worker : Holds(x, o)' <=> Holds(x, o)
      /\ \A x \in Worker : Holds(x, o) => Holder(x)' = Holder(x)
    BY <1>1
<1> QED
    BY <1>2, HoldSame

\* Nothing is kept for a stream that nobody has.
LEMMA HoldIn ==
    ASSUME NEW w \in Worker, NEW o, Holds(w, o)
    PROVE  Holder(w) \in Hold(o)
BY DEF Holds, Hold

\* A stream that one routine has.
LEMMA HoldOnly ==
    ASSUME NEW w \in Worker, NEW o, Holds(w, o),
           \A x \in Worker : Holds(x, o) => x = w
    PROVE  Hold(o) = {Holder(w)}
BY DEF Holds, Hold

\* A stream that no routine has.
LEMMA HoldNone ==
    ASSUME NEW o, \A x \in Worker : ~Holds(x, o)
    PROVE  Hold(o) = {}
BY DEF Holds, Hold

\* A stream that one routine has after a step.
LEMMA HoldOneNext ==
    ASSUME Worker' = Worker, NEW w \in Worker, NEW o, Holds(w, o)',
           \A x \in Worker : Holds(x, o)' => x = w
    PROVE  Hold(o)' = {Holder(w)'}
BY DEF Holds, Hold

\* A stream that no routine has after a step.
LEMMA HoldNoneNext ==
    ASSUME Worker' = Worker, NEW o, \A x \in Worker : ~Holds(x, o)'
    PROVE  Hold(o)' = {}
BY DEF Holds, Hold

\* What is recorded of a routine that has a stream.
LEMMA HolderIs ==
    ASSUME NEW w
    PROVE  /\ Holder(w).w = w /\ Holder(w).pc = wk[w].pc
           /\ Holder(w).told <=> w \in donech
           /\ Holder(w)'.w = w /\ Holder(w)'.pc = wk'[w].pc
           /\ Holder(w)'.told <=> w \in donech'
BY DEF Holder

\* Packets of the streams, when k is sent.
LEMMA SendView ==
    ASSUME Types, NEW e \in End, NEW k \in Packet,
           wire' = [wire EXCEPT ![e] = Append(@, k)]
    PROVE  /\ k \in Message
           /\ \A o : k.o # o \/ k.t = "post" => Silent(o, e)
           /\ \A o, f : f \in End /\ f # e => Silent(o, f)
           /\ k.t # "post" => Keep(OnStream(k.o), wire'[e])
                                  = Append(Keep(OnStream(k.o), wire[e]), k)
<1>1. options \in Options /\ wire \in [End -> Seq(Packet)]
    BY DEF Types
<1>2. /\ \A f \in End : f # e => wire'[f] = wire[f]
      /\ \A M : Keep(M, wire'[e]) = IF k \in M
                                    THEN Append(Keep(M, wire[e]), k)
                                    ELSE Keep(M, wire[e])
    BY <1>1, SendWire
<1>3. k \in Message
    BY <1>1, PacketMessage
<1>4. \A o : k \in OnStream(o) <=> k.o = o /\ k.t # "post"
    BY <1>3 DEF OnStream
<1> QED
    BY <1>2, <1>3, <1>4 DEF Silent

\* Packets of the streams, when the first of e is taken.
LEMMA TakeView ==
    ASSUME Types, NEW e \in End, wire[e] # <<>>,
           wire' = [wire EXCEPT ![e] = Tail(@)]
    PROVE  LET k == Head(wire[e]) IN
           /\ k \in Message
           /\ \A o : k.o # o \/ k.t = "post" => Silent(o, e)
           /\ \A o, f : f \in End /\ f # e => Silent(o, f)
           /\ \A o : Keep(OnStream(o), wire'[e]) \in Seq(Message)
           /\ k.t # "post" => Keep(OnStream(k.o), wire[e])
                                  = <<k>> \o Keep(OnStream(k.o), wire'[e])
<1> DEFINE k == Head(wire[e])
<1>1. options \in Options /\ wire \in [End -> Seq(Packet)]
    BY DEF Types
<1>2. /\ \A f \in End : f # e => wire'[f] = wire[f]
      /\ \A M : Keep(M, wire[e]) = IF k \in M
                                   THEN <<k>> \o Keep(M, wire'[e])
                                   ELSE Keep(M, wire'[e])
      /\ k \in Packet /\ wire' \in [End -> Seq(Packet)]
    BY <1>1, TakeWire
<1> HIDE DEF k
<1>3. k \in Message /\ Packet \subseteq Message
    BY <1>1, <1>2, PacketMessage
<1>4. \A o : k \in OnStream(o) <=> k.o = o /\ k.t # "post"
    BY <1>3 DEF OnStream
<1>5. wire'[e] \in Seq(Message)
    BY <1>2, <1>3
<1>6. \A o : Keep(OnStream(o), wire'[e]) \in Seq(Message)
    BY <1>5, KeepType
<1>7. /\ \A o : k.o # o \/ k.t = "post" => Silent(o, e)
      /\ \A o, f : f \in End /\ f # e => Silent(o, f)
      /\ k.t # "post" => Keep(OnStream(k.o), wire[e])
                             = <<k>> \o Keep(OnStream(k.o), wire'[e])
    BY <1>2, <1>4, Zenon DEF Silent
<1> QED
    BY <1>3, <1>6, <1>7 DEF k

\* Packets of the streams, when the server answers one with q.
LEMMA AnswerView ==
    ASSUME Types, NEW q \in Packet, wire["client"] # <<>>,
           wire' = [Taken("server") EXCEPT !["server"] = Append(@, q)],
           q.o = Head(wire["client"]).o, Head(wire["client"]).t # "post",
           q.t # "post"
    PROVE  LET k == Head(wire["client"]) IN
           /\ k \in Message /\ q \in Message
           /\ \A o : k.o # o => Silent(o, "client") /\ Silent(o, "server")
           /\ \A o : Keep(OnStream(o), wire'["client"]) \in Seq(Message)
           /\ Keep(OnStream(k.o), wire["client"])
                  = <<k>> \o Keep(OnStream(k.o), wire'["client"])
           /\ Keep(OnStream(k.o), wire'["server"])
                  = Append(Keep(OnStream(k.o), wire["server"]), q)
<1> DEFINE k == Head(wire["client"])
<1>1. options \in Options /\ wire \in [End -> Seq(Packet)] /\ "client" \in End
    BY DEF Types, End
<1>2. /\ \A M : Keep(M, wire["client"]) = IF k \in M
                      THEN <<k>> \o Keep(M, wire'["client"])
                      ELSE Keep(M, wire'["client"])
      /\ \A M : Keep(M, wire'["server"]) = IF q \in M
                      THEN Append(Keep(M, wire["server"]), q)
                      ELSE Keep(M, wire["server"])
      /\ k \in Packet /\ wire' \in [End -> Seq(Packet)]
    BY <1>1, AnswerWire
<1>3. k.o = q.o /\ k.t # "post"
    OBVIOUS
<1> HIDE DEF k
<1>4. k \in Message /\ q \in Message /\ Packet \subseteq Message
    BY <1>1, <1>2, PacketMessage
<1>5. \A o : /\ k \in OnStream(o) <=> k.o = o
             /\ q \in OnStream(o) <=> k.o = o
    BY <1>3, <1>4 DEF OnStream
<1>6. wire'["client"] \in Seq(Message)
  <2>1. wire'["client"] \in Seq(Packet)
    BY <1>1, <1>2
  <2>2. \A s \in Seq(Packet) : s \in Seq(Message)
    BY <1>4
  <2> QED
    BY <2>1, <2>2, Zenon
<1>7. \A o : Keep(OnStream(o), wire'["client"]) \in Seq(Message)
    BY <1>6, KeepType
<1>8. /\ \A o : k.o # o => Silent(o, "client") /\ Silent(o, "server")
      /\ Keep(OnStream(k.o), wire["client"])
             = <<k>> \o Keep(OnStream(k.o), wire'["client"])
      /\ Keep(OnStream(k.o), wire'["server"])
             = Append(Keep(OnStream(k.o), wire["server"]), q)
    BY <1>2, <1>5, Zenon DEF Silent
<1> QED
    BY <1>4, <1>7, <1>8 DEF k

\* Steps that touch no stream.
LEMMA QuietStreams ==
    ASSUME Streams, options' = options,
           UNCHANGED <<wire, pStrms, rxcallb, returning, live, senders>>,
           \A o : Hold(o)' = Hold(o)
    PROVE  Streams'
<1>1. ASSUME NEW o \in Opaque PROVE Good(View(o)', Endless)
  <2>1. /\ Idle(o) /\ Silent(o, "client") /\ Silent(o, "server")
    BY DEF Idle, Silent, Snd
  <2> QED
    BY <2>1, SameView
<1>2. IsInjective(pStrms')
    BY DEF Streams
<1> QED
    BY <1>1, <1>2, StreamsNext

\* Nobody gets a stream or loses one when the routines stay where they are.
LEMMA HoldStays ==
    ASSUME options' = options, wk' = wk, donech' = donech
    PROVE  \A o : Hold(o)' = Hold(o)
BY DEF Hold, Holder, Worker

\* The range loop of a routine.
LEMMA RangeStreams ==
    ASSUME Types, Streams, NEW w \in Worker, RangeNext(w) \/ RangeEnds(w)
    PROVE  Streams'
<1>1. /\ options' = options /\ options \in Options /\ wk[w].pc = "range"
      /\ donech' = donech
      /\ UNCHANGED <<wire, pStrms, rxcallb, returning, live, senders>>
    BY DEF RangeNext, RangeEnds, base, strms, Types
<1>2. PICK pc \in Pc : Goto(w, pc) /\ pc \notin HoldPc
  <2>1. CASE RangeEnds(w)
    BY <2>1 DEF RangeEnds, Pc, HoldPc
  <2>2. CASE RangeNext(w)
    <3> DEFINE pc == IF options.prog = "perf" THEN Head(doch[w])
                     ELSE exampleWorker(Head(doch[w]))
    <3>1. doch[w] \in Seq({doit(options.do)}) /\ doch[w] # <<>> /\ Goto(w, pc)
      BY <2>2 DEF RangeNext, Types
    <3>2. Head(doch[w]) = doit(options.do)
      BY <3>1
    <3>3. options.do \in Do
      BY <1>1, OptionType
    <3>4. pc \in Pc /\ pc \notin HoldPc
      BY <3>2, <3>3 DEF exampleWorker, doit, Do, Pc, HoldPc
    <3> HIDE DEF pc
    <3> QED
      BY <3>1, <3>4
  <2> QED
    BY <2>1, <2>2
<1>3. /\ wk'[w].pc = pc
      /\ \A u \in Worker : u # w => wk'[u] = wk[u]
    BY <1>2, GotoType
<1>4. ASSUME NEW o PROVE Hold(o)' = Hold(o)
  <2>1. ~Holds(w, o) /\ ~Holds(w, o)' /\ Worker' = Worker
    BY <1>1, <1>2, <1>3 DEF Holds, HoldPc, Worker
  <2> QED
    BY <1>1, <1>3, <2>1, HoldMoves
<1> QED
    BY <1>1, <1>4, QuietStreams

\* A stream goes to the end of the pool.
LEMMA PoolTurns ==
    ASSUME Types, Streams, pStrms # <<>>,
           pStrms' = Append(Tail(pStrms), Head(pStrms))
    PROVE  IsInjective(pStrms') /\ ToSet(pStrms') = ToSet(pStrms)
<1> DEFINE t == Tail(pStrms)
           h == Head(pStrms)
<1>1. pStrms \in Seq(Opaque) /\ IsInjective(pStrms)
    BY DEF Types, Streams
<1>2. /\ ToSet(pStrms) = {h} \cup ToSet(t) /\ IsInjective(t)
      /\ h \notin ToSet(t)
    BY <1>1, TailSet
<1>3. t \in Seq(Opaque) /\ h \in Opaque
    BY <1>1
<1>4. pStrms' = Append(t, h)
    OBVIOUS
<1> HIDE DEF t, h
<1>5. /\ ToSet(Append(t, h)) = ToSet(t) \cup {h}
      /\ IsInjective(Append(t, h))
    BY <1>2, <1>3, AppendSet
<1> QED
    BY <1>2, <1>4, <1>5

\* Post(), of a routine or of a heartbeat.
LEMMA PostStreams ==
    ASSUME Types, Streams, NEW w \in Worker, NEW e \in End,
           sendpost(w) \/ Heartbeat(e)
    PROVE  Streams'
<1>1. /\ options' = options /\ donech' = donech
      /\ UNCHANGED <<rxcallb, returning, live, senders>>
    BY DEF sendpost, Heartbeat, base, client
<1>2. /\ IsInjective(pStrms') /\ ToSet(pStrms') = ToSet(pStrms)
  <2>1. CASE pStrms # <<>> /\ pStrms' = Append(Tail(pStrms), Head(pStrms))
    BY <2>1, PoolTurns
  <2>2. CASE pStrms' = pStrms
    BY <2>2 DEF Streams
  <2> QED
    BY <2>1, <2>2 DEF sendpost, Heartbeat
<1>3. ASSUME NEW o PROVE Hold(o)' = Hold(o)
  <2>1. CASE sendpost(w)
    <3>1. wk[w].pc = "sendpost" /\ Goto(w, "range") /\ "range" \in Pc
      BY <2>1 DEF sendpost, Pc
    <3>2. /\ wk'[w].pc = "range"
          /\ \A u \in Worker : u # w => wk'[u] = wk[u]
      BY <3>1, GotoType
    <3>3. ~Holds(w, o) /\ ~Holds(w, o)' /\ Worker' = Worker
      BY <1>1, <3>1, <3>2 DEF Holds, HoldPc, Worker
    <3> QED
      BY <1>1, <3>2, <3>3, HoldMoves
  <2>2. CASE Heartbeat(e)
    BY <1>1, <2>2, HoldStays DEF Heartbeat, client
  <2> QED
    BY <2>1, <2>2
<1>4. PICK f \in End, k \in Packet :
          wire' = [wire EXCEPT ![f] = Append(@, k)] /\ k.t = "post"
  <2>1. PICK f \in End, id \in {"msgPost", "heartbeat"},
             o \in Opaque \cup {0} :
            Send(f, "post", id, o, "txpost")
    <3>1. pStrms # <<>> => Head(pStrms) \in Opaque
      BY DEF Types
    <3> QED
      BY <3>1 DEF sendpost, Heartbeat, End
  <2>2. [t |-> "post", id |-> id, o |-> o] \in Packet
    BY NewPacket
  <2> QED
    BY <2>1, <2>2 DEF Send
<1>5. \A o : Silent(o, "client") /\ Silent(o, "server")
  <2>1. /\ \A o : Silent(o, f)
        /\ \A o, g : g \in End /\ g # f => Silent(o, g)
    BY <1>4, SendView
  <2> QED
    BY <2>1 DEF End
<1>6. ASSUME NEW o \in Opaque PROVE Good(View(o)', Endless)
  <2>1. Idle(o)
    BY <1>1, <1>2, <1>3 DEF Idle, Snd
  <2> QED
    BY <1>5, <2>1, SameView
<1> QED
    BY <1>1, <1>2, <1>6, StreamsNext

\* getlocalstream() takes a free stream.
LEMMA OpenFree ==
    ASSUME Types, Streams, NEW w \in Worker, NEW pc \in Pc,
           NEW left \in 0..options.stream, Open(w, pc, left)
    PROVE  /\ Head(pStrms) \in Opaque /\ Free(View(Head(pStrms)), Endless)
           /\ \A x \in Worker : ~Holds(x, Head(pStrms))
           /\ IsInjective(pStrms') /\ Head(pStrms) \notin ToSet(pStrms')
           /\ ToSet(pStrms) = {Head(pStrms)} \cup ToSet(pStrms')
<1> DEFINE h == Head(pStrms)
<1>1. pStrms \in Seq(Opaque) /\ IsInjective(pStrms) /\ pStrms # <<>>
      /\ pStrms' = Tail(pStrms) /\ h \in Opaque
    BY OpenType DEF Types, Streams
<1>2. /\ IsInjective(pStrms') /\ h \notin ToSet(pStrms')
      /\ ToSet(pStrms) = {h} \cup ToSet(pStrms')
    BY <1>1, TailSet
<1> HIDE DEF h
<1>3. Good(View(h), Endless) /\ View(h).pool
    BY <1>1, <1>2, ViewIs DEF Streams
<1>4. Free(View(h), Endless)
    BY <1>3 DEF Good, Asked, Back, Streamed, Received
<1>5. Hold(h) = {}
    BY <1>4, ViewIs DEF Free
<1>6. \A x \in Worker : ~Holds(x, h)
    BY <1>5, HoldIn
<1> QED
    BY <1>1, <1>2, <1>4, <1>6 DEF h

\* The views of the other streams, when one is opened.
LEMMA OpenOthers ==
    ASSUME Types, Streams, NEW w \in Worker, NEW pc \in Pc,
           NEW left \in 0..options.stream, Open(w, pc, left),
           wk[w].pc \notin HoldPc, donech' = donech, returning' = returning,
           senders' = senders, Worker' = Worker,
           NEW o \in Opaque, o # Head(pStrms)
    PROVE  Idle(o)
<1> DEFINE h == Head(pStrms)
<1>1. /\ rxcallb'[o] = rxcallb[o]
      /\ live'["server"] = live["server"]
      /\ live'["client"] = live["client"] \cup {h}
      /\ wk'[w].o = h
      /\ \A u \in Worker : u # w => wk'[u] = wk[u]
    BY OpenType
<1>2. ToSet(pStrms) = {h} \cup ToSet(pStrms')
    BY OpenFree
<1>3. o # h
    OBVIOUS
<1> HIDE DEF h
<1>4. ~Holds(w, o) /\ ~Holds(w, o)'
    BY <1>1, <1>3 DEF Holds
<1>5. Hold(o)' = Hold(o)
    BY <1>1, <1>4, HoldMoves
<1>6. Snd(o)' = Snd(o)
    BY DEF Snd
<1> QED
    BY <1>1, <1>2, <1>3, <1>5, <1>6 DEF Idle

\* Request() and Transport.Stream().
LEMMA OpenStreams ==
    ASSUME Types, Flow, Streams, NEW w \in Worker, sendreq(w) \/ doStream(w)
    PROVE  Streams'
<1>0. PICK h \in Opaque : h = Head(pStrms)
  <2>1. pStrms \in Seq(Opaque) /\ pStrms # <<>>
    BY DEF Types, sendreq, doStream, Open
  <2> QED
    BY <2>1
<1>1. /\ options' = options /\ options \in Options
      /\ donech' = donech /\ returning' = returning /\ senders' = senders
      /\ wk[w].pc \in {"sendreq", "whoami", "sendstream", "rcvstream"}
    BY DEF sendreq, doStream, base, Types
<1>2. Worker' = Worker /\ 0 \in 0..options.stream
      /\ options.stream \in 0..options.stream
    BY <1>1, OptionType DEF Worker
<1>3. PICK pc \in Pc, left \in 0..options.stream, t \in {"0x81", "start"},
           id \in {"whoami", "msgReqsp", "msgStreamRx", "msgStreamTx"},
           c \in {"txreq", "txstart"} :
          /\ Open(w, pc, left) /\ Send("client", t, id, h, c)
          /\ IF t = "0x81" THEN pc \in {"wait", "bye"}
             ELSE pc = IF Endless THEN "rcv" ELSE "streaming"
  <2>1. wk[w].pc \in Pcs
    BY DEF Flow
  <2>2. /\ wk[w].pc = "sendstream" => ~Endless
        /\ wk[w].pc = "rcvstream" => Endless
    BY <2>1 DEF Pcs, Perfs, Endless
  <2>3. CASE sendreq(w)
    BY <1>0, <1>2, <2>3 DEF sendreq, Pc
  <2>4. CASE doStream(w)
    BY <1>0, <1>2, <2>2, <2>4 DEF doStream, Pc
  <2> QED
    BY <2>3, <2>4
<1>4. /\ h \in Opaque /\ rxcallb'[h] = w
      /\ live'["server"] = live["server"]
      /\ live'["client"] = live["client"] \cup {h}
      /\ wk'[w].pc = pc /\ wk'[w].o = h
      /\ \A u \in Worker : u # w => wk'[u] = wk[u]
    BY <1>0, <1>3, OpenType
<1>5. /\ Free(View(h), Endless) /\ \A x \in Worker : ~Holds(x, h)
      /\ IsInjective(pStrms') /\ h \notin ToSet(pStrms')
    BY <1>0, <1>3, OpenFree
<1> DEFINE k == [t |-> t, id |-> id, o |-> h]
<1>6. k \in Packet
    BY <1>4 DEF Packet
<1>7. wire' = [wire EXCEPT !["client"] = Append(@, k)] /\ "client" \in End
      /\ "server" \in End
    BY <1>3 DEF Send, End
<1>8. /\ k \in Message
      /\ \A o : k.o # o => Silent(o, "client")
      /\ \A o : Silent(o, "server")
      /\ k.t # "post" => Keep(OnStream(k.o), wire'["client"])
                             = Append(Keep(OnStream(k.o), wire["client"]), k)
  <2> HIDE DEF k
  <2> QED
    BY <1>6, <1>7, SendView
<1>9. k.o = h /\ k.t = t
    OBVIOUS
<1>10. ASSUME NEW o \in Opaque, o # h PROVE Good(View(o)', Endless)
  <2>1. Idle(o)
    <3>1. wk[w].pc \notin HoldPc
      BY <1>1 DEF HoldPc
    <3> QED
      BY <1>0, <1>1, <1>2, <1>3, <1>10, <3>1, OpenOthers
  <2> QED
    BY <1>8, <1>9, <1>10, <2>1, SameView
<1> HIDE DEF k
<1>11. Good(View(h)', Endless)
  <2> DEFINE v == View(h)
             u == View(h)'
  <2>1. /\ v.c \in Seq(Message) /\ Free(v, Endless) /\ Endless \in BOOLEAN
    BY <1>5, ViewSeqs, EndlessType
  <2>2. /\ u.c = Append(v.c, k) /\ u.s = v.s /\ u.lc
        /\ u.ls <=> v.ls
        /\ ~u.ret /\ ~u.pool /\ u.snd = v.snd /\ u.cb = w
        /\ u.hold = Hold(h)'
    <3>1. ~v.ret
      BY <1>5 DEF Free
    <3>2. Snd(h)' = Snd(h)
      BY <1>1 DEF Snd
    <3>3. Keep(OnStream(h), wire'["client"])
              = Append(Keep(OnStream(h), wire["client"]), k)
      BY <1>3, <1>8, <1>9
    <3>4. Silent(h, "server")
      BY <1>8
    <3> QED
      BY <1>1, <1>4, <1>5, <3>1, <3>2, <3>3, <3>4, ViewIs, ViewNext
      DEF Silent
  <2>3. ASSUME NEW x \in Worker, Holds(x, h)' PROVE x = w
    BY <1>4, <1>5, <2>3 DEF Holds
  <2>4. CASE t = "0x81"
    <3>1. Holds(w, h)' /\ pc \in {"wait", "bye"}
      BY <1>3, <1>4, <2>4 DEF Holds, HoldPc
    <3>2. Hold(h)' = {Holder(w)'}
      BY <1>2, <2>3, <3>1, HoldOneNext
    <3>3. w \notin donech'
      BY <1>1 DEF Flow
    <3>4. Holder(w)'.pc = pc /\ Holder(w)'.w = w /\ ~Holder(w)'.told
      BY <1>4, <3>3, HolderIs
    <3> HIDE DEF v, u
    <3> QED
      BY <1>8, <1>9, <2>1, <2>2, <2>4, <3>1, <3>2, <3>4, AskView DEF v, u
  <2>5. CASE t = "start"
    <3>1. IF Endless THEN Hold(h)' = {}
          ELSE Hold(h)' = {Holder(w)'} /\ Holder(w)'.pc = "streaming"
      <4>1. CASE Endless
        <5>1. pc = "rcv"
          BY <1>3, <2>5, <4>1
        <5>2. \A x \in Worker : ~Holds(x, h)'
          BY <1>4, <2>3, <5>1 DEF Holds, HoldPc
        <5> QED
          BY <1>2, <4>1, <5>2, HoldNoneNext
      <4>2. CASE ~Endless
        <5>1. pc = "streaming"
          BY <1>3, <2>5, <4>2
        <5>2. Holds(w, h)' /\ Holder(w)'.pc = "streaming"
          BY <1>4, <5>1, HolderIs DEF Holds, HoldPc
        <5> QED
          BY <1>2, <2>3, <4>2, <5>2, HoldOneNext
      <4> QED
        BY <4>1, <4>2
    <3> HIDE DEF v, u
    <3> QED
      BY <1>8, <1>9, <2>1, <2>2, <2>5, <3>1, OpenView DEF v, u
  <2> QED
    BY <2>4, <2>5
<1> QED
    BY <1>1, <1>5, <1>10, <1>11, StreamsNext

\* A stream that somebody has is nobody else's.
LEMMA HoldUnique ==
    ASSUME Streams, NEW w \in Worker, NEW o \in Opaque, Holds(w, o)
    PROVE  /\ Holder(w) \in View(o).hold /\ View(o).hold = {Holder(w)}
           /\ \A x \in Worker : Holds(x, o) => x = w
<1>1. Holder(w) \in View(o).hold
    BY HoldIn, ViewIs
<1>2. Good(View(o), Endless)
    BY DEF Streams
<1>3. PICK h : View(o).hold = {h}
    BY <1>1, <1>2 DEF Good, Free, Asked, Back, Streamed, Received
<1>4. View(o).hold = {Holder(w)}
    BY <1>1, <1>3
<1>5. ASSUME NEW x \in Worker, Holds(x, o) PROVE x = w
  <2>1. Holder(x) \in View(o).hold
    BY <1>5, HoldIn, ViewIs
  <2>2. Holder(x) = Holder(w)
    BY <1>4, <2>1
  <2> QED
    BY <2>2, HolderIs
<1> QED
    BY <1>1, <1>4, <1>5

\* Request() is over.
LEMMA RequestedStreams ==
    ASSUME Types, Flow, Streams, NEW w \in Worker, Requested(w)
    PROVE  Streams'
<1>1. /\ options' = options /\ UNCHANGED <<wire, pStrms, live, senders>>
      /\ wk[w].pc \in {"wait", "bye"} /\ w \in donech
      /\ donech' = donech \ {w}
      /\ rxcallb' = [rxcallb EXCEPT ![wk[w].o] = NoWorker]
      /\ returning' = returning \cup {wk[w].o}
    BY DEF Requested, base
<1>2. Worker' = Worker
    BY <1>1 DEF Worker
<1>3. PICK h \in Opaque : h = wk[w].o
    BY <1>1 DEF Flow, HoldPc
<1>4. PICK pc \in Pc : Goto(w, pc) /\ pc \notin HoldPc
    BY DEF Requested, Pc, HoldPc
<1>5. /\ wk'[w].pc = pc
      /\ \A u \in Worker : u # w => wk'[u] = wk[u]
    BY <1>4, GotoType
<1>6. Holds(w, h)
    BY <1>1, <1>3 DEF Holds, HoldPc
<1>7. /\ Holder(w) \in View(h).hold
      /\ \A x \in Worker : Holds(x, h) => x = w
    BY <1>6, HoldUnique
<1>8. ASSUME NEW o \in Opaque, o # h PROVE Good(View(o)', Endless)
  <2>1. ASSUME NEW x \in Worker
        PROVE  /\ Holds(x, o)' <=> Holds(x, o)
               /\ Holds(x, o) => Holder(x)' = Holder(x)
    <3>1. CASE x = w
      BY <1>3, <1>4, <1>5, <1>8, <3>1 DEF Holds
    <3>2. CASE x # w
      <4>1. wk'[x] = wk[x] /\ (x \in donech' <=> x \in donech)
        BY <1>1, <1>5, <3>2
      <4> QED
        BY <4>1 DEF Holds, Holder
    <3> QED
      BY <3>1, <3>2
  <2>2. Hold(o)' = Hold(o)
    BY <1>2, <2>1, HoldSame
  <2>3. rxcallb'[o] = rxcallb[o]
    BY <1>1, <1>3, <1>8 DEF Types
  <2>4. Idle(o) /\ Silent(o, "client") /\ Silent(o, "server")
    BY <1>1, <1>3, <1>8, <2>2, <2>3 DEF Idle, Silent, Snd
  <2> QED
    BY <2>4, SameView
<1>9. Good(View(h)', Endless)
  <2> DEFINE v == View(h)
             u == View(h)'
             g == Holder(w)
  <2>1. Good(v, Endless) /\ Endless \in BOOLEAN
    BY EndlessType DEF Streams
  <2>2. \A x \in Worker : ~Holds(x, h)'
    BY <1>4, <1>5, <1>7 DEF Holds
  <2>3. Hold(h)' = {}
    BY <1>2, <2>2, HoldNoneNext
  <2>4. /\ u.c = v.c /\ u.s = v.s
        /\ u.lc <=> v.lc
        /\ u.ls <=> v.ls
        /\ u.ret
        /\ u.pool <=> v.pool
        /\ u.snd = v.snd /\ u.hold = {}
    <3>1. Snd(h)' = Snd(h)
      BY <1>1 DEF Snd
    <3> QED
      BY <1>1, <1>3, <2>3, <3>1, ViewIs, ViewNext
  <2>5. g \in v.hold /\ g.pc \in {"wait", "bye"} /\ g.told
    BY <1>1, <1>7, HolderIs
  <2> HIDE DEF v, u, g
  <2> QED
    BY <2>1, <2>4, <2>5, OverView DEF u
<1>10. IsInjective(pStrms')
    BY <1>1 DEF Streams
<1> QED
    BY <1>1, <1>8, <1>9, <1>10, StreamsNext

\* A message of doStreamTx(), or its finish.
LEMMA StreamTxStreams ==
    ASSUME Types, Flow, Streams, NEW w \in Worker, doStreamTx(w)
    PROVE  Streams'
<1>1. /\ options' = options /\ donech' = donech
      /\ UNCHANGED <<pStrms, live, returning, rxcallb, senders>>
      /\ wk[w].pc = "streaming"
    BY DEF doStreamTx, base, strms
<1>2. Worker' = Worker
    BY <1>1 DEF Worker
<1>3. PICK h \in Opaque : h = wk[w].o
    BY <1>1 DEF Flow, HoldPc
<1>4. /\ \A u \in Worker : u # w => wk'[u] = wk[u]
      /\ \/ /\ Send("client", "stream", "msgStreamRx", h, "txstream")
            /\ wk'[w].pc = "streaming" /\ wk'[w].o = h
         \/ /\ Send("client", "finish", Nothing, h, "txfin")
            /\ wk'[w].pc = "range"
  <2>1. CASE /\ Send("client", "finish", Nothing, wk[w].o, "txfin")
             /\ Goto(w, "range")
    <3>1. "range" \in Pc
      BY DEF Pc
    <3>2. /\ wk'[w].pc = "range"
          /\ \A u \in Worker : u # w => wk'[u] = wk[u]
      BY <2>1, <3>1, GotoType
    <3> QED
      BY <1>3, <2>1, <3>2
  <2>2. CASE /\ Send("client", "stream", "msgStreamRx", wk[w].o, "txstream")
             /\ wk' = [wk EXCEPT ![w].left = @ - 1]
    <3>1. /\ wk'[w].pc = wk[w].pc /\ wk'[w].o = wk[w].o
          /\ \A u \in Worker : u # w => wk'[u] = wk[u]
      BY <2>2 DEF Types, Routine
    <3> QED
      BY <1>1, <1>3, <2>2, <3>1
  <2> QED
    BY <2>1, <2>2 DEF doStreamTx
<1>5. Holds(w, h)
    BY <1>1, <1>3 DEF Holds, HoldPc
<1>6. /\ Holder(w) \in View(h).hold
      /\ \A x \in Worker : Holds(x, h) => x = w
    BY <1>5, HoldUnique
<1>7. PICK k \in Packet :
          /\ wire' = [wire EXCEPT !["client"] = Append(@, k)]
          /\ k.o = h
          /\ \/ k.t = "stream" /\ wk'[w].pc = "streaming" /\ wk'[w].o = h
             \/ k.t = "finish" /\ wk'[w].pc = "range"
  <2>1. /\ [t |-> "stream", id |-> "msgStreamRx", o |-> h] \in Packet
        /\ [t |-> "finish", id |-> Nothing, o |-> h] \in Packet
    BY DEF Packet
  <2> QED
    BY <1>4, <2>1 DEF Send
<1>8. "client" \in End /\ "server" \in End
    BY DEF End
<1>9. /\ k \in Message
      /\ \A o : k.o # o => Silent(o, "client")
      /\ \A o : Silent(o, "server")
      /\ Keep(OnStream(k.o), wire'["client"])
             = Append(Keep(OnStream(k.o), wire["client"]), k)
    BY <1>7, <1>8, SendView
<1>10. ASSUME NEW o \in Opaque, o # h PROVE Good(View(o)', Endless)
  <2>1. ~Holds(w, o) /\ ~Holds(w, o)'
    BY <1>3, <1>7, <1>10 DEF Holds, HoldPc
  <2>2. Hold(o)' = Hold(o)
    BY <1>1, <1>2, <1>4, <2>1, HoldMoves
  <2>3. Idle(o)
    BY <1>1, <2>2 DEF Idle, Snd
  <2> QED
    BY <1>7, <1>9, <1>10, <2>3, SameView
<1>11. Good(View(h)', Endless)
  <2> DEFINE v == View(h)
             u == View(h)'
             g == Holder(w)
             f == Holder(w)'
  <2>1. /\ Good(v, Endless) /\ Endless \in BOOLEAN
        /\ v.c \in Seq(Message)
    BY EndlessType, ViewSeqs DEF Streams
  <2>2. \A x \in Worker : Holds(x, h)' => x = w
    BY <1>4, <1>6 DEF Holds
  <2>3. \/ k.t = "stream" /\ Hold(h)' = {f} /\ f.pc = "streaming"
        \/ k.t = "finish" /\ Hold(h)' = {}
    <3>1. CASE k.t = "stream" /\ wk'[w].pc = "streaming" /\ wk'[w].o = h
      <4>1. Holds(w, h)'
        BY <3>1 DEF Holds, HoldPc
      <4> QED
        BY <1>2, <2>2, <3>1, <4>1, HoldOneNext, HolderIs
    <3>2. CASE k.t = "finish" /\ wk'[w].pc = "range"
      <4>1. \A x \in Worker : ~Holds(x, h)'
        BY <2>2, <3>2 DEF Holds, HoldPc
      <4> QED
        BY <1>2, <3>2, <4>1, HoldNoneNext
    <3> QED
      BY <1>7, <3>1, <3>2
  <2>4. /\ u.c = Append(v.c, k) /\ u.s = v.s
        /\ u.lc <=> v.lc
        /\ u.ls <=> v.ls
        /\ u.ret <=> v.ret
        /\ u.pool <=> v.pool
        /\ u.snd = v.snd /\ u.hold = Hold(h)'
    <3>1. Snd(h)' = Snd(h)
      BY <1>1 DEF Snd
    <3>2. /\ Silent(h, "server")
          /\ Keep(OnStream(h), wire'["client"])
                 = Append(Keep(OnStream(h), wire["client"]), k)
      BY <1>7, <1>9
    <3> QED
      BY <1>1, <3>1, <3>2, ViewIs, ViewNext DEF Silent
  <2>5. g \in v.hold /\ g.pc = "streaming"
    BY <1>1, <1>6, HolderIs
  <2> HIDE DEF v, u, g, f
  <2> QED
    BY <1>9, <2>1, <2>3, <2>4, <2>5, StreamView DEF u
<1>12. IsInjective(pStrms')
    BY <1>1 DEF Streams
<1> QED
    BY <1>1, <1>10, <1>11, <1>12, StreamsNext

\* syncRx() of e takes packet k from the other end and changes nothing else.
LEMMA TakeStreams ==
    ASSUME Types, Streams, NEW e \in End, NEW f \in End, e # f, NEW k,
           wire[f] # <<>>, k = Head(wire[f]),
           wire' = [wire EXCEPT ![f] = Tail(@)], UNCHANGED <<client, donech>>,
           UNCHANGED <<pStrms, rxcallb, returning, live, senders>>,
           ASSUME k.t # "post", k.o \in Opaque
           PROVE  Good(View(k.o)', Endless)
    PROVE  Streams'
<1>1. /\ options' = options /\ wk' = wk /\ donech' = donech
    BY DEF client, base
<1>2. /\ \A o : k.o # o \/ k.t = "post" => Silent(o, f)
      /\ \A o : Silent(o, e)
    BY TakeView
<1>3. \A o : Hold(o)' = Hold(o)
    BY <1>1, HoldStays
<1>4. ASSUME NEW o \in Opaque PROVE Good(View(o)', Endless)
  <2>1. CASE o = k.o /\ k.t # "post"
    BY <2>1
  <2>2. CASE o # k.o \/ k.t = "post"
    <3>1. Silent(o, "client") /\ Silent(o, "server")
      BY <1>2, <2>2 DEF End
    <3>2. Idle(o)
      BY <1>3 DEF Idle, Snd
    <3> QED
      BY <3>1, <3>2, SameView
  <2> QED
    BY <2>1, <2>2
<1>5. IsInjective(pStrms')
    BY DEF Streams
<1> QED
    BY <1>1, <1>4, <1>5, StreamsNext

\* The view of the stream of that packet.
LEMMA TakeParts ==
    ASSUME Types, Streams, NEW e \in End, wire[e] # <<>>, NEW k,
           k = Head(wire[e]), k.t # "post", k.o \in Opaque,
           wire' = [wire EXCEPT ![e] = Tail(@)], UNCHANGED <<client, donech>>,
           UNCHANGED <<pStrms, rxcallb, returning, live, senders>>
    PROVE  LET v == View(k.o)
               u == View(k.o)'
           IN  /\ Good(v, Endless) /\ Endless \in BOOLEAN /\ k \in Message
               /\ Alike(v, u) /\ u.snd = v.snd
               /\ u.ls <=> v.ls
               /\ IF e = "client"
                  THEN v.c = <<k>> \o u.c /\ u.c \in Seq(Message) /\ u.s = v.s
                  ELSE v.s = <<k>> \o u.s /\ u.s \in Seq(Message) /\ u.c = v.c
<1>1. PICK o \in Opaque : o = k.o
    OBVIOUS
<1>2. /\ options' = options /\ wk' = wk /\ donech' = donech
    BY DEF client, base
<1>3. /\ k \in Message
      /\ \A f \in End : f # e => Silent(o, f)
      /\ Keep(OnStream(o), wire'[e]) \in Seq(Message)
      /\ Keep(OnStream(o), wire[e]) = <<k>> \o Keep(OnStream(o), wire'[e])
    BY <1>1, TakeView
<1>4. Hold(o)' = Hold(o) /\ Snd(o)' = Snd(o)
    BY <1>2, HoldStays DEF Snd
<1> DEFINE v == View(o)
           u == View(o)'
<1>5. /\ Alike(v, u) /\ u.snd = v.snd
      /\ u.ls <=> v.ls
    BY <1>4, ViewIs, ViewNext DEF Alike
<1>6. CASE e = "client"
  <2>1. v.c = <<k>> \o u.c /\ u.c \in Seq(Message) /\ u.s = v.s
    BY <1>3, <1>6, ViewIs, ViewNext DEF Silent, End
  <2> QED
    BY <1>1, <1>3, <1>5, <1>6, <2>1, EndlessType DEF Streams
<1>7. CASE e = "server"
  <2>1. v.s = <<k>> \o u.s /\ u.s \in Seq(Message) /\ u.c = v.c
    BY <1>3, <1>7, ViewIs, ViewNext DEF Silent, End
  <2> QED
    BY <1>1, <1>3, <1>5, <1>7, <2>1, EndlessType DEF Streams
<1> QED
    BY <1>6, <1>7 DEF End

\* The handlers that change nothing but take their packet.
LEMMA QuietHandlers ==
    ASSUME Types, Packets, Streams, NEW e \in End,
           handlePost(e) \/ handleStream(e) \/ handleDuplicate
    PROVE  Streams'
<1>1. /\ UNCHANGED <<client, donech>>
      /\ UNCHANGED <<pStrms, rxcallb, returning, live, senders>>
    BY DEF handlePost, handleStream, handleDuplicate, strms
<1>2. CASE handlePost(e)
  <2>1. PICK f \in End : f = Other(e) /\ f # e
    BY DEF Other, End
  <2>2. PICK k : k = Head(wire[f])
    OBVIOUS
  <2>3. /\ wire[f] # <<>> /\ k.t = "post"
        /\ wire' = [wire EXCEPT ![f] = Tail(@)]
    BY <1>2, <2>1, <2>2 DEF handlePost, Takes, Taken
  <2> QED
    BY <1>1, <2>1, <2>2, <2>3, TakeStreams
<1>3. CASE handleStream(e)
  <2>1. PICK f \in End : f = Other(e) /\ f # e
    BY DEF Other, End
  <2>2. PICK k : k = Head(wire[f])
    OBVIOUS
  <2>3. /\ wire[f] # <<>> /\ k.t = "stream"
        /\ wire' = [wire EXCEPT ![f] = Tail(@)]
    BY <1>3, <2>1, <2>2 DEF handleStream, Takes, Taken
  <2>4. ASSUME k.t # "post", k.o \in Opaque PROVE Good(View(k.o)', Endless)
    <3> DEFINE v == View(k.o)
               u == View(k.o)'
    <3>1. /\ Good(v, Endless) /\ Endless \in BOOLEAN /\ k \in Message
          /\ Alike(v, u) /\ u.snd = v.snd
          /\ u.ls <=> v.ls
          /\ IF f = "client"
             THEN v.c = <<k>> \o u.c /\ u.c \in Seq(Message) /\ u.s = v.s
             ELSE v.s = <<k>> \o u.s /\ u.s \in Seq(Message) /\ u.c = v.c
      BY <1>1, <2>2, <2>3, <2>4, TakeParts
    <3> HIDE DEF v, u
    <3>2. CASE f = "client"
      BY <2>3, <3>1, <3>2, MessageView DEF u
    <3>3. CASE f # "client"
      BY <2>3, <3>1, <3>3, ReceivedView DEF u
    <3> QED
      BY <3>2, <3>3
  <2> QED
    BY <1>1, <2>1, <2>2, <2>3, <2>4, TakeStreams
<1>4. CASE handleDuplicate
  <2>1. "client" \in End /\ "server" \in End /\ Other("server") = "client"
    BY DEF Other, End
  <2>2. PICK k : k = Head(wire["client"])
    OBVIOUS
  <2>3. /\ wire["client"] # <<>> /\ k.t \in {"post", "0x81", "start"}
        /\ wire' = [wire EXCEPT !["client"] = Tail(@)]
        /\ k.o \in live["server"]
    BY <1>4, <2>1, <2>2 DEF handleDuplicate, Takes, Taken
  <2>4. ASSUME k.t # "post", k.o \in Opaque PROVE Good(View(k.o)', Endless)
    <3> DEFINE v == View(k.o)
               u == View(k.o)'
    <3>1. /\ Good(v, Endless) /\ Endless \in BOOLEAN /\ k \in Message
          /\ Alike(v, u) /\ u.snd = v.snd
          /\ u.ls <=> v.ls
          /\ v.c = <<k>> \o u.c /\ u.c \in Seq(Message) /\ u.s = v.s
      BY <1>1, <2>1, <2>2, <2>3, <2>4, TakeParts
    <3>2. v.ls
      BY <2>3, ViewIs
    <3> HIDE DEF v, u
    <3> QED
      BY <2>3, <2>4, <3>1, <3>2, DuplicateView DEF u
  <2> QED
    BY <1>1, <2>1, <2>2, <2>3, <2>4, TakeStreams
<1> QED
    BY <1>2, <1>3, <1>4

\* What the server takes.
LEMMA ServerTakes ==
    ASSUME Types, Packets, NEW j, Takes("server", Head(wire["client"]), j)
    PROVE  /\ wire["client"] # <<>> /\ "client" \in End /\ "server" \in End
           /\ Head(wire["client"]) \in Packet
           /\ Head(wire["client"]) \in FromClient
           /\ Head(wire["client"]).o \in Opaque
           /\ Taken("server") = [wire EXCEPT !["client"] = Tail(@)]
<1>1. "client" \in End /\ "server" \in End /\ Other("server") = "client"
    BY DEF End, Other
<1>2. wire["client"] # <<>>
    BY <1>1 DEF Takes
<1> QED
    BY <1>1, <1>2, NextPacket DEF Taken

\* What the client takes.
LEMMA ClientTakes ==
    ASSUME Types, Packets, NEW j, Takes("client", Head(wire["server"]), j)
    PROVE  /\ wire["server"] # <<>> /\ "client" \in End /\ "server" \in End
           /\ Head(wire["server"]) \in Packet
           /\ Head(wire["server"]) \in FromServer
           /\ Head(wire["server"]).t # "post"
                  => Head(wire["server"]).o \in Opaque
           /\ Taken("client") = [wire EXCEPT !["server"] = Tail(@)]
<1>1. /\ "client" \in End /\ "server" \in End /\ Other("client") = "server"
      /\ "server" # "client"
    BY DEF End, Other
<1>2. wire["server"] # <<>>
    BY <1>1 DEF Takes
<1> QED
    BY <1>1, <1>2, NextPacket DEF Taken

\* handleRequest: the server responds.
LEMMA RequestStreams ==
    ASSUME Types, Packets, Streams, handleRequest
    PROVE  Streams'
<1>1. /\ options' = options /\ wk' = wk /\ donech' = donech
      /\ UNCHANGED <<pStrms, rxcallb, returning, live, senders>>
    BY DEF handleRequest, client, base, strms
<1>2. PICK k : k = Head(wire["client"])
    OBVIOUS
<1>3. /\ wire["client"] # <<>> /\ k \in Packet /\ k.o \in Opaque
      /\ k.t = "0x81" /\ Answers("0x81", k.id, k.o, "txresp")
    BY <1>2, ServerTakes DEF handleRequest
<1>4. PICK q : q = [t |-> "0x81", id |-> k.id, o |-> k.o]
    OBVIOUS
<1>5. q \in Packet /\ q.t = "0x81" /\ q.o = k.o
    BY <1>3, <1>4 DEF Packet
<1>6. wire' = [Taken("server") EXCEPT !["server"] = Append(@, q)]
    BY <1>3, <1>4 DEF Answers
<1>7. PICK o \in Opaque : o = k.o
    BY <1>3
<1>8. /\ k \in Message /\ q \in Message
      /\ \A x : x # o => Silent(x, "client") /\ Silent(x, "server")
      /\ Keep(OnStream(o), wire'["client"]) \in Seq(Message)
      /\ Keep(OnStream(o), wire["client"])
             = <<k>> \o Keep(OnStream(o), wire'["client"])
      /\ Keep(OnStream(o), wire'["server"])
             = Append(Keep(OnStream(o), wire["server"]), q)
  <2>1. q.o = Head(wire["client"]).o /\ Head(wire["client"]).t # "post"
        /\ q.t # "post"
    BY <1>2, <1>3, <1>5
  <2> QED
    BY <1>2, <1>3, <1>5, <1>6, <1>7, <2>1, AnswerView
<1>9. \A x : Hold(x)' = Hold(x) /\ Snd(x)' = Snd(x)
    BY <1>1, HoldStays DEF Snd
<1>10. ASSUME NEW x \in Opaque, x # o PROVE Good(View(x)', Endless)
  <2>1. Idle(x)
    BY <1>1, <1>9 DEF Idle
  <2> QED
    BY <1>8, <1>10, <2>1, SameView
<1>11. Good(View(o)', Endless)
  <2> DEFINE v == View(o)
             u == View(o)'
  <2>1. /\ Good(v, Endless) /\ Endless \in BOOLEAN /\ v.s \in Seq(Message)
    BY EndlessType, ViewSeqs DEF Streams
  <2>2. /\ u.c \in Seq(Message) /\ v.c = <<k>> \o u.c
        /\ u.s = Append(v.s, q) /\ Alike(v, u) /\ u.snd = v.snd
        /\ u.ls <=> v.ls
    BY <1>1, <1>8, <1>9, ViewIs, ViewNext DEF Alike
  <2> HIDE DEF v, u
  <2> QED
    BY <1>3, <1>5, <1>8, <2>1, <2>2, RequestView DEF u
<1>12. IsInjective(pStrms')
    BY <1>1 DEF Streams
<1> QED
    BY <1>1, <1>10, <1>11, <1>12, StreamsNext

\* handleStart: the server has a stream, and a routine that streams or none.
LEMMA StartStreams ==
    ASSUME Types, Packets, Streams, handleStart
    PROVE  Streams'
<1>1. /\ options' = options /\ wk' = wk /\ donech' = donech
      /\ UNCHANGED <<pStrms, rxcallb, returning>>
    BY DEF handleStart, client, base
<1>2. PICK k : k = Head(wire["client"])
    OBVIOUS
<1>3. /\ wire["client"] # <<>> /\ k \in Packet /\ k.o \in Opaque
      /\ k \in FromClient /\ k.t = "start" /\ "client" \in End
      /\ "server" \in End /\ k.o \notin live["server"]
      /\ wire' = [wire EXCEPT !["client"] = Tail(@)]
      /\ live' = [live EXCEPT !["server"] = @ \cup {k.o}]
      /\ senders' = IF k.id = "msgStreamRx" THEN senders
                    ELSE senders \cup {[o |-> k.o, left |-> options.stream]}
    BY <1>2, ServerTakes DEF handleStart
<1>4. k.id = IF Endless THEN "msgStreamTx" ELSE "msgStreamRx"
    BY <1>3 DEF FromClient
<1>5. PICK o \in Opaque : o = k.o
    BY <1>3
<1>6. PICK y : y = [o |-> o, left |-> options.stream]
    OBVIOUS
<1>7. /\ senders' = IF Endless THEN senders \cup {y} ELSE senders
      /\ y.o = o
    BY <1>3, <1>4, <1>5, <1>6
<1>8. /\ live'["client"] = live["client"]
      /\ live'["server"] = live["server"] \cup {o}
    BY <1>3, <1>5 DEF Types
<1>9. /\ k \in Message
      /\ \A x : x # o => Silent(x, "client")
      /\ \A x : Silent(x, "server")
      /\ Keep(OnStream(o), wire'["client"]) \in Seq(Message)
      /\ Keep(OnStream(o), wire["client"])
             = <<k>> \o Keep(OnStream(o), wire'["client"])
    BY <1>2, <1>3, <1>5, TakeView
<1>10. \A x : Hold(x)' = Hold(x)
    BY <1>1, HoldStays
<1>11. ASSUME NEW x \in Opaque, x # o PROVE Good(View(x)', Endless)
  <2>1. Snd(x)' = Snd(x)
    BY <1>7, <1>11 DEF Snd
  <2>2. Idle(x)
    BY <1>1, <1>8, <1>10, <1>11, <2>1 DEF Idle
  <2> QED
    BY <1>9, <1>11, <2>2, SameView
<1>12. Good(View(o)', Endless)
  <2> DEFINE v == View(o)
             u == View(o)'
  <2>1. Good(v, Endless) /\ Endless \in BOOLEAN
    BY EndlessType DEF Streams
  <2>2. /\ u.c \in Seq(Message) /\ v.c = <<k>> \o u.c
        /\ u.s = v.s /\ Alike(v, u) /\ ~v.ls /\ u.ls
    <3>1. /\ u.c \in Seq(Message) /\ v.c = <<k>> \o u.c
      BY <1>9, ViewIs, ViewNext
    <3>2. u.s = v.s
      BY <1>9, ViewIs, ViewNext DEF Silent
    <3>3. Alike(v, u)
      BY <1>1, <1>8, <1>10, ViewIs, ViewNext DEF Alike
    <3>4. ~v.ls /\ u.ls
      BY <1>3, <1>5, <1>8, ViewIs, ViewNext
    <3> QED
      BY <3>1, <3>2, <3>3, <3>4
  <2>3. IF Endless THEN u.snd = {y} ELSE u.snd = v.snd
    <3>1. CASE Endless
      <4>1. Received(v, Endless) /\ v.snd = {}
        BY <1>3, <1>9, <2>1, <2>2, <3>1, FromClientView DEF Streamed
      <4>2. Snd(o) = {}
        BY <4>1, ViewIs
      <4>3. Snd(o)' = {y}
        BY <1>7, <3>1, <4>2 DEF Snd
      <4> QED
        BY <3>1, <4>3, ViewNext
    <3>2. CASE ~Endless
      <4>1. Snd(o)' = Snd(o)
        BY <1>7, <3>2 DEF Snd
      <4> QED
        BY <3>2, <4>1, ViewIs, ViewNext
    <3> QED
      BY <3>1, <3>2
  <2> HIDE DEF v, u
  <2> QED
    BY <1>3, <1>9, <2>1, <2>2, <2>3, StartView DEF u
<1>13. IsInjective(pStrms')
    BY <1>1 DEF Streams
<1> QED
    BY <1>1, <1>11, <1>12, <1>13, StreamsNext

\* handleFinishServer: the server's side of a stream is closed too.
LEMMA FinishStreams ==
    ASSUME Types, Packets, Streams, handleFinishServer
    PROVE  Streams'
<1>1. /\ options' = options /\ wk' = wk /\ donech' = donech
      /\ UNCHANGED <<pStrms, rxcallb, returning, senders>>
    BY DEF handleFinishServer, client, base
<1>2. PICK k : k = Head(wire["client"])
    OBVIOUS
<1>3. /\ wire["client"] # <<>> /\ k \in Packet /\ k.o \in Opaque
      /\ k.t = "finish" /\ "client" \in End /\ "server" \in End
      /\ live' = [live EXCEPT !["server"] = @ \ {k.o}]
      /\ k.o \in live["server"] => Answers("finish", Nothing, k.o, "txfin")
    BY <1>2, ServerTakes DEF handleFinishServer, Closes
<1>4. PICK o \in Opaque : o = k.o
    BY <1>3
<1>5. PICK q : q = [t |-> "finish", id |-> Nothing, o |-> o]
    OBVIOUS
<1>6. q \in Packet /\ q.t = "finish" /\ q.o = o
    BY <1>5 DEF Packet
<1>7. o \in live["server"]
  <2> DEFINE v == View(o)
             c == Keep(OnStream(o), Tail(wire["client"]))
  <2>1. /\ Good(v, Endless) /\ Endless \in BOOLEAN
        /\ v.c = Keep(OnStream(o), wire["client"])
    BY EndlessType, ViewIs DEF Streams
  <2>2. wire["client"] \in Seq(Message) /\ k \in Message
    BY <1>3, ViewType, PacketMessage DEF Types
  <2>3. k \in OnStream(o)
    BY <1>3, <1>4, <2>2 DEF OnStream
  <2>4. v.c = <<k>> \o c
    BY <1>2, <1>3, <2>1, <2>2, <2>3, KeepHead
  <2>5. Tail(wire["client"]) \in Seq(Message)
    BY <1>3, <2>2
  <2>6. c \in Seq(Message)
    BY <2>5, KeepType
  <2> HIDE DEF v, c
  <2>7. v.ls
    BY <1>3, <2>1, <2>2, <2>4, <2>6, FromClientView
  <2> QED
    BY <2>7, ViewIs DEF v
<1>8. wire' = [Taken("server") EXCEPT !["server"] = Append(@, q)]
    BY <1>3, <1>4, <1>5, <1>7 DEF Answers
<1>9. /\ k \in Message /\ q \in Message
      /\ \A x : x # o => Silent(x, "client") /\ Silent(x, "server")
      /\ Keep(OnStream(o), wire'["client"]) \in Seq(Message)
      /\ Keep(OnStream(o), wire["client"])
             = <<k>> \o Keep(OnStream(o), wire'["client"])
      /\ Keep(OnStream(o), wire'["server"])
             = Append(Keep(OnStream(o), wire["server"]), q)
  <2>1. q.o = Head(wire["client"]).o /\ Head(wire["client"]).t # "post"
        /\ q.t # "post"
    BY <1>2, <1>3, <1>4, <1>6
  <2> QED
    BY <1>2, <1>3, <1>4, <1>6, <1>8, <2>1, AnswerView
<1>10. \A x : Hold(x)' = Hold(x) /\ Snd(x)' = Snd(x)
    BY <1>1, HoldStays DEF Snd
<1>11. /\ live'["client"] = live["client"]
       /\ live'["server"] = live["server"] \ {o}
    BY <1>3, <1>4 DEF Types
<1>12. ASSUME NEW x \in Opaque, x # o PROVE Good(View(x)', Endless)
  <2>1. Idle(x)
    BY <1>1, <1>10, <1>11, <1>12 DEF Idle
  <2> QED
    BY <1>9, <1>12, <2>1, SameView
<1>13. Good(View(o)', Endless)
  <2> DEFINE v == View(o)
             u == View(o)'
  <2>1. /\ Good(v, Endless) /\ Endless \in BOOLEAN /\ v.s \in Seq(Message)
    BY EndlessType, ViewSeqs DEF Streams
  <2>2. /\ u.c \in Seq(Message) /\ v.c = <<k>> \o u.c
        /\ u.s = Append(v.s, q) /\ Alike(v, u) /\ u.snd = v.snd /\ ~u.ls
    BY <1>1, <1>9, <1>10, <1>11, ViewIs, ViewNext DEF Alike
  <2> HIDE DEF v, u
  <2>3. Good(u, Endless)
    <3>1. k \in Message /\ q \in Message /\ k.t = "finish" /\ q.t = "finish"
      BY <1>3, <1>6, <1>9
    <3> QED
      BY <2>1, <2>2, <3>1, FinishView
  <2> QED
    BY <2>3 DEF u
<1>14. IsInjective(pStrms')
    BY <1>1 DEF Streams
<1> QED
    BY <1>1, <1>12, <1>13, <1>14, StreamsNext

\* A routine of the server that streams.
LEMMA SenderStreams ==
    ASSUME Types, Streams, NEW x \in senders, Sender(x)
    PROVE  Streams'
<1>1. /\ options' = options /\ wk' = wk /\ donech' = donech
      /\ UNCHANGED <<pStrms, rxcallb, returning, live>>
    BY DEF Sender, client, base, strms
<1>2. PICK o \in Opaque : o = x.o
    BY DEF Types
<1>3. "client" \in End /\ "server" \in End
    BY DEF End
<1>4. \E y : \E k \in Packet :
          /\ wire' = [wire EXCEPT !["server"] = Append(@, k)]
          /\ k.o = o /\ y.o = o
          /\ \/ k.t = "stream" /\ senders' = (senders \ {x}) \cup {y}
             \/ k.t = "finish" /\ senders' = senders \ {x}
  <2>1. /\ [t |-> "stream", id |-> "msgStreamTx", o |-> o] \in Packet
        /\ [t |-> "finish", id |-> Nothing, o |-> o] \in Packet
    BY DEF Packet
  <2>2. x \in [o : Opaque, left : 0..options.stream]
    BY DEF Types
  <2>3. CASE /\ Send("server", "stream", "msgStreamTx", x.o, "txstream")
             /\ senders' = (senders \ {x}) \cup {[x EXCEPT !.left = @ - 1]}
    <3>1. [x EXCEPT !.left = @ - 1].o = o
      BY <1>2, <2>2
    <3> QED
      BY <1>2, <2>1, <2>3, <3>1 DEF Send
  <2>4. CASE /\ Send("server", "finish", Nothing, x.o, "txfin")
             /\ senders' = senders \ {x}
    BY <1>2, <2>1, <2>4 DEF Send
  <2> QED
    BY <2>3, <2>4 DEF Sender
<1>5. PICK y : \E k \in Packet :
          /\ wire' = [wire EXCEPT !["server"] = Append(@, k)]
          /\ k.o = o /\ y.o = o
          /\ \/ k.t = "stream" /\ senders' = (senders \ {x}) \cup {y}
             \/ k.t = "finish" /\ senders' = senders \ {x}
    BY <1>4
<1>6. PICK k \in Packet :
          /\ wire' = [wire EXCEPT !["server"] = Append(@, k)]
          /\ k.o = o /\ y.o = o
          /\ \/ k.t = "stream" /\ senders' = (senders \ {x}) \cup {y}
             \/ k.t = "finish" /\ senders' = senders \ {x}
    BY <1>5
<1>7. /\ k \in Message
      /\ \A z : z # o => Silent(z, "server")
      /\ \A z : Silent(z, "client")
      /\ Keep(OnStream(o), wire'["server"])
             = Append(Keep(OnStream(o), wire["server"]), k)
    BY <1>3, <1>6, SendView
<1>8. \A z : Hold(z)' = Hold(z)
    BY <1>1, HoldStays
<1>9. ASSUME NEW z \in Opaque, z # o PROVE Good(View(z)', Endless)
  <2>1. Snd(z)' = Snd(z)
    BY <1>2, <1>6, <1>9 DEF Snd
  <2>2. Idle(z)
    BY <1>1, <1>8, <2>1 DEF Idle
  <2> QED
    BY <1>7, <1>9, <2>2, SameView
<1>10. Good(View(o)', Endless)
  <2> DEFINE v == View(o)
             u == View(o)'
  <2>1. /\ Good(v, Endless) /\ Endless \in BOOLEAN /\ v.s \in Seq(Message)
    BY EndlessType, ViewSeqs DEF Streams
  <2>2. /\ u.s = Append(v.s, k) /\ u.c = v.c /\ Alike(v, u)
        /\ u.ls <=> v.ls
    BY <1>1, <1>7, <1>8, ViewIs, ViewNext DEF Alike, Silent
  <2>3. x \in Snd(o) /\ x \in v.snd
    BY <1>2, ViewIs DEF Snd
  <2>4. v.snd = {x}
    BY <2>1, <2>3 DEF Good, Free, Asked, Back, Streamed, Received
  <2>5. Snd(o) = {x}
    BY <2>4, ViewIs
  <2>6. \/ k.t = "stream" /\ u.snd = {y}
        \/ k.t = "finish" /\ u.snd = {}
    <3>1. CASE k.t = "stream" /\ senders' = (senders \ {x}) \cup {y}
      <4>1. Snd(o)' = {y}
        BY <1>6, <2>5, <3>1 DEF Snd
      <4> QED
        BY <3>1, <4>1, ViewNext
    <3>2. CASE k.t = "finish" /\ senders' = senders \ {x}
      <4>1. Snd(o)' = {}
        BY <2>5, <3>2 DEF Snd
      <4> QED
        BY <3>2, <4>1, ViewNext
    <3> QED
      BY <1>6, <3>1, <3>2
  <2> HIDE DEF v, u
  <2>7. v.snd # {} /\ k \in Message
    BY <1>7, <2>4
  <2>8. Good(u, Endless)
    BY <2>1, <2>2, <2>6, <2>7, SenderView
  <2> QED
    BY <2>8 DEF u
<1>11. IsInjective(pStrms')
    BY <1>1 DEF Streams
<1> QED
    BY <1>1, <1>9, <1>10, <1>11, StreamsNext

\* What a response finds: one routine that waits for it.
LEMMA ResponseFinds ==
    ASSUME Types, Packets, Streams, handleResponse
    PROVE  LET o == Head(wire["server"]).o IN
           /\ o \in Opaque /\ rxcallb[o] \in Worker
           /\ wk[rxcallb[o]].pc \in {"wait", "bye"} /\ Holds(rxcallb[o], o)
<1>1. PICK k : k = Head(wire["server"])
    OBVIOUS
<1>2. /\ wire["server"] # <<>> /\ k \in Packet /\ k.t = "0x81"
      /\ k.o \in Opaque /\ "server" \in End
    BY <1>1, ClientTakes DEF handleResponse
<1>3. PICK o \in Opaque : o = k.o
    BY <1>2
<1> DEFINE v == View(o)
           s == Keep(OnStream(o), Tail(wire["server"]))
<1>4. /\ Good(v, Endless) /\ Endless \in BOOLEAN
      /\ v.s = Keep(OnStream(o), wire["server"]) /\ v.hold = Hold(o)
      /\ v.cb = rxcallb[o]
    BY EndlessType, ViewIs DEF Streams
<1>5. wire["server"] \in Seq(Message) /\ k \in Message
    BY <1>2, ViewType, PacketMessage DEF Types
<1>6. k \in OnStream(o)
    BY <1>2, <1>3, <1>5 DEF OnStream
<1>7. v.s = <<k>> \o s
    BY <1>1, <1>2, <1>4, <1>5, <1>6, KeepHead
<1>8. Tail(wire["server"]) \in Seq(Message)
    BY <1>2, <1>5
<1>9. s \in Seq(Message)
    BY <1>8, KeepType
<1> HIDE DEF v, s
<1>10. PICK h \in v.hold : h.pc \in {"wait", "bye"} /\ v.cb = h.w
    BY <1>2, <1>4, <1>5, <1>7, <1>9, ResponseView
<1>11. PICK w \in Worker : h = Holder(w) /\ Holds(w, o)
    BY <1>4, <1>10 DEF Hold, Holds
<1>12. h.w = w /\ h.pc = wk[w].pc
    BY <1>11, HolderIs
<1> QED
    BY <1>1, <1>3, <1>4, <1>10, <1>11, <1>12

\* handleResponse: the routine that waits is told.
LEMMA ResponseStreams ==
    ASSUME Types, Packets, Streams, handleResponse
    PROVE  Streams'
<1>1. /\ options' = options /\ wk' = wk
      /\ UNCHANGED <<pStrms, rxcallb, returning, live, senders>>
    BY DEF handleResponse, client, base, strms
<1>2. PICK k : k = Head(wire["server"])
    OBVIOUS
<1>3. /\ wire["server"] # <<>> /\ k \in Packet /\ k.t = "0x81"
      /\ k.o \in Opaque /\ "server" \in End /\ "client" \in End
      /\ wire' = [wire EXCEPT !["server"] = Tail(@)]
      /\ donech' = donech \cup {rxcallb[k.o]}
    BY <1>2, ClientTakes DEF handleResponse
<1>4. PICK o \in Opaque : o = k.o
    BY <1>3
<1>5. PICK w \in Worker : w = rxcallb[o] /\ Holds(w, o)
    BY <1>2, <1>4, ResponseFinds
<1>6. Worker' = Worker
    BY <1>1 DEF Worker
<1>7. /\ View(o).hold = {Holder(w)}
      /\ \A x \in Worker : Holds(x, o) => x = w
    BY <1>5, HoldUnique
<1>8. /\ k \in Message
      /\ \A x : x # o => Silent(x, "server")
      /\ \A x : Silent(x, "client")
      /\ Keep(OnStream(o), wire'["server"]) \in Seq(Message)
      /\ Keep(OnStream(o), wire["server"])
             = <<k>> \o Keep(OnStream(o), wire'["server"])
    BY <1>2, <1>3, <1>4, TakeView
<1>9. \A x : Snd(x)' = Snd(x)
    BY <1>1 DEF Snd
<1>10. \A x, y : Holds(x, y)' <=> Holds(x, y)
    BY <1>1 DEF Holds
<1>11. ASSUME NEW y \in Opaque, y # o PROVE Good(View(y)', Endless)
  <2>1. ASSUME NEW x \in Worker, Holds(x, y) PROVE Holder(x)' = Holder(x)
    <3>1. x # w
      BY <1>5, <1>11, <2>1 DEF Holds
    <3>2. x \in donech' <=> x \in donech
      BY <1>3, <1>4, <1>5, <3>1
    <3> QED
      BY <1>1, <3>2 DEF Holder
  <2>2. Hold(y)' = Hold(y)
    BY <1>6, <1>10, <2>1, HoldSame
  <2>3. Idle(y)
    BY <1>1, <1>9, <2>2 DEF Idle
  <2> QED
    BY <1>8, <1>11, <2>3, SameView
<1>12. Good(View(o)', Endless)
  <2> DEFINE v == View(o)
             u == View(o)'
             h == Holder(w)
             g == Holder(w)'
  <2>1. Good(v, Endless) /\ Endless \in BOOLEAN
    BY EndlessType DEF Streams
  <2>2. v.s = <<k>> \o u.s /\ u.s \in Seq(Message) /\ u.c = v.c
    BY <1>8, ViewIs, ViewNext DEF Silent
  <2>3. /\ u.snd = v.snd /\ u.cb = v.cb
        /\ u.lc <=> v.lc
        /\ u.ls <=> v.ls
        /\ u.ret <=> v.ret
        /\ u.pool <=> v.pool
    BY <1>1, <1>9, ViewIs, ViewNext
  <2>4. Hold(o)' = {g}
    BY <1>5, <1>6, <1>7, <1>10, HoldOneNext
  <2>5. u.hold = {g} /\ v.hold = {h}
    BY <1>7, <2>4, ViewNext
  <2>6. g.w = h.w /\ g.pc = h.pc /\ g.told
    BY <1>1, <1>3, <1>4, <1>5, HolderIs
  <2> HIDE DEF v, u, g, h
  <2>7. \A x \in v.hold : \E z : /\ u.hold = {z} /\ z.w = x.w
                                 /\ z.pc = x.pc /\ z.told
    BY <2>5, <2>6
  <2>8. k \in Message /\ k.t = "0x81"
    BY <1>3, <1>8
  <2>9. Good(u, Endless)
    BY <2>1, <2>2, <2>3, <2>7, <2>8, ResponseView
  <2> QED
    BY <2>9 DEF u
<1>13. IsInjective(pStrms')
    BY <1>1 DEF Streams
<1> QED
    BY <1>1, <1>11, <1>12, <1>13, StreamsNext

\* A stream goes back to the pool.
LEMMA PoolGrows ==
    ASSUME Types, Streams, NEW o \in Opaque, o \notin ToSet(pStrms),
           pStrms' = Append(pStrms, o)
    PROVE  IsInjective(pStrms') /\ ToSet(pStrms') = ToSet(pStrms) \cup {o}
<1>1. pStrms \in Seq(Opaque) /\ IsInjective(pStrms)
    BY DEF Types, Streams
<1> QED
    BY <1>1, AppendSet

\* handleFinishClient: the client has a stream back.
LEMMA ClosedStreams ==
    ASSUME Types, Packets, Streams, handleFinishClient
    PROVE  Streams'
<1>1. /\ options' = options /\ wk' = wk /\ donech' = donech
      /\ UNCHANGED <<rxcallb, returning, senders>>
    BY DEF handleFinishClient, client, base
<1>2. PICK k : k = Head(wire["server"])
    OBVIOUS
<1>3. /\ wire["server"] # <<>> /\ k \in Packet /\ k.t = "finish"
      /\ k.o \in Opaque /\ "server" \in End /\ "client" \in End
      /\ wire' = [wire EXCEPT !["server"] = Tail(@)]
      /\ live' = [live EXCEPT !["client"] = @ \ {k.o}]
      /\ pStrms' = IF k.o \in live["client"] THEN Append(pStrms, k.o)
                   ELSE pStrms
    BY <1>2, ClientTakes DEF handleFinishClient
<1>4. PICK o \in Opaque : o = k.o
    BY <1>3
<1>5. /\ k \in Message
      /\ \A x : x # o => Silent(x, "server")
      /\ \A x : Silent(x, "client")
      /\ Keep(OnStream(o), wire'["server"]) \in Seq(Message)
      /\ Keep(OnStream(o), wire["server"])
             = <<k>> \o Keep(OnStream(o), wire'["server"])
    BY <1>2, <1>3, <1>4, TakeView
<1>6. \A x : Hold(x)' = Hold(x) /\ Snd(x)' = Snd(x)
    BY <1>1, HoldStays DEF Snd
<1>7. /\ live'["client"] = live["client"] \ {o}
      /\ live'["server"] = live["server"]
    BY <1>3, <1>4 DEF Types
<1> DEFINE v == View(o)
           u == View(o)'
<1>8. /\ Good(v, Endless) /\ Endless \in BOOLEAN
      /\ v.s = <<k>> \o u.s /\ u.s \in Seq(Message) /\ u.c = v.c
    BY <1>5, EndlessType, ViewIs, ViewNext DEF Streams, Silent
<1>9. /\ u.hold = v.hold /\ u.snd = v.snd /\ ~u.lc
      /\ u.ls <=> v.ls
      /\ u.ret <=> v.ret
    BY <1>1, <1>6, <1>7, ViewIs, ViewNext
<1>10. k \in Message /\ k.t = "finish"
    BY <1>3, <1>5
<1>11. o \in live["client"] /\ o \notin ToSet(pStrms)
  <2> HIDE DEF v, u
  <2>1. Streamed(v, Endless) \/ Received(v, Endless)
    BY <1>8, <1>10, FromServerView
  <2>2. v.lc /\ ~v.pool
    BY <2>1 DEF Streamed, Received
  <2> QED
    BY <2>2, ViewIs DEF v
<1>12. IsInjective(pStrms') /\ ToSet(pStrms') = ToSet(pStrms) \cup {o}
    BY <1>3, <1>4, <1>11, PoolGrows
<1>13. u.pool
    BY <1>12, ViewNext
<1>14. Good(View(o)', Endless)
  <2> HIDE DEF v, u
  <2>1. Good(u, Endless)
    BY <1>8, <1>9, <1>10, <1>13, ClosedView
  <2> QED
    BY <2>1 DEF u
<1>15. ASSUME NEW x \in Opaque, x # o PROVE Good(View(x)', Endless)
  <2>1. Idle(x)
    BY <1>1, <1>6, <1>7, <1>12, <1>15 DEF Idle
  <2> QED
    BY <1>5, <1>15, <2>1, SameView
<1> QED
    BY <1>1, <1>12, <1>14, <1>15, StreamsNext

\* streamupdate: the client has the stream of a request back.
LEMMA UpdateStreams ==
    ASSUME Types, Streams, streamupdate
    PROVE  Streams'
<1>1. PICK o \in returning :
          /\ returning' = returning \ {o}
          /\ live' = [live EXCEPT !["client"] = @ \ {o}]
          /\ pStrms' = Append(pStrms, o)
          /\ UNCHANGED <<client, donech, wire, rxcallb, senders>>
    BY DEF streamupdate
<1>2. options' = options /\ wk' = wk /\ donech' = donech /\ o \in Opaque
    BY <1>1 DEF client, base, Types
<1>3. \A x : Hold(x)' = Hold(x) /\ Snd(x)' = Snd(x)
    BY <1>1, <1>2, HoldStays DEF Snd
<1>4. /\ live'["client"] = live["client"] \ {o}
      /\ live'["server"] = live["server"]
    BY <1>1 DEF Types, End
<1> DEFINE v == View(o)
           u == View(o)'
<1>5. /\ Good(v, Endless) /\ Endless \in BOOLEAN /\ v.ret
      /\ u.c = v.c /\ u.s = v.s /\ u.hold = v.hold
      /\ u.ls <=> v.ls
      /\ u.snd = v.snd /\ ~u.ret /\ ~u.lc
    BY <1>1, <1>2, <1>3, <1>4, EndlessType, ViewIs, ViewNext DEF Streams
<1>6. o \notin ToSet(pStrms)
  <2> HIDE DEF v, u
  <2>1. ~v.pool
    BY <1>5 DEF Good, Free, Asked, Back, Streamed, Received
  <2> QED
    BY <2>1, ViewIs DEF v
<1>7. IsInjective(pStrms') /\ ToSet(pStrms') = ToSet(pStrms) \cup {o}
    BY <1>1, <1>2, <1>6, PoolGrows
<1>8. Good(View(o)', Endless)
  <2>1. u.pool
    BY <1>7, ViewNext
  <2> HIDE DEF v, u
  <2>2. Good(u, Endless)
    BY <1>5, <2>1, UpdateView
  <2> QED
    BY <2>2 DEF u
<1>9. ASSUME NEW x \in Opaque, x # o PROVE Good(View(x)', Endless)
  <2>1. Idle(x) /\ Silent(x, "client") /\ Silent(x, "server")
    BY <1>1, <1>3, <1>4, <1>7, <1>9 DEF Idle, Silent
  <2> QED
    BY <2>1, SameView
<1> QED
    BY <1>2, <1>7, <1>8, <1>9, StreamsNext

-----------------------------------------------------------------------------
(* Type correctness. *)

\* Types, flow, packets and streams together are inductive.
Ordered == Types /\ Flow /\ Packets /\ Streams

\* They hold at the start.
LEMMA InitOrdered == Init => Ordered
<1> SUFFICES ASSUME Init PROVE Ordered
    OBVIOUS
<1>1. options \in Options
    BY DEF Init
<1>2. /\ options.count \in Nat \ {0} /\ options.routines \in Nat \ {0}
      /\ options.stream \in Nat /\ options.maxbeat \in Nat
      /\ Worker \subseteq Nat \ {0} /\ 1 \in Worker
      /\ Opaque \subseteq Nat \ {0}
    BY <1>1, OptionType
<1>3. PICK n \in Nat : Opaque = 1..n
    BY <1>2 DEF Opaque, perfOpaque, exampleOpaque
<1>4. pStrms \in Seq(Opaque) /\ IsInjective(pStrms) /\ ToSet(pStrms) = Opaque
  <2>1. pStrms = [i \in 1..n |-> i]
    BY <1>3 DEF Init
  <2>2. pStrms \in Seq(Opaque)
    BY <1>3, <2>1
  <2>3. DOMAIN pStrms = 1..n /\ \A i \in 1..n : pStrms[i] = i
    BY <2>1
  <2>4. IsInjective(pStrms)
    BY <2>3 DEF IsInjective
  <2>5. ToSet(pStrms) = Opaque
    BY <1>3, <2>3 DEF ToSet
  <2> QED
    BY <2>2, <2>4, <2>5
<1>5. /\ wk \in [Worker -> Routine] /\ \A w \in Worker : wk[w].pc = "range"
      /\ donech = {}
  <2>1. [pc |-> "range", o |-> 0, left |-> 0] \in Routine
    BY <1>2 DEF Routine, Pc
  <2> QED
    BY <2>1 DEF Init
<1>6. wire["client"] = <<>> /\ wire["server"] = <<>>
      /\ live["client"] = {} /\ live["server"] = {}
    BY DEF Init, End
<1>7. Types
  <2>1. /\ doch \in [Worker -> Seq({doit(options.do)})]
        /\ wire \in [End -> Seq(Packet)] /\ live \in [End -> SUBSET Opaque]
    BY DEF Init
  <2>2. /\ rxcallb \in [Opaque -> Worker \cup {NoWorker}]
        /\ stat \in [End -> [Counter -> Nat]]
        /\ counting \in [End -> Counter \cup {Nothing}]
    BY DEF Init
  <2>3. nbeat \in [End -> 0..options.maxbeat]
    BY <1>2 DEF Init
  <2>4. fed \in 0..options.count
    BY <1>2 DEF Init
  <2> QED
    BY <1>1, <1>4, <1>5, <2>1, <2>2, <2>3, <2>4 DEF Init, Types
<1>8. Flow
  <2>1. ASSUME NEW w \in Worker PROVE Len(doch[w]) =< fed
    BY DEF Init
  <2>2. {"range"} \subseteq Pcs
    BY DEF Pcs
  <2> QED
    BY <1>5, <2>1, <2>2 DEF Flow, Init, HoldPc
<1>9. Packets
    BY <1>6 DEF Packets
<1>10. ASSUME NEW o \in Opaque PROVE Good(View(o), Endless)
  <2>1. \A M : Keep(M, wire["client"]) = <<>> /\ Keep(M, wire["server"]) = <<>>
    BY <1>6, KeepEmpty
  <2>2. \A x \in Worker : ~Holds(x, o)
    BY <1>5 DEF Holds, HoldPc
  <2>3. Hold(o) = {}
    BY <2>2, HoldNone
  <2>4. Snd(o) = {}
    BY DEF Init, Snd
  <2>5. returning = {}
    BY DEF Init
  <2>6. Free(View(o), Endless)
    BY <1>4, <1>6, <2>1, <2>3, <2>4, <2>5, ViewIs DEF Free
  <2> QED
    BY <2>6 DEF Good
<1> QED
    BY <1>4, <1>7, <1>8, <1>9, <1>10 DEF Ordered, Streams

\* A step of the client's program.
LEMMA ProgramOrdered ==
    ASSUME Ordered, Feed \/ FeederCloses \/ Close \/ addCounts
    PROVE  Ordered'
<1> USE DEF Ordered
<1>1. Types' /\ Flow'
    BY FeedTypes, FeedFlow
<1>2. Packets'
    BY NextPackets DEF Next
<1>3. Streams'
  <2>1. /\ options' = options /\ wk' = wk /\ donech' = donech
        /\ UNCHANGED <<wire, pStrms, rxcallb, returning, live, senders>>
    BY DEF Feed, FeederCloses, Close, addCounts, strms
  <2>2. \A o : Hold(o)' = Hold(o)
    BY <2>1, HoldStays
  <2> QED
    BY <2>1, <2>2, QuietStreams
<1> QED
    BY <1>1, <1>2, <1>3

\* A step of one of its routines.
LEMMA WorkerOrdered ==
    ASSUME Ordered, NEW w \in Worker, worker(w)
    PROVE  Ordered'
<1> USE DEF Ordered
<1>1. Flow' /\ Packets'
    BY WorkerFlow, ClientPackets
<1>2. "client" \in End
    BY DEF End
<1>3. CASE RangeNext(w) \/ RangeEnds(w)
    BY <1>1, <1>3, RangeTypes, RangeStreams
<1>4. CASE sendpost(w)
    BY <1>1, <1>2, <1>4, PostTypes, PostStreams
<1>5. CASE sendreq(w) \/ doStream(w)
    BY <1>1, <1>5, OpenTypes, OpenStreams
<1>6. CASE Requested(w)
    BY <1>1, <1>6, RequestedTypes, RequestedStreams
<1>7. CASE doStreamTx(w)
    BY <1>1, <1>7, StreamTxTypes, StreamTxStreams
<1> QED
    BY <1>3, <1>4, <1>5, <1>6, <1>7 DEF worker

\* A step of syncRx().
LEMMA SyncRxOrdered ==
    ASSUME Ordered, NEW e \in End, syncRx(e)
    PROVE  Ordered'
<1> USE DEF Ordered
<1>1. Packets'
    BY NextPackets DEF Next
<1>2. ASSUME UNCHANGED <<client, donech>> PROVE Flow'
    BY <1>2, SameFlow
<1>3. CASE handlePost(e) \/ handleStream(e) \/ handleDuplicate
  <2>1. Flow'
    BY <1>2, <1>3 DEF handlePost, handleStream, handleDuplicate
  <2> QED
    BY <1>1, <1>3, <2>1, QuietTypes, QuietHandlers
<1>4. CASE handleRequest \/ handleStart \/ handleFinishServer
  <2>1. Flow'
    BY <1>2, <1>4 DEF handleRequest, handleStart, handleFinishServer
  <2> QED
    BY <1>1, <1>4, <2>1, ServerTypes, RequestStreams, StartStreams,
       FinishStreams
<1>5. CASE handleFinishClient
  <2>1. Flow'
    BY <1>2, <1>5 DEF handleFinishClient
  <2>2. ~handleResponse
    BY <1>5 DEF handleResponse, handleFinishClient
  <2> QED
    BY <1>1, <1>5, <2>1, <2>2, ClientTypes, ClosedStreams
<1>6. CASE handleResponse
  <2>1. /\ rxcallb[Head(wire["server"]).o] \in Worker
        /\ wk[rxcallb[Head(wire["server"]).o]].pc \in {"wait", "bye"}
    BY <1>6, ResponseFinds
  <2>2. Flow'
    <3>1. /\ options' = options /\ fed' = fed /\ shut' = shut /\ doch' = doch
          /\ main' = main /\ wk' = wk
          /\ donech' = donech \cup {rxcallb[Head(wire["server"]).o]}
      BY <1>6 DEF handleResponse, client, base
    <3>2. /\ Worker' = Worker /\ Opaque' = Opaque /\ Pcs' = Pcs
          /\ Endless' <=> Endless
      BY <3>1, SameOptions
    <3> QED
      BY <2>1, <3>1, <3>2 DEF Flow
  <2> QED
    BY <1>1, <1>6, <2>1, <2>2, ClientTypes, ResponseStreams
<1>7. CASE streamupdate \/ Count(e)
  <2>1. Flow'
    BY <1>2, <1>7 DEF streamupdate, Count
  <2>2. ASSUME Count(e) PROVE Streams'
    <3>1. /\ options' = options /\ wk' = wk /\ donech' = donech
          /\ UNCHANGED <<wire, pStrms, rxcallb, returning, live, senders>>
      BY <2>2 DEF Count, client, base, strms
    <3>2. \A o : Hold(o)' = Hold(o)
      BY <3>1, HoldStays
    <3> QED
      BY <3>1, <3>2, QuietStreams
  <2> QED
    BY <1>1, <1>7, <2>1, <2>2, RestTypes, UpdateStreams
<1> QED
    BY <1>3, <1>4, <1>5, <1>6, <1>7 DEF syncRx, handlepkt

\* Every step.
LEMMA NextOrdered ==
    ASSUME Ordered, [Next]_vars
    PROVE  Ordered'
<1>1. CASE Feed \/ FeederCloses \/ Close \/ addCounts
    BY <1>1, ProgramOrdered
<1>2. CASE \E w \in Worker : worker(w)
    BY <1>2, WorkerOrdered
<1>3. CASE \E e \in End : syncRx(e)
    BY <1>3, SyncRxOrdered
<1>4. ASSUME NEW e \in End, Heartbeat(e) PROVE Ordered'
  <2>1. Types /\ Flow /\ Packets /\ Streams
    BY DEF Ordered
  <2>2. 1 \in Worker
    BY <2>1, OptionType DEF Types
  <2>3. Flow'
    BY <1>4, <2>1, SameFlow DEF Heartbeat
  <2>4. Packets'
    BY <1>4, <2>1, NextPackets DEF Next
  <2> QED
    BY <1>4, <2>1, <2>2, <2>3, <2>4, PostTypes, PostStreams DEF Ordered
<1>5. ASSUME NEW x \in senders, Sender(x) PROVE Ordered'
  <2>1. Types /\ Flow /\ Packets /\ Streams
    BY DEF Ordered
  <2>2. Flow'
    BY <1>5, <2>1, SameFlow DEF Sender
  <2>3. Packets'
    BY <1>5, <2>1, NextPackets DEF Next
  <2> QED
    BY <1>5, <2>1, <2>2, <2>3, SenderTypes, SenderStreams DEF Ordered
<1>6. CASE UNCHANGED vars
  <2> USE <1>6 DEF vars, client, base, strms
  <2>1. Types'
    BY SameOptions DEF Ordered, Types
  <2>2. Flow'
    BY SameFlow DEF Ordered
  <2>3. Packets'
    BY SameOptions DEF Ordered, Packets
  <2>4. Streams'
    BY HoldStays, QuietStreams DEF Ordered
  <2> QED
    BY <2>1, <2>2, <2>3, <2>4 DEF Ordered
<1> QED
    BY <1>1, <1>2, <1>3, <1>4, <1>5, <1>6 DEF Next

\* Type correctness, for every set of options: every variable has the values
\* that its declaration says, and no stream object of the client is in
\* p_strms twice, although Post(), Request(), the finish of a stream and the
\* update of syncRx() give it back in four places.
THEOREM TypeCorrect == Spec => []TypeOK
<1>1. Init => Ordered
    BY InitOrdered
<1>2. Ordered /\ [Next]_vars => Ordered'
    BY NextOrdered
<1>3. Ordered => TypeOK
  <2>1. Ordered => Types /\ IsInjective(pStrms)
    BY DEF Ordered, Streams
  <2> QED
    BY <2>1 DEF Types, TypeOK, IsInjective, Routine, Pc
<1> QED
    BY <1>1, <1>2, <1>3, PTL DEF Spec

-----------------------------------------------------------------------------
(* Somebody waits behind every packet. *)

\* A routine that has its Whoami() ahead covers everything.
LEMMA BusyCover ==
    ASSUME Worker' = Worker, NEW w \in Worker, Busy(w)'
    PROVE  Cover'
BY DEF Cover

\* What routine w waits behind, when packet k is sent.
LEMMA AskSend ==
    ASSUME NEW e \in End, NEW s \in Seq(Packet), s = wire[e], NEW k \in Packet,
           wire'[e] = Append(s, k), NEW w, wk'[w].o = wk[w].o,
           NEW i \in Nat
    PROVE  /\ Ask(e, i, w) => Ask(e, i, w)'
           /\ k.t = "0x81" /\ k.o = wk[w].o /\ i =< Len(s) + 1
                  => Ask(e, i, w)'
<1> DEFINE t == Append(s, k)
<1>1. /\ DOMAIN s = 1..Len(s) /\ DOMAIN t = 1..(Len(s) + 1) /\ Len(s) \in Nat
      /\ t[Len(s) + 1] = k /\ \A j \in 1..Len(s) : t[j] = s[j]
    OBVIOUS
<1>2. wire'[e] = t
    OBVIOUS
<1> HIDE DEF t
<1>3. ASSUME Ask(e, i, w) PROVE Ask(e, i, w)'
    BY <1>1, <1>2, <1>3 DEF Ask
<1>4. ASSUME k.t = "0x81", k.o = wk[w].o, i =< Len(s) + 1
      PROVE  Ask(e, i, w)'
    BY <1>1, <1>2, <1>4 DEF Ask
<1> QED
    BY <1>3, <1>4

\* What it waits behind, when the first packet is taken.
LEMMA AskTake ==
    ASSUME NEW e \in End, NEW s \in Seq(Packet), s = wire[e], s # <<>>,
           wire'[e] = Tail(s), NEW w, wk'[w].o = wk[w].o, NEW i \in Nat \ {0}
    PROVE  /\ Ask(e, i + 1, w) => Ask(e, i, w)'
           /\ /\ Ask(e, 1, w)
              /\ ~(Head(s).t = "0x81" /\ Head(s).o = wk[w].o)
              => Ask(e, 1, w)'
<1> DEFINE t == Tail(s)
           h == Head(s)
<1>1. /\ DOMAIN s = 1..Len(s) /\ DOMAIN t = 1..(Len(s) - 1) /\ Len(s) \in Nat
      /\ h = s[1] /\ \A j \in 1..(Len(s) - 1) : t[j] = s[j + 1]
    OBVIOUS
<1>2. wire'[e] = t
    OBVIOUS
<1> HIDE DEF t, h
<1>3. ASSUME NEW n \in Nat, NEW j \in 1..Len(s), j > 1, j >= n + 1,
             s[j].t = "0x81", s[j].o = wk[w].o
      PROVE  Ask(e, n, w)'
  <2>1. j - 1 \in 1..(Len(s) - 1) /\ j - 1 >= n /\ t[j - 1] = s[j]
    BY <1>1, <1>3
  <2> QED
    BY <1>1, <1>2, <1>3, <2>1 DEF Ask
<1>4. ASSUME Ask(e, i + 1, w) PROVE Ask(e, i, w)'
  <2>1. PICK j \in 1..Len(s) : /\ j >= i + 1 /\ s[j].t = "0x81"
                               /\ s[j].o = wk[w].o
    BY <1>1, <1>4 DEF Ask
  <2> QED
    BY <1>3, <2>1
<1>5. ASSUME Ask(e, 1, w), ~(h.t = "0x81" /\ h.o = wk[w].o)
      PROVE  Ask(e, 1, w)'
  <2>1. PICK j \in 1..Len(s) : s[j].t = "0x81" /\ s[j].o = wk[w].o
    BY <1>1, <1>5 DEF Ask
  <2>2. j > 1
    BY <1>1, <1>5, <2>1
  <2> QED
    BY <1>3, <2>1, <2>2
<1> QED
    BY <1>4, <1>5 DEF h

\* What it waits behind, when nothing changes.
LEMMA AskSame ==
    ASSUME NEW e, wire'[e] = wire[e], NEW w, wk'[w].o = wk[w].o, NEW i
    PROVE  Ask(e, i, w) => Ask(e, i, w)'
BY DEF Ask

\* The indices of a sequence that gets an element, and of one that loses
\* its first.
LEMMA AppendAt ==
    ASSUME NEW S, NEW s \in Seq(S), NEW k
    PROVE  /\ Len(s) \in Nat /\ Len(Append(s, k)) = Len(s) + 1
           /\ DOMAIN s = 1..Len(s) /\ DOMAIN Append(s, k) = 1..(Len(s) + 1)
           /\ Append(s, k)[Len(s) + 1] = k
           /\ \A i \in 1..Len(s) : Append(s, k)[i] = s[i]
OBVIOUS

\* The elements of a sequence that loses its first.
LEMMA TailAt ==
    ASSUME NEW S, NEW s \in Seq(S), s # <<>>
    PROVE  /\ Len(s) \in Nat /\ Len(Tail(s)) = Len(s) - 1
           /\ DOMAIN s = 1..Len(s) /\ DOMAIN Tail(s) = 1..(Len(s) - 1)
           /\ Head(s) = s[1] /\ 1 \in DOMAIN s
           /\ \A i \in 1..(Len(s) - 1) : Tail(s)[i] = s[i + 1]
OBVIOUS

\* Everything is covered that was, when the client takes a packet.
LEMMA ClientCover ==
    ASSUME Types, Cover, wk' = wk, options' = options, wire["server"] # <<>>,
           wire'["server"] = Tail(wire["server"]),
           wire'["client"] = wire["client"]
    PROVE  Cover'
<1> DEFINE s == wire["server"]
           t == Tail(s)
<1>1. Worker' = Worker
    BY DEF Worker
<1>2. /\ s \in Seq(Packet) /\ s # <<>> /\ t = wire'["server"]
      /\ "server" \in End /\ "client" \in End
    BY DEF Types, End
<1>3. /\ Len(s) \in Nat /\ DOMAIN s = 1..Len(s) /\ DOMAIN t = 1..(Len(s) - 1)
      /\ \A i \in 1..(Len(s) - 1) : t[i] = s[i + 1]
    BY <1>2, TailAt
<1>4. \A w : /\ Busy(w)' <=> Busy(w)
             /\ Bye(w)' <=> Bye(w)
    BY DEF Busy, Bye
<1>5. \A w, i : Ask("client", i, w) => Ask("client", i, w)'
    BY AskSame
<1>6. ASSUME NEW w, NEW i \in Nat \ {0}
      PROVE  Ask("server", i + 1, w) => Ask("server", i, w)'
    BY <1>2, AskTake
<1> HIDE DEF t
<1>7. ASSUME NEW i \in DOMAIN wire'["client"],
             wire'["client"][i].id # "heartbeat"
      PROVE  \E w \in Worker : Busy(w)' \/ (Bye(w)' /\ Ask("client", i, w)')
    BY <1>4, <1>5, <1>7 DEF Cover
<1>8. ASSUME NEW i \in DOMAIN wire'["server"],
             wire'["server"][i].id # "heartbeat"
      PROVE  \E w \in Worker :
                 \/ Busy(w)'
                 \/ Bye(w)' /\ (Ask("client", 1, w)' \/ Ask("server", i, w)')
  <2>1. /\ i \in Nat \ {0} /\ i + 1 \in DOMAIN s
        /\ s[i + 1].id # "heartbeat"
    BY <1>2, <1>3, <1>8
  <2>2. PICK w \in Worker :
            \/ Busy(w)
            \/ Bye(w) /\ (Ask("client", 1, w) \/ Ask("server", i + 1, w))
    BY <2>1 DEF Cover
  <2> QED
    BY <1>4, <1>5, <1>6, <2>1, <2>2
<1> QED
    BY <1>1, <1>7, <1>8 DEF Cover

\* The same when a heartbeat is sent.
LEMMA BeatCover ==
    ASSUME Types, Cover, wk' = wk, options' = options, NEW e \in End,
           NEW k \in Packet, k.id = "heartbeat",
           wire'[e] = Append(wire[e], k),
           \A f \in End : f # e => wire'[f] = wire[f]
    PROVE  Cover'
<1>1. Worker' = Worker /\ "server" \in End /\ "client" \in End
    BY DEF Worker, End
<1>2. \A w : /\ Busy(w)' <=> Busy(w)
             /\ Bye(w)' <=> Bye(w)
    BY DEF Busy, Bye
<1>3. ASSUME NEW f \in End, NEW i \in DOMAIN wire'[f],
             wire'[f][i].id # "heartbeat"
      PROVE  i \in DOMAIN wire[f] /\ wire'[f][i] = wire[f][i]
  <2>1. CASE f # e
    BY <1>3, <2>1
  <2>2. CASE f = e
    <3> DEFINE s == wire[e]
    <3>1. s \in Seq(Packet)
      BY DEF Types
    <3> HIDE DEF s
    <3>2. /\ Len(s) \in Nat /\ DOMAIN s = 1..Len(s)
          /\ DOMAIN Append(s, k) = 1..(Len(s) + 1)
          /\ Append(s, k)[Len(s) + 1] = k
          /\ \A j \in 1..Len(s) : Append(s, k)[j] = s[j]
      BY <3>1, AppendAt
    <3> DEFINE t == Append(s, k)
    <3>3. wire'[f] = t /\ wire[f] = s
      BY <2>2 DEF s
    <3> HIDE DEF t
    <3>4. i \in DOMAIN t /\ t[i].id # "heartbeat" /\ k.id = "heartbeat"
      BY <1>3, <3>3
    <3>5. i \in 1..Len(s)
      BY <3>2, <3>4 DEF t
    <3>6. t[i] = s[i]
      BY <3>2, <3>5 DEF t
    <3> QED
      BY <3>2, <3>3, <3>5, <3>6
  <2> QED
    BY <2>1, <2>2
<1>4. ASSUME NEW f \in End, NEW i \in Nat, NEW w
      PROVE  Ask(f, i, w) => Ask(f, i, w)'
  <2>1. CASE f # e
    BY <2>1, AskSame
  <2>2. CASE f = e
    BY <2>2, AskSend DEF Types
  <2> QED
    BY <2>1, <2>2
<1>5. ASSUME NEW f \in End PROVE DOMAIN wire[f] \subseteq Nat
    BY DEF Types
<1>6. ASSUME NEW i \in DOMAIN wire'["client"],
             wire'["client"][i].id # "heartbeat"
      PROVE  \E w \in Worker : Busy(w)' \/ (Bye(w)' /\ Ask("client", i, w)')
  <2>1. i \in DOMAIN wire["client"] /\ wire["client"][i].id # "heartbeat"
    BY <1>1, <1>3, <1>6
  <2>2. PICK w \in Worker : Busy(w) \/ (Bye(w) /\ Ask("client", i, w))
    BY <2>1 DEF Cover
  <2> QED
    BY <1>1, <1>2, <1>4, <1>5, <2>1, <2>2
<1>7. ASSUME NEW i \in DOMAIN wire'["server"],
             wire'["server"][i].id # "heartbeat"
      PROVE  \E w \in Worker :
                 \/ Busy(w)'
                 \/ Bye(w)' /\ (Ask("client", 1, w)' \/ Ask("server", i, w)')
  <2>1. i \in DOMAIN wire["server"] /\ wire["server"][i].id # "heartbeat"
    BY <1>1, <1>3, <1>7
  <2>2. PICK w \in Worker :
            \/ Busy(w)
            \/ Bye(w) /\ (Ask("client", 1, w) \/ Ask("server", i, w))
    BY <2>1 DEF Cover
  <2> QED
    BY <1>1, <1>2, <1>4, <1>5, <2>1, <2>2
<1> QED
    BY <1>1, <1>6, <1>7 DEF Cover

\* The same when the server takes packet k and answers with q, if at all: it
\* answers every request.
LEMMA ServerCover ==
    ASSUME Types, Cover, wk' = wk, options' = options, wire["client"] # <<>>,
           wire'["client"] = Tail(wire["client"]),
           NEW k, k = Head(wire["client"]), NEW q \in Packet,
           \/ wire'["server"] = wire["server"] /\ k.t # "0x81"
           \/ /\ wire'["server"] = Append(wire["server"], q)
              /\ k.t = "0x81" => q.t = "0x81" /\ q.o = k.o
              /\ q.id # "heartbeat" => k.id # "heartbeat"
    PROVE  Cover'
<1>1. PICK s \in Seq(Packet) : s = wire["client"] /\ s # <<>>
    BY DEF Types, End
<1>2. PICK r \in Seq(Packet) : r = wire["server"]
    BY DEF Types, End
<1>3. PICK t : t = Tail(s)
    OBVIOUS
<1>4. Worker' = Worker /\ "server" \in End /\ "client" \in End
    BY DEF Worker, End
<1>5. /\ Len(s) \in Nat /\ DOMAIN s = 1..Len(s) /\ DOMAIN t = 1..(Len(s) - 1)
      /\ k = s[1] /\ 1 \in DOMAIN s
      /\ \A i \in 1..(Len(s) - 1) : t[i] = s[i + 1]
    BY <1>1, <1>3, TailAt
<1>6. \A w : /\ Busy(w)' <=> Busy(w)
             /\ Bye(w)' <=> Bye(w)
    BY DEF Busy, Bye
<1>7. Len(r) \in Nat /\ DOMAIN r = 1..Len(r)
    OBVIOUS
<1>8. ASSUME NEW w, NEW i \in Nat
      PROVE  Ask("server", i, w) => Ask("server", i, w)'
  <2>1. CASE wire'["server"] = wire["server"]
    BY <2>1, AskSame
  <2>2. CASE wire'["server"] = Append(wire["server"], q)
    BY <1>2, <1>4, <2>2, AskSend
  <2> QED
    BY <2>1, <2>2
<1>9. ASSUME NEW w, NEW i \in Nat, i =< Len(r) + 1, Ask("client", 1, w)
      PROVE  Ask("client", 1, w)' \/ Ask("server", i, w)'
  <2>1. CASE ~(k.t = "0x81" /\ k.o = wk[w].o)
    <3>1. /\ wire'["client"] = Tail(s) /\ 1 \in Nat \ {0}
          /\ ~(Head(s).t = "0x81" /\ Head(s).o = wk[w].o)
      BY <1>1, <2>1
    <3>2. Ask("client", 1, w)'
      BY <1>1, <1>4, <1>9, <3>1, AskTake
    <3> QED
      BY <3>2
  <2>2. CASE k.t = "0x81" /\ k.o = wk[w].o
    <3>1. /\ wire'["server"] = Append(r, q) /\ q.t = "0x81"
          /\ q.o = wk[w].o
      BY <1>2, <2>2
    <3> QED
      BY <1>2, <1>4, <1>9, <3>1, AskSend
  <2> QED
    BY <2>1, <2>2
<1>10. ASSUME NEW i \in DOMAIN wire'["client"],
              wire'["client"][i].id # "heartbeat"
       PROVE  \E w \in Worker : Busy(w)' \/ (Bye(w)' /\ Ask("client", i, w)')
  <2>1. /\ i \in Nat \ {0} /\ i + 1 \in DOMAIN wire["client"]
        /\ wire["client"][i + 1].id # "heartbeat"
    <3>1. wire'["client"] = t
      BY <1>1, <1>3
    <3>2. i \in 1..(Len(s) - 1) /\ t[i].id # "heartbeat"
      BY <1>5, <1>10, <3>1
    <3>3. i + 1 \in 1..Len(s) /\ s[i + 1] = t[i]
      BY <1>5, <3>2
    <3> QED
      BY <1>1, <1>5, <3>2, <3>3
  <2>2. PICK w \in Worker : Busy(w) \/ (Bye(w) /\ Ask("client", i + 1, w))
    BY <2>1 DEF Cover
  <2>3. Ask("client", i + 1, w) => Ask("client", i, w)'
    <3>1. wire'["client"] = Tail(s)
      BY <1>1
    <3> QED
      BY <1>1, <1>4, <2>1, <3>1, AskTake
  <2> QED
    BY <1>6, <2>2, <2>3
<1>11. ASSUME NEW i \in DOMAIN wire'["server"],
              wire'["server"][i].id # "heartbeat"
       PROVE  \E w \in Worker :
                  \/ Busy(w)'
                  \/ Bye(w)' /\ (Ask("client", 1, w)' \/ Ask("server", i, w)')
  <2>1. \/ i \in 1..Len(r) /\ r[i].id # "heartbeat"
        \/ i = Len(r) + 1 /\ k.id # "heartbeat"
    <3>1. CASE wire'["server"] = wire["server"]
      BY <1>2, <1>7, <1>11, <3>1
    <3>2. CASE /\ wire'["server"] = Append(wire["server"], q)
               /\ q.id # "heartbeat" => k.id # "heartbeat"
      <4> DEFINE u == Append(r, q)
      <4>1. /\ DOMAIN u = 1..(Len(r) + 1) /\ u[Len(r) + 1] = q
            /\ \A j \in 1..Len(r) : u[j] = r[j]
        BY AppendAt
      <4>2. wire'["server"] = u
        BY <1>2, <3>2
      <4> HIDE DEF u
      <4>3. i \in 1..(Len(r) + 1) /\ u[i].id # "heartbeat"
        BY <1>11, <4>1, <4>2
      <4> QED
        BY <1>7, <3>2, <4>1, <4>3
    <3> QED
      BY <3>1, <3>2
  <2>2. i \in Nat /\ i =< Len(r) + 1
    BY <1>7, <2>1
  <2>3. PICK w \in Worker :
            \/ Busy(w)
            \/ Bye(w) /\ (Ask("client", 1, w) \/ Ask("server", i, w))
    <3>1. CASE i \in 1..Len(r) /\ r[i].id # "heartbeat"
      BY <1>2, <1>7, <3>1 DEF Cover
    <3>2. CASE i = Len(r) + 1 /\ k.id # "heartbeat"
      BY <1>1, <1>5, <3>2 DEF Cover
    <3> QED
      BY <2>1, <3>1, <3>2
  <2> QED
    BY <1>6, <1>8, <1>9, <2>2, <2>3
<1> QED
    BY <1>4, <1>10, <1>11 DEF Cover

\* The last request of a routine covers everything.
LEMMA ByeCover ==
    ASSUME Types, options' = options, NEW w \in Worker, Bye(w)', NEW k,
           k \in Packet, k.t = "0x81", k.o = wk'[w].o,
           wire' = [wire EXCEPT !["client"] = Append(@, k)]
    PROVE  Cover'
<1>1. Worker' = Worker
    BY DEF Worker
<1>2. PICK s \in Seq(Packet) :
          s = wire["client"] /\ wire'["client"] = Append(s, k)
    BY DEF Types, End
<1> DEFINE t == Append(s, k)
<1>3. /\ Len(s) \in Nat /\ DOMAIN t = 1..(Len(s) + 1) /\ t[Len(s) + 1] = k
    BY AppendAt
<1>4. wire'["client"] = t
    BY <1>2
<1> HIDE DEF t
<1>5. ASSUME NEW i \in 1..(Len(s) + 1) PROVE Ask("client", i, w)'
    BY <1>3, <1>4 DEF Ask
<1>6. \A i \in DOMAIN wire'["client"] : Ask("client", i, w)'
    BY <1>3, <1>4, <1>5
<1>7. Ask("client", 1, w)'
    BY <1>3, <1>5
<1> QED
    BY <1>1, <1>6, <1>7 DEF Cover

\* A routine that has had its answer covers nothing.
LEMMA DoneCover ==
    ASSUME Types, Flow, Streams, Cover, ~Endless, NEW w \in Worker,
           Requested(w), wk[w].pc = "bye"
    PROVE  Cover'
<1>1. /\ options' = options /\ wire' = wire /\ w \in donech
      /\ Goto(w, "done") /\ "done" \in Pc
    BY DEF Requested, base, Pc
<1>2. /\ wk'[w].pc = "done"
      /\ \A u \in Worker : u # w => wk'[u] = wk[u]
    BY <1>1, GotoType
<1>3. PICK o \in Opaque : o = wk[w].o /\ Holds(w, o)
    BY DEF Flow, Holds, HoldPc
<1>4. Holder(w) \in View(o).hold /\ Holder(w).told /\ Holder(w).pc = "bye"
    BY <1>1, <1>3, HoldUnique, HolderIs
<1>5. View(o).c = <<>> /\ View(o).s = <<>>
  <2> DEFINE v == View(o)
             h == Holder(w)
  <2>1. Good(v, Endless) /\ h \in v.hold /\ h.told /\ h.pc = "bye"
    BY <1>4 DEF Streams
  <2> HIDE DEF v, h
  <2>2. v.c = <<>> /\ v.s = <<>>
    BY <2>1 DEF Good, Free, Asked, Back, Streamed, Received
  <2> QED
    BY <2>2 DEF v
<1>6. ASSUME NEW e \in End, NEW i PROVE ~Ask(e, i, w)
  <2>1. SUFFICES ASSUME Ask(e, i, w) PROVE FALSE
    OBVIOUS
  <2>2. wire[e] \in Seq(Message)
    BY ViewType
  <2>3. PICK j \in DOMAIN wire[e] :
            wire[e][j].t = "0x81" /\ wire[e][j].o = wk[w].o
    BY <2>1 DEF Ask
  <2>4. wire[e][j] \in OnStream(o)
    BY <1>3, <2>2, <2>3 DEF OnStream
  <2>5. Keep(OnStream(o), wire[e]) # <<>>
    BY <2>2, <2>4, KeepHas
  <2> QED
    BY <1>5, <2>5, ViewIs DEF End
<1>7. Worker' = Worker /\ "server" \in End /\ "client" \in End
    BY <1>1 DEF Worker, End
<1>8. ASSUME NEW u \in Worker, u # w
      PROVE  /\ Busy(u)' <=> Busy(u)
             /\ Bye(u)' <=> Bye(u)
             /\ \A i, e : Ask(e, i, u)' <=> Ask(e, i, u)
    BY <1>1, <1>2, <1>8 DEF Busy, Bye, Ask
<1>9. ~Busy(w)
    BY DEF Busy
<1> QED
    BY <1>1, <1>6, <1>7, <1>8, <1>9 DEF Cover

-----------------------------------------------------------------------------
(* Nothing is dropped unless the routines receive streams. *)

\* The next packet on a stream is the first of its view.
LEMMA HeadView ==
    ASSUME Types, NEW e \in End, wire[e] # <<>>, NEW k, k = Head(wire[e]),
           k \in Packet, k.t # "post"
    PROVE  /\ k \in Message
           /\ \E s \in Seq(Message) :
                  Keep(OnStream(k.o), wire[e]) = <<k>> \o s
<1>1. wire[e] \in Seq(Message) /\ k \in Message
    BY ViewType, PacketMessage DEF Types
<1>2. k \in OnStream(k.o)
    BY <1>1 DEF OnStream
<1> DEFINE s == Keep(OnStream(k.o), Tail(wire[e]))
<1>3. Keep(OnStream(k.o), wire[e]) = <<k>> \o s
    BY <1>1, <1>2, KeepHead
<1>4. Tail(wire[e]) \in Seq(Message)
    BY <1>1
<1>5. s \in Seq(Message)
    BY <1>4, KeepType
<1> QED
    BY <1>1, <1>3, <1>5

\* The server knows a stream when it gets a message of it, and not before.
LEMMA ServerFinds ==
    ASSUME Types, Packets, Streams, Posted, ~Endless, wire["client"] # <<>>,
           NEW k, k = Head(wire["client"])
    PROVE  /\ k.t \in {"post", "0x81", "start"} => k.o \notin live["server"]
           /\ k.t \in {"stream", "finish"} => k.o \in live["server"]
<1>1. "client" \in End
    BY DEF End
<1>2. k \in Packet /\ k.o \in Opaque /\ 1 \in DOMAIN wire["client"]
      /\ k = wire["client"][1]
    BY <1>1, NextPacket
<1>3. k.t = "post" => k.o \notin live["server"]
    BY <1>2 DEF Posted
<1>4. CASE k.t # "post"
  <2> DEFINE v == View(k.o)
  <2>1. /\ Good(v, Endless) /\ Endless \in BOOLEAN
        /\ v.c = Keep(OnStream(k.o), wire["client"])
        /\ v.ls <=> k.o \in live["server"]
    BY <1>2, EndlessType, ViewIs DEF Streams
  <2>2. k \in Message /\ \E s \in Seq(Message) : v.c = <<k>> \o s
    BY <1>1, <1>2, <1>4, <2>1, HeadView
  <2> HIDE DEF v
  <2>3. PICK s \in Seq(Message) : v.c = <<k>> \o s
    BY <2>2
  <2>4. \/ k.t = "0x81" /\ Asked(v, Endless)
        \/ k.t = "start" /\ ~v.ls
        \/ k.t = "start" /\ Received(v, Endless)
        \/ k.t = "stream" /\ v.ls
        \/ k.t = "finish" /\ v.ls
    BY <2>1, <2>2, <2>3, FromClientView
  <2>5. /\ Asked(v, Endless) => ~v.ls
        /\ ~Received(v, Endless)
    BY DEF Asked, Received
  <2>6. /\ k.t \in {"0x81", "start"} => ~v.ls
        /\ k.t \in {"stream", "finish"} => v.ls
    BY <2>4, <2>5
  <2> QED
    BY <1>4, <2>1, <2>6
<1> QED
    BY <1>3, <1>4

\* So does the client.
LEMMA ClientFinds ==
    ASSUME Types, Packets, Streams, ~Endless, wire["server"] # <<>>,
           NEW k, k = Head(wire["server"])
    PROVE  /\ k.t \in {"post", "0x81", "finish"}
           /\ k.t # "post" => k.o \in live["client"]
<1>1. "server" \in End /\ "client" # "server"
    BY DEF End
<1>2. /\ k \in Packet
      /\ k.t # "post" => k.o \in Opaque
    BY <1>1, NextPacket
<1>3. CASE k.t # "post"
  <2> DEFINE v == View(k.o)
  <2>1. /\ Good(v, Endless) /\ Endless \in BOOLEAN
        /\ v.s = Keep(OnStream(k.o), wire["server"])
        /\ v.lc <=> k.o \in live["client"]
    BY <1>2, <1>3, EndlessType, ViewIs DEF Streams
  <2>2. k \in Message /\ \E s \in Seq(Message) : v.s = <<k>> \o s
    BY <1>1, <1>2, <1>3, <2>1, HeadView
  <2> HIDE DEF v
  <2>3. PICK s \in Seq(Message) : v.s = <<k>> \o s
    BY <2>2
  <2>4. \/ k.t = "0x81" /\ Asked(v, Endless)
        \/ k.t = "stream" /\ Received(v, Endless)
        \/ k.t = "finish" /\ (Streamed(v, Endless) \/ Received(v, Endless))
    BY <2>1, <2>2, <2>3, FromServerView
  <2>5. /\ Asked(v, Endless) => v.lc
        /\ Streamed(v, Endless) => v.lc
        /\ ~Received(v, Endless)
    BY DEF Asked, Streamed, Received
  <2>6. k.t \in {"0x81", "finish"} /\ v.lc
    BY <2>4, <2>5
  <2> QED
    BY <2>1, <2>6
<1> QED
    BY <1>2, <1>3

\* The server has no routine that streams.
LEMMA NoSender ==
    ASSUME Types, Streams, ~Endless
    PROVE  senders = {}
<1> SUFFICES ASSUME NEW x \in senders PROVE FALSE
    OBVIOUS
<1>1. PICK o \in Opaque : o = x.o
    BY DEF Types
<1> DEFINE v == View(o)
<1>2. Good(v, Endless) /\ v.snd # {}
    BY <1>1, ViewIs DEF Streams, Snd
<1> HIDE DEF v
<1> QED
    BY <1>2 DEF Good, Free, Asked, Back, Streamed, Received

\* A post stays one, when something else is sent than a post.
LEMMA PostedSend ==
    ASSUME Types, Posted, NEW k \in Packet,
           wire'["client"] = Append(wire["client"], k),
           live'["server"] = live["server"],
           k.t = "post" => /\ k.o \notin live["server"]
                           /\ \A j \in DOMAIN wire["client"] :
                                 ~ /\ wire["client"][j].t = "start"
                                   /\ wire["client"][j].o = k.o
    PROVE  Posted'
<1>1. PICK s \in Seq(Packet) : s = wire["client"]
    BY DEF Types, End
<1> DEFINE t == Append(s, k)
<1>2. /\ Len(s) \in Nat /\ DOMAIN s = 1..Len(s)
      /\ DOMAIN t = 1..(Len(s) + 1) /\ t[Len(s) + 1] = k
      /\ \A i \in 1..Len(s) : t[i] = s[i]
    BY AppendAt
<1>3. wire'["client"] = t
    BY <1>1
<1> HIDE DEF t
<1>4. ASSUME NEW i \in 1..Len(s), t[i].t = "post"
      PROVE  /\ t[i].o \notin live["server"]
             /\ \A j \in 1..i : ~(t[j].t = "start" /\ t[j].o = t[i].o)
  <2>1. t[i] = s[i] /\ \A j \in 1..i : t[j] = s[j]
    BY <1>2
  <2> QED
    BY <1>1, <1>2, <1>4, <2>1 DEF Posted
<1>5. ASSUME NEW i \in 1..(Len(s) + 1), i \notin 1..Len(s), t[i].t = "post"
      PROVE  /\ t[i].o \notin live["server"]
             /\ \A j \in 1..i : ~(t[j].t = "start" /\ t[j].o = t[i].o)
  <2>1. i = Len(s) + 1 /\ t[i] = k
    BY <1>2, <1>5
  <2>2. \A j \in 1..Len(s) : ~(s[j].t = "start" /\ s[j].o = k.o)
    BY <1>1, <1>2, <1>5, <2>1
  <2>3. ASSUME NEW j \in 1..i PROVE ~(t[j].t = "start" /\ t[j].o = t[i].o)
    <3>1. j \in 1..Len(s) \/ j = i
      BY <1>2, <2>1
    <3> QED
      BY <1>2, <1>5, <2>1, <2>2, <3>1
  <2> QED
    BY <1>1, <1>5, <2>1, <2>3
<1>6. \A i \in 1..(Len(s) + 1) : t[i].t = "post" =>
          /\ t[i].o \notin live["server"]
          /\ \A j \in 1..i : ~(t[j].t = "start" /\ t[j].o = t[i].o)
    BY <1>4, <1>5
<1> QED
    BY <1>2, <1>3, <1>6 DEF Posted

\* It stays one when the packet before it is taken.
LEMMA PostedTake ==
    ASSUME Types, Posted, wire["client"] # <<>>, NEW k,
           k = Head(wire["client"]), wire'["client"] = Tail(wire["client"]),
           \/ live'["server"] \subseteq live["server"]
           \/ /\ live'["server"] = live["server"] \cup {k.o}
              /\ k.t = "start"
    PROVE  Posted'
<1>1. PICK s \in Seq(Packet) : s = wire["client"] /\ s # <<>>
    BY DEF Types, End
<1>2. PICK t : t = Tail(s)
    OBVIOUS
<1>3. /\ Len(s) \in Nat /\ DOMAIN s = 1..Len(s) /\ DOMAIN t = 1..(Len(s) - 1)
      /\ k = s[1] /\ \A i \in 1..(Len(s) - 1) : t[i] = s[i + 1]
    BY <1>1, <1>2, TailAt
<1>4. wire'["client"] = t
    BY <1>1, <1>2
<1>5. ASSUME NEW i \in 1..(Len(s) - 1), t[i].t = "post"
      PROVE  /\ t[i].o \notin live'["server"]
             /\ \A j \in 1..i : ~(t[j].t = "start" /\ t[j].o = t[i].o)
  <2>1. i + 1 \in 1..Len(s) /\ s[i + 1] = t[i]
    BY <1>3
  <2>2. /\ t[i].o \notin live["server"]
        /\ \A j \in 1..(i + 1) : ~(s[j].t = "start" /\ s[j].o = t[i].o)
    BY <1>1, <1>3, <1>5, <2>1 DEF Posted
  <2>3. ~(k.t = "start" /\ k.o = t[i].o)
    BY <1>3, <2>2
  <2>4. ASSUME NEW j \in 1..i PROVE ~(t[j].t = "start" /\ t[j].o = t[i].o)
    <3>1. j + 1 \in 1..(i + 1) /\ t[j] = s[j + 1]
      BY <1>3
    <3> QED
      BY <2>2, <3>1
  <2> QED
    BY <2>2, <2>3, <2>4
<1> QED
    BY <1>3, <1>4, <1>5 DEF Posted

\* Everything stays covered by what a routine does.
LEMMA WorkerCover ==
    ASSUME Ordered, ~Endless, Cover, NEW w \in Worker, worker(w)
    PROVE  Cover'
<1>1. Types /\ Flow /\ Packets /\ Streams
    BY DEF Ordered
<1>2. /\ options' = options /\ options \in Options /\ pStrms \in Seq(Opaque)
    BY <1>1 DEF worker, RangeNext, RangeEnds, sendpost, sendreq, Requested,
           doStream, doStreamTx, base, Types
<1>3. Worker' = Worker
    BY <1>2 DEF Worker
<1>4. ASSUME wk'[w].pc \notin {"bye", "done"} PROVE Cover'
    BY <1>3, <1>4, BusyCover DEF Busy
<1>5. /\ 0 \in 0..options.stream /\ options.stream \in 0..options.stream
      /\ options.do \in Do
    BY <1>2, OptionType
<1>6. CASE RangeEnds(w)
  <2>1. Goto(w, "whoami") /\ "whoami" \in Pc
    BY <1>6 DEF RangeEnds, Pc
  <2>2. wk'[w].pc = "whoami"
    BY <1>1, <2>1, GotoType
  <2> QED
    BY <1>4, <2>2
<1>7. CASE RangeNext(w)
  <2> DEFINE pc == IF options.prog = "perf" THEN Head(doch[w])
                   ELSE exampleWorker(Head(doch[w]))
  <2>1. doch[w] \in Seq({doit(options.do)}) /\ doch[w] # <<>> /\ Goto(w, pc)
    BY <1>1, <1>7 DEF RangeNext, Types
  <2>2. Head(doch[w]) = doit(options.do)
    BY <2>1
  <2>3. pc \in Pc /\ pc \notin {"bye", "done"}
    BY <1>5, <2>2 DEF exampleWorker, doit, Do, Pc
  <2> HIDE DEF pc
  <2>4. wk'[w].pc = pc
    BY <1>1, <2>1, <2>3, GotoType
  <2> QED
    BY <1>4, <2>3, <2>4
<1>8. CASE sendpost(w)
  <2>1. Goto(w, "range") /\ "range" \in Pc
    BY <1>8 DEF sendpost, Pc
  <2>2. wk'[w].pc = "range"
    BY <1>1, <2>1, GotoType
  <2> QED
    BY <1>4, <2>2
<1>9. CASE sendreq(w)
  <2> DEFINE pc == IF wk[w].pc = "whoami" THEN "bye" ELSE "wait"
  <2>1. Open(w, pc, 0) /\ pc \in Pc /\ pc \in {"bye", "wait"}
    BY <1>9 DEF sendreq, Pc
  <2>2. PICK k \in Packet :
            /\ wire' = [wire EXCEPT !["client"] = Append(@, k)]
            /\ k.t = "0x81" /\ k.o = Head(pStrms)
    <3>1. PICK id \in {"whoami", "msgReqsp"} :
              Send("client", "0x81", id, Head(pStrms), "txreq")
      BY <1>9 DEF sendreq
    <3>2. Head(pStrms) \in Opaque
      BY <1>2, <2>1 DEF Open
    <3>3. [t |-> "0x81", id |-> id, o |-> Head(pStrms)] \in Packet
      BY <3>2 DEF Packet
    <3> QED
      BY <3>1, <3>3 DEF Send
  <2> HIDE DEF pc
  <2>3. wk'[w].pc = pc /\ wk'[w].o = Head(pStrms)
    BY <1>1, <1>5, <2>1, OpenType
  <2>4. CASE pc = "bye"
    <3>1. Bye(w)' /\ k.o = wk'[w].o
      BY <2>2, <2>3, <2>4 DEF Bye
    <3> QED
      BY <1>1, <1>2, <2>2, <3>1, ByeCover
  <2>5. CASE pc = "wait"
    BY <1>4, <2>3, <2>5
  <2> QED
    BY <2>1, <2>4, <2>5
<1>10. CASE Requested(w)
  <2>1. CASE wk[w].pc = "bye"
    BY <1>1, <1>10, <2>1, DoneCover
  <2>2. CASE wk[w].pc # "bye"
    <3>1. Goto(w, "range") /\ "range" \in Pc
      BY <1>10, <2>2 DEF Requested, Pc
    <3>2. wk'[w].pc = "range"
      BY <1>1, <3>1, GotoType
    <3> QED
      BY <1>4, <3>2
  <2> QED
    BY <2>1, <2>2
<1>11. CASE doStream(w)
  <2>1. PICK pc \in Pc : Open(w, pc, options.stream)
                         /\ pc \notin {"bye", "done"}
    BY <1>11 DEF doStream, Pc
  <2>2. wk'[w].pc = pc
    BY <1>1, <1>5, <2>1, OpenType
  <2> QED
    BY <1>4, <2>1, <2>2
<1>12. CASE doStreamTx(w)
  <2>1. CASE Goto(w, "range")
    <3>1. "range" \in Pc
      BY DEF Pc
    <3>2. wk'[w].pc = "range"
      BY <1>1, <2>1, <3>1, GotoType
    <3> QED
      BY <1>4, <3>2
  <2>2. CASE wk' = [wk EXCEPT ![w].left = @ - 1]
    <3>1. wk'[w].pc = wk[w].pc /\ wk[w].pc = "streaming"
      BY <1>1, <1>12, <2>2 DEF Types, Routine, doStreamTx
    <3> QED
      BY <1>4, <3>1
  <2> QED
    BY <1>12, <2>1, <2>2 DEF doStreamTx
<1> QED
    BY <1>6, <1>7, <1>8, <1>9, <1>10, <1>11, <1>12 DEF worker

\* Nothing of it changes.
LEMMA SameCover ==
    ASSUME Cover, options' = options, wk' = wk, wire' = wire
    PROVE  Cover'
<1>1. Worker' = Worker
    BY DEF Worker
<1>2. \A w : /\ Busy(w)' <=> Busy(w)
             /\ Bye(w)' <=> Bye(w)
             /\ \A e, i : Ask(e, i, w)' <=> Ask(e, i, w)
    BY DEF Busy, Bye, Ask
<1> QED
    BY <1>1, <1>2 DEF Cover

\* The wire of the client, when the server takes a packet or answers it.
LEMMA ServerWire ==
    ASSUME Types, wire["client"] # <<>>
    PROVE  /\ wire' = Taken("server") =>
                  /\ wire'["client"] = Tail(wire["client"])
                  /\ wire'["server"] = wire["server"]
           /\ \A q : wire' = [Taken("server") EXCEPT !["server"]
                                  = Append(@, q)] =>
                  /\ wire'["client"] = Tail(wire["client"])
                  /\ wire'["server"] = Append(wire["server"], q)
<1>1. wire \in [End -> Seq(Packet)]
    BY DEF Types
<1>2. ASSUME wire' = Taken("server")
      PROVE  /\ wire'["client"] = Tail(wire["client"])
             /\ wire'["server"] = wire["server"]
    BY <1>1, <1>2 DEF Taken, Other, End
<1>3. ASSUME NEW q,
             wire' = [Taken("server") EXCEPT !["server"] = Append(@, q)]
      PROVE  /\ wire'["client"] = Tail(wire["client"])
             /\ wire'["server"] = Append(wire["server"], q)
    BY <1>1, <1>3 DEF Taken, Other, End
<1> QED
    BY <1>2, <1>3

\* The wires when the client takes a packet.
LEMMA ClientWire ==
    ASSUME Types, wire' = Taken("client")
    PROVE  /\ wire'["server"] = Tail(wire["server"])
           /\ wire'["client"] = wire["client"]
<1>1. wire \in [End -> Seq(Packet)]
    BY DEF Types
<1> QED
    BY <1>1 DEF Taken, Other, End

\* Everything stays covered by what syncRx() does.
LEMMA SyncRxCover ==
    ASSUME Ordered, ~Endless, Cover, Posted, NEW e \in End, syncRx(e)
    PROVE  Cover'
<1>1. Types /\ Flow /\ Packets /\ Streams
    BY DEF Ordered
<1>2. options' = options /\ wk' = wk
    BY DEF syncRx, handlepkt, handlePost, handleStream, handleRequest,
           handleStart, handleDuplicate, handleFinishServer, handleResponse,
           handleFinishClient, Count, streamupdate, client, base
<1>3. CASE Count(e) \/ streamupdate
  <2>1. wire' = wire
    BY <1>3 DEF Count, streamupdate
  <2> QED
    BY <1>2, <2>1, SameCover
<1>4. ASSUME wire' = Taken("client"), wire["server"] # <<>> PROVE Cover'
    BY <1>1, <1>2, <1>4, ClientWire, ClientCover
<1>5. PICK k : k = Head(wire["client"])
    OBVIOUS
<1>6. ASSUME wire["client"] # <<>> PROVE k \in Packet /\ k \in FromClient
  <2>1. "client" \in End
    BY DEF End
  <2> QED
    BY <1>1, <1>5, <1>6, <2>1, NextPacket
<1>7. ASSUME wire' = Taken("server"), wire["client"] # <<>>, k.t # "0x81"
      PROVE  Cover'
  <2>1. /\ wire'["client"] = Tail(wire["client"])
        /\ wire'["server"] = wire["server"]
    BY <1>1, <1>7, ServerWire
  <2> QED
    BY <1>1, <1>2, <1>5, <1>6, <1>7, <2>1, ServerCover
<1>8. ASSUME NEW t \in {"0x81", "finish"}, NEW id \in {k.id, Nothing}, NEW c,
             wire["client"] # <<>>, k.t = t, Answers(t, id, k.o, c)
      PROVE  Cover'
  <2>1. k \in Packet /\ k.id # "heartbeat"
    BY <1>6, <1>8 DEF FromClient
  <2> DEFINE q == [t |-> t, id |-> id, o |-> k.o]
  <2>2. q \in Packet /\ q.t = k.t /\ q.o = k.o
    BY <1>8, <2>1 DEF Packet
  <2>3. wire' = [Taken("server") EXCEPT !["server"] = Append(@, q)]
    BY <1>8 DEF Answers
  <2> HIDE DEF q
  <2>4. /\ wire'["client"] = Tail(wire["client"])
        /\ wire'["server"] = Append(wire["server"], q)
    BY <1>1, <1>8, <2>3, ServerWire
  <2> QED
    BY <1>1, <1>2, <1>5, <1>8, <2>1, <2>2, <2>4, ServerCover
<1>9. ASSUME NEW f \in End, handlePost(f) \/ handleStream(f) PROVE Cover'
  <2>1. CASE f = "client"
    <3>1. wire' = Taken("client") /\ wire["server"] # <<>>
      BY <1>9, <2>1 DEF handlePost, handleStream, Takes, Other
    <3> QED
      BY <1>4, <3>1
  <2>2. CASE f = "server"
    <3>1. /\ wire' = Taken("server") /\ wire["client"] # <<>>
          /\ k.t # "0x81"
      BY <1>5, <1>9, <2>2 DEF handlePost, handleStream, Takes, Other
    <3> QED
      BY <1>7, <3>1
  <2> QED
    BY <2>1, <2>2 DEF End
<1>10. CASE handleStart
  <2>1. wire' = Taken("server") /\ wire["client"] # <<>> /\ k.t # "0x81"
    BY <1>5, <1>10 DEF handleStart, Takes, Other
  <2> QED
    BY <1>7, <2>1
<1>11. CASE handleDuplicate
  <2>1. /\ k.o \in live["server"] /\ wire["client"] # <<>>
        /\ k.t \in {"post", "0x81", "start"}
    BY <1>5, <1>11 DEF handleDuplicate, Takes, Other
  <2> QED
    BY <1>1, <1>5, <2>1, ServerFinds
<1>12. CASE handleRequest
  <2>1. /\ wire["client"] # <<>> /\ k.t = "0x81"
        /\ Answers("0x81", k.id, k.o, "txresp")
    BY <1>5, <1>12 DEF handleRequest, Takes, Other
  <2> QED
    BY <1>8, <2>1
<1>13. CASE handleFinishServer
  <2>1. /\ wire["client"] # <<>> /\ k.t = "finish"
        /\ k.o \in live["server"] => Answers("finish", Nothing, k.o, "txfin")
    BY <1>5, <1>13 DEF handleFinishServer, Takes, Other, Closes
  <2>2. k.o \in live["server"]
    BY <1>1, <1>5, <2>1, ServerFinds
  <2> QED
    BY <1>8, <2>1, <2>2
<1>14. CASE handleResponse \/ handleFinishClient
  <2>1. wire' = Taken("client") /\ wire["server"] # <<>>
    BY <1>14 DEF handleResponse, handleFinishClient, Takes, Other
  <2> QED
    BY <1>4, <2>1
<1> QED
    BY <1>3, <1>9, <1>10, <1>11, <1>12, <1>13, <1>14 DEF syncRx, handlepkt

\* Everything stays covered.
LEMMA NextCover ==
    ASSUME Ordered, ~Endless, Cover, Posted, [Next]_vars
    PROVE  Cover'
<1>1. Types /\ Flow /\ Packets /\ Streams
    BY DEF Ordered
<1>2. CASE Feed \/ FeederCloses \/ Close \/ addCounts \/ UNCHANGED vars
  <2>1. options' = options /\ wk' = wk /\ wire' = wire
    BY <1>2 DEF Feed, FeederCloses, Close, addCounts, vars, client, base
  <2> QED
    BY <2>1, SameCover
<1>3. ASSUME NEW e \in End, Heartbeat(e) PROVE Cover'
  <2>1. options' = options /\ wk' = wk
    BY <1>3 DEF Heartbeat, client, base
  <2>2. PICK o \in Opaque \cup {0} : Send(e, "post", "heartbeat", o, "txpost")
    <3>1. pStrms # <<>> => Head(pStrms) \in Opaque
      BY <1>1 DEF Types
    <3> QED
      BY <1>3, <3>1 DEF Heartbeat
  <2> DEFINE k == [t |-> "post", id |-> "heartbeat", o |-> o]
  <2>3. k \in Packet /\ k.id = "heartbeat"
    BY NewPacket
  <2>4. wire' = [wire EXCEPT ![e] = Append(@, k)]
    BY <2>2 DEF Send
  <2> HIDE DEF k
  <2>5. /\ wire'[e] = Append(wire[e], k)
        /\ \A f \in End : f # e => wire'[f] = wire[f]
    BY <1>1, <2>3, <2>4, SendWire DEF Types
  <2> QED
    BY <1>1, <2>1, <2>3, <2>5, BeatCover
<1>4. ASSUME NEW x \in senders, Sender(x) PROVE Cover'
    BY <1>1, <1>4, NoSender
<1> QED
    BY <1>2, <1>3, <1>4, WorkerCover, SyncRxCover DEF Next

\* A stream of the pool has nothing under way.
LEMMA FreeHead ==
    ASSUME Types, Streams, ~Endless, pStrms # <<>>, NEW h, h = Head(pStrms)
    PROVE  /\ h \in Opaque /\ h \notin live["server"]
           /\ \A j \in DOMAIN wire["client"] :
                  ~(wire["client"][j].t = "start" /\ wire["client"][j].o = h)
<1>1. pStrms \in Seq(Opaque) /\ "client" \in End
    BY DEF Types, End
<1>2. h \in Opaque /\ h \in ToSet(pStrms)
    BY <1>1, TailSet
<1> DEFINE v == View(h)
<1>3. /\ Good(v, Endless) /\ v.pool
      /\ v.ls <=> h \in live["server"]
      /\ v.c = Keep(OnStream(h), wire["client"])
    BY <1>2, ViewIs DEF Streams
<1> HIDE DEF v
<1>4. ~v.ls /\ v.c = <<>>
    BY <1>3 DEF Good, Free, Asked, Back, Streamed, Received
<1>5. ASSUME NEW j \in DOMAIN wire["client"], wire["client"][j].t = "start",
             wire["client"][j].o = h
      PROVE  FALSE
  <2>1. wire["client"] \in Seq(Message)
    BY <1>1, ViewType
  <2>2. wire["client"][j] \in OnStream(h)
    BY <1>5, <2>1 DEF OnStream
  <2> QED
    BY <1>3, <1>4, <2>1, <2>2, KeepHas
<1> QED
    BY <1>2, <1>3, <1>4, <1>5

\* No post runs into a stream of its opaque.
LEMMA NextPosted ==
    ASSUME Ordered, ~Endless, Posted, [Next]_vars
    PROVE  Posted'
<1>1. Types /\ Flow /\ Packets /\ Streams
    BY DEF Ordered
<1>2. "client" \in End /\ "server" \in End /\ pStrms \in Seq(Opaque)
    BY <1>1 DEF Types, End
<1>3. ASSUME wire' = wire, live'["server"] = live["server"] PROVE Posted'
    BY <1>3 DEF Posted
<1>4. ASSUME NEW t \in {"post", "0x81", "start", "stream", "finish"},
             NEW id \in {"msgPost", "msgReqsp", "msgStreamRx", "msgStreamTx",
                         "whoami", "heartbeat", Nothing},
             NEW o \in Opaque, NEW c, Send("client", t, id, o, c),
             live'["server"] = live["server"],
             t = "post" => pStrms # <<>> /\ o = Head(pStrms)
      PROVE  Posted'
  <2> DEFINE k == [t |-> t, id |-> id, o |-> o]
  <2>1. k \in Packet /\ k.t = t /\ k.o = o
    BY NewPacket
  <2>2. wire' = [wire EXCEPT !["client"] = Append(@, k)]
    BY <1>4 DEF Send
  <2> HIDE DEF k
  <2>3. wire'["client"] = Append(wire["client"], k)
    BY <1>1, <1>2, <2>1, <2>2, SendWire DEF Types
  <2>4. k.t = "post" => /\ k.o \notin live["server"]
                        /\ \A j \in DOMAIN wire["client"] :
                               ~ /\ wire["client"][j].t = "start"
                                 /\ wire["client"][j].o = k.o
    BY <1>1, <1>4, <2>1, FreeHead
  <2> QED
    BY <1>1, <1>4, <2>1, <2>3, <2>4, PostedSend
<1>5. pStrms # <<>> => Head(pStrms) \in Opaque
    BY <1>2
<1>6. CASE Feed \/ FeederCloses \/ Close \/ addCounts \/ UNCHANGED vars
    BY <1>3, <1>6 DEF Feed, FeederCloses, Close, addCounts, vars, strms
<1>7. ASSUME NEW w \in Worker, worker(w) PROVE Posted'
  <2>1. CASE RangeNext(w) \/ RangeEnds(w) \/ Requested(w)
    BY <1>3, <2>1 DEF RangeNext, RangeEnds, Requested, strms
  <2>2. CASE sendpost(w)
    BY <1>4, <1>5, <2>2 DEF sendpost
  <2>3. CASE sendreq(w) \/ doStream(w)
    <3>1. live'["server"] = live["server"] /\ Head(pStrms) \in Opaque
      BY <1>1, <1>5, <2>3 DEF sendreq, doStream, Open, Types, End
    <3>2. \/ Send("client", "0x81", "whoami", Head(pStrms), "txreq")
          \/ Send("client", "0x81", "msgReqsp", Head(pStrms), "txreq")
          \/ Send("client", "start", "msgStreamRx", Head(pStrms), "txstart")
          \/ Send("client", "start", "msgStreamTx", Head(pStrms), "txstart")
      BY <2>3 DEF sendreq, doStream
    <3> QED
      BY <1>4, <3>1, <3>2
  <2>4. CASE doStreamTx(w)
    <3>1. wk[w].o \in Opaque /\ live' = live
      BY <1>1, <2>4 DEF Flow, doStreamTx, HoldPc, strms
    <3>2. \/ Send("client", "stream", "msgStreamRx", wk[w].o, "txstream")
          \/ Send("client", "finish", Nothing, wk[w].o, "txfin")
      BY <2>4 DEF doStreamTx
    <3> QED
      BY <1>4, <3>1, <3>2
  <2> QED
    BY <1>7, <2>1, <2>2, <2>3, <2>4 DEF worker
<1>8. ASSUME NEW e \in End, Heartbeat(e) PROVE Posted'
  <2>1. live' = live
    BY <1>8 DEF Heartbeat
  <2>2. CASE e = "client"
    BY <1>4, <1>5, <1>8, <2>1, <2>2 DEF Heartbeat
  <2>3. CASE e = "server"
    <3>1. Send("server", "post", "heartbeat", 0, "txpost")
      BY <1>8, <2>3 DEF Heartbeat
    <3>2. wire'["client"] = wire["client"]
      BY <1>1, <3>1 DEF Send, Types, End
    <3> QED
      BY <2>1, <3>2 DEF Posted
  <2> QED
    BY <2>2, <2>3 DEF End
<1>9. ASSUME NEW x \in senders, Sender(x) PROVE Posted'
    BY <1>1, <1>9, NoSender
<1>10. ASSUME wire' = Taken("client"), live'["server"] = live["server"]
       PROVE  Posted'
  <2>1. wire'["client"] = wire["client"]
    BY <1>1, <1>10, ClientWire
  <2> QED
    BY <1>10, <2>1 DEF Posted
<1>11. PICK k : k = Head(wire["client"])
    OBVIOUS
<1>12. ASSUME wire["client"] # <<>>,
              \/ wire' = Taken("server")
              \/ \E q : wire' = [Taken("server") EXCEPT !["server"]
                                     = Append(@, q)],
              \/ live'["server"] \subseteq live["server"]
              \/ /\ live'["server"] = live["server"] \cup {k.o}
                 /\ k.t = "start"
       PROVE  Posted'
  <2>1. wire'["client"] = Tail(wire["client"])
    BY <1>1, <1>12, ServerWire
  <2> QED
    BY <1>1, <1>11, <1>12, <2>1, PostedTake
<1>13. ASSUME NEW e \in End, syncRx(e) PROVE Posted'
  <2>1. CASE Count(e) \/ streamupdate
    <3>1. live'["server"] = live["server"] /\ wire' = wire
      BY <1>1, <2>1 DEF Count, streamupdate, Types, End, strms
    <3> QED
      BY <1>3, <3>1
  <2>2. ASSUME NEW f \in End, handlePost(f) \/ handleStream(f) PROVE Posted'
    <3>1. live' = live /\ wire' = Taken(f) /\ wire[Other(f)] # <<>>
      BY <2>2 DEF handlePost, handleStream, Takes, strms
    <3>2. CASE f = "client"
      BY <1>10, <3>1, <3>2
    <3>3. CASE f = "server"
      BY <1>12, <3>1, <3>3 DEF Other
    <3> QED
      BY <3>2, <3>3 DEF End
  <2>3. CASE handleResponse \/ handleFinishClient
    <3>1. live'["server"] = live["server"] /\ wire' = Taken("client")
      BY <1>1, <2>3 DEF handleResponse, handleFinishClient, Types, End, strms
    <3> QED
      BY <1>10, <3>1
  <2>4. CASE handleRequest \/ handleDuplicate
    <3>1. live' = live /\ wire["client"] # <<>>
      BY <2>4 DEF handleRequest, handleDuplicate, Takes, Other, strms
    <3>2. \/ wire' = Taken("server")
          \/ \E q : wire' = [Taken("server") EXCEPT !["server"]
                                 = Append(@, q)]
      BY <2>4 DEF handleRequest, handleDuplicate, Answers
    <3> QED
      BY <1>12, <3>1, <3>2
  <2>5. CASE handleStart
    <3>1. /\ wire["client"] # <<>> /\ wire' = Taken("server")
          /\ k.t = "start"
          /\ live' = [live EXCEPT !["server"] = @ \cup {k.o}]
      BY <1>11, <2>5 DEF handleStart, Takes, Other
    <3>2. live'["server"] = live["server"] \cup {k.o}
      BY <1>1, <3>1 DEF Types, End
    <3> QED
      BY <1>12, <3>1, <3>2
  <2>6. CASE handleFinishServer
    <3>1. /\ wire["client"] # <<>>
          /\ live' = [live EXCEPT !["server"] = @ \ {k.o}]
      BY <1>11, <2>6 DEF handleFinishServer, Takes, Other
    <3>2. live'["server"] \subseteq live["server"]
      BY <1>1, <3>1 DEF Types, End
    <3>3. \/ wire' = Taken("server")
          \/ \E q : wire' = [Taken("server") EXCEPT !["server"]
                                 = Append(@, q)]
      BY <2>6 DEF handleFinishServer, Closes, Answers
    <3> QED
      BY <1>12, <3>1, <3>2, <3>3
  <2> QED
    BY <1>13, <2>1, <2>2, <2>3, <2>4, <2>5, <2>6 DEF syncRx, handlepkt
<1> QED
    BY <1>6, <1>7, <1>8, <1>9, <1>13 DEF Next

-----------------------------------------------------------------------------
(* Closing. *)

\* What is inductive, with the options that the benchmark ends with.
Calm == Ordered /\ (~Endless => Cover /\ Posted)

\* It holds at first.
LEMMA InitCalm == Init => Calm
<1> SUFFICES ASSUME Init PROVE Calm
    OBVIOUS
<1>1. Ordered
    BY InitOrdered
<1>2. wire["client"] = <<>> /\ wire["server"] = <<>>
    BY DEF Init, End
<1>3. DOMAIN wire["client"] = {} /\ DOMAIN wire["server"] = {}
    BY <1>2
<1>4. Cover /\ Posted
    BY <1>3 DEF Cover, Posted
<1> QED
    BY <1>1, <1>4 DEF Calm

\* Every step preserves it.
LEMMA NextCalm ==
    ASSUME Calm, [Next]_vars
    PROVE  Calm'
<1>1. Ordered'
    BY NextOrdered DEF Calm
<1>2. options' = options
    BY NextOptions DEF vars, client, base
<1>3. Endless' <=> Endless
    BY <1>2 DEF Endless
<1>4. ~Endless => Cover' /\ Posted'
    BY NextCover, NextPosted DEF Calm
<1> QED
    BY <1>1, <1>3, <1>4 DEF Calm

\* A routine that receives never ends.
LEMMA EndlessWaits ==
    ASSUME Types, Flow, main # "wait"
    PROVE  ~Endless /\ shut /\ fed = options.count
           /\ \A w \in Worker : wk[w].pc = "done" /\ doch[w] = <<>>
<1>1. /\ 1 \in Worker /\ options.count \in Nat \ {0}
    BY OptionType DEF Types
<1>2. \A w \in Worker : wk[w].pc = "done" /\ shut /\ doch[w] = <<>>
    BY DEF Flow
<1>3. shut /\ fed = options.count
    BY <1>1, <1>2 DEF Flow
<1>4. fed > 0
    BY <1>1, <1>3
<1>5. wk[1].pc = "done" /\ doch[1] = <<>>
    BY <1>1, <1>2
<1>6. ~Endless
    BY <1>4, <1>5 DEF Flow
<1> QED
    BY <1>2, <1>3, <1>6

\* What is left when every routine is done.
LEMMA CalmCloses == Calm => CloseLosesNothing
<1> SUFFICES ASSUME Calm, main # "wait"
             PROVE  /\ \A e \in End : \A i \in DOMAIN wire[e] :
                           wire[e][i].id = "heartbeat"
                    /\ senders = {}
                    /\ live["server"] = {}
                    /\ live["client"] \subseteq returning
    BY DEF CloseLosesNothing
<1>1. Types /\ Flow /\ Packets /\ Streams
    BY DEF Calm, Ordered
<1>2. ~Endless /\ \A w \in Worker : wk[w].pc = "done"
    BY <1>1, EndlessWaits
<1>3. Cover
    BY <1>2 DEF Calm
<1>4. \A e \in End : \A i \in DOMAIN wire[e] : wire[e][i].id = "heartbeat"
    BY <1>2, <1>3 DEF Cover, Busy, Bye, End
<1>5. senders = {}
    BY <1>1, <1>2, NoSender
<1>6. ASSUME NEW o \in Opaque, NEW e \in End
      PROVE  Keep(OnStream(o), wire[e]) = <<>>
  <2>1. wire[e] \in Seq(Message)
    BY <1>1, ViewType
  <2>2. ASSUME NEW i \in DOMAIN wire[e] PROVE wire[e][i].t = "post"
    <3>1. wire[e] \in Seq(IF e = "client" THEN FromClient ELSE FromServer)
      BY <1>1 DEF Packets, End
    <3>2. wire[e][i] \in IF e = "client" THEN FromClient ELSE FromServer
      BY <2>2, <3>1
    <3> QED
      BY <1>4, <3>2 DEF FromClient, FromServer
  <2>3. \A i \in DOMAIN wire[e] : wire[e][i] \notin OnStream(o)
    BY <2>2 DEF OnStream
  <2> QED
    BY <2>1, <2>3, KeepNone
<1>7. ASSUME NEW o \in Opaque
      PROVE  /\ o \notin live["server"]
             /\ o \in live["client"] => o \in returning
  <2> DEFINE v == View(o)
  <2>1. \A x \in Worker : ~Holds(x, o)
    BY <1>2 DEF Holds, HoldPc
  <2>2. Hold(o) = {}
    BY <2>1, HoldNone
  <2>3. /\ Good(v, Endless) /\ v.hold = {} /\ v.c = <<>> /\ v.s = <<>>
        /\ v.ls <=> o \in live["server"]
        /\ v.lc <=> o \in live["client"]
        /\ v.ret <=> o \in returning
    BY <1>1, <1>6, <2>2, ViewIs DEF Streams, End
  <2> HIDE DEF v
  <2>4. ~Ending(<<>>) /\ ~Whole(<<>>) /\ ~One(<<>>, "finish")
    BY DEF Ending, Whole, One
  <2>5. ~Streamed(v, Endless)
    BY <2>3, <2>4 DEF Streamed
  <2>6. Free(v, Endless) \/ Back(v, Endless)
    BY <1>2, <2>3, <2>5 DEF Good, Asked, Received
  <2>7. ~v.ls /\ (v.lc => v.ret)
    BY <1>2, <2>6 DEF Free, Back
  <2> QED
    BY <2>3, <2>7
<1>8. live["server"] \subseteq Opaque /\ live["client"] \subseteq Opaque
    BY <1>1 DEF Types, End
<1> QED
    BY <1>4, <1>5, <1>7, <1>8

\* Closing loses nothing, for every set of options: when the routines of the
\* client are done and it closes its transport, the packets under way are
\* heartbeats only, and no stream is open at the server.
THEOREM ClosesClean == Spec => []CloseLosesNothing
<1>1. Init => Calm
    BY InitCalm
<1>2. Calm /\ [Next]_vars => Calm'
    BY NextCalm
<1>3. Calm => CloseLosesNothing
    BY CalmCloses
<1> QED
    BY <1>1, <1>2, <1>3, PTL DEF Spec

-----------------------------------------------------------------------------
(* Counting: what is received is what was sent. *)

\* The numbers of which Delivered and Issued speak.
LEMMA NumberTypes ==
    ASSUME Types, NEW e \in End
    PROVE  /\ \A k \in Counter : stat[e][k] \in Nat /\ Settled(e, k) \in Nat
           /\ \A t : Way(e, t) \in Nat
           /\ Len(wire[e]) \in Nat /\ nbeat[e] \in Nat
<1>1. /\ wire[e] \in Seq(Packet) /\ options \in Options
      /\ \A k \in Counter : stat[e][k] \in Nat
      /\ nbeat[e] \in 0..options.maxbeat
    BY DEF Types
<1>2. \A k \in Counter : Settled(e, k) \in Nat
    BY <1>1 DEF Settled
<1>3. ASSUME NEW t PROVE Way(e, t) \in Nat
  <2>1. Keep(Kind(t), wire[e]) \in Seq(Packet)
    BY <1>1, KeepType
  <2> QED
    BY <2>1 DEF Way
<1>4. nbeat[e] \in Nat
    BY <1>1, OptionType
<1> QED
    BY <1>1, <1>2, <1>3, <1>4

\* A packet is of one kind.
LEMMA KindIs ==
    ASSUME options \in Options, NEW k \in Packet, NEW t
    PROVE  k \in Kind(t) <=> k.t = t
BY PacketMessage DEF Kind

\* A packet more is on its way.
LEMMA SendWay ==
    ASSUME Types, NEW e \in End, NEW k \in Packet,
           wire' = [wire EXCEPT ![e] = Append(@, k)]
    PROVE  /\ \A f \in End : \A t :
                  Way(f, t)' = IF f = e /\ k.t = t THEN Way(f, t) + 1
                               ELSE Way(f, t)
           /\ Len(wire'[e]) = Len(wire[e]) + 1
           /\ \A f \in End : f # e => wire'[f] = wire[f]
<1>1. options \in Options /\ wire \in [End -> Seq(Packet)]
    BY DEF Types
<1>2. /\ wire'[e] = Append(wire[e], k)
      /\ \A f \in End : f # e => wire'[f] = wire[f]
      /\ \A M : Keep(M, wire'[e]) = IF k \in M
                                    THEN Append(Keep(M, wire[e]), k)
                                    ELSE Keep(M, wire[e])
    BY <1>1, SendWire
<1>3. ASSUME NEW t
      PROVE  Way(e, t)' = IF k.t = t THEN Way(e, t) + 1 ELSE Way(e, t)
  <2>1. Keep(Kind(t), wire[e]) \in Seq(Packet)
    BY <1>1, KeepType
  <2>2. Keep(Kind(t), wire'[e]) = IF k \in Kind(t)
                                  THEN Append(Keep(Kind(t), wire[e]), k)
                                  ELSE Keep(Kind(t), wire[e])
    BY <1>2, Zenon
  <2>3. k \in Kind(t) <=> k.t = t
    BY <1>1, KindIs
  <2>4. Len(Append(Keep(Kind(t), wire[e]), k))
            = Len(Keep(Kind(t), wire[e])) + 1
    BY <2>1
  <2>5. CASE k.t = t
    <3>1. Keep(Kind(t), wire'[e]) = Append(Keep(Kind(t), wire[e]), k)
      BY <2>2, <2>3, <2>5, Zenon
    <3> QED
      BY <2>4, <2>5, <3>1 DEF Way
  <2>6. CASE k.t # t
    <3>1. Keep(Kind(t), wire'[e]) = Keep(Kind(t), wire[e])
      BY <2>2, <2>3, <2>6, Zenon
    <3> QED
      BY <2>6, <3>1 DEF Way
  <2> QED
    BY <2>5, <2>6
<1>4. ASSUME NEW f \in End, f # e, NEW t PROVE Way(f, t)' = Way(f, t)
    BY <1>2, <1>4 DEF Way
<1>5. Len(wire'[e]) = Len(wire[e]) + 1
    BY <1>1, <1>2
<1> QED
    BY <1>2, <1>3, <1>4, <1>5

\* A packet less is on its way.
LEMMA TakeWay ==
    ASSUME Types, NEW e \in End, wire[e] # <<>>,
           wire' = [wire EXCEPT ![e] = Tail(@)]
    PROVE  /\ \A f \in End : \A t :
                  Way(f, t) = IF f = e /\ Head(wire[e]).t = t
                              THEN Way(f, t)' + 1 ELSE Way(f, t)'
           /\ Len(wire[e]) = Len(wire'[e]) + 1
           /\ \A f \in End : f # e => wire'[f] = wire[f]
<1>1. options \in Options /\ wire \in [End -> Seq(Packet)]
    BY DEF Types
<1>2. /\ wire'[e] = Tail(wire[e]) /\ Head(wire[e]) \in Packet
      /\ \A f \in End : f # e => wire'[f] = wire[f]
      /\ wire' \in [End -> Seq(Packet)]
    BY <1>1, TakeWire
<1>3. ASSUME NEW t
      PROVE  Way(e, t) = IF Head(wire[e]).t = t THEN Way(e, t)' + 1
                         ELSE Way(e, t)'
  <2>1. Keep(Kind(t), wire'[e]) \in Seq(Packet)
    BY <1>2, KeepType
  <2>2. Keep(Kind(t), wire[e]) = IF Head(wire[e]) \in Kind(t)
                          THEN <<Head(wire[e])>> \o Keep(Kind(t), wire'[e])
                          ELSE Keep(Kind(t), wire'[e])
    BY <1>1, TakeWire
  <2>3. Head(wire[e]) \in Kind(t) <=> Head(wire[e]).t = t
    BY <1>1, <1>2, KindIs
  <2>4. Len(<<Head(wire[e])>> \o Keep(Kind(t), wire'[e]))
            = Len(Keep(Kind(t), wire'[e])) + 1
    BY <1>2, <2>1
  <2> QED
    BY <2>2, <2>3, <2>4 DEF Way
<1>4. ASSUME NEW f \in End, f # e, NEW t PROVE Way(f, t)' = Way(f, t)
    BY <1>2, <1>4 DEF Way
<1>5. Len(wire[e]) = Len(wire'[e]) + 1
    BY <1>1, <1>2
<1> QED
    BY <1>2, <1>3, <1>4, <1>5

\* The server takes a packet and answers with k.
LEMMA AnswerWay ==
    ASSUME Types, NEW k \in Packet, wire["client"] # <<>>,
           wire' = [Taken("server") EXCEPT !["server"] = Append(@, k)]
    PROVE  /\ \A t : /\ Way("client", t) = IF Head(wire["client"]).t = t
                                           THEN Way("client", t)' + 1
                                           ELSE Way("client", t)'
                     /\ Way("server", t)' = IF k.t = t
                                            THEN Way("server", t) + 1
                                            ELSE Way("server", t)
           /\ Len(wire["client"]) = Len(wire'["client"]) + 1
<1>1. options \in Options /\ wire \in [End -> Seq(Packet)]
      /\ wire["client"] \in Seq(Packet) /\ wire["server"] \in Seq(Packet)
    BY DEF Types, End
<1>2. /\ wire'["client"] = Tail(wire["client"])
      /\ Head(wire["client"]) \in Packet
      /\ \A M : Keep(M, wire'["server"]) = IF k \in M
                 THEN Append(Keep(M, wire["server"]), k)
                 ELSE Keep(M, wire["server"])
    BY <1>1, AnswerWire
<1>3. ASSUME NEW t
      PROVE  Way("client", t) = IF Head(wire["client"]).t = t
                                THEN Way("client", t)' + 1
                                ELSE Way("client", t)'
  <2> DEFINE s == Keep(Kind(t), wire'["client"])
             h == Head(wire["client"])
  <2>1. Tail(wire["client"]) \in Seq(Packet)
    BY <1>1
  <2>2. s \in Seq(Packet)
    BY <1>2, <2>1, KeepType
  <2>3. Keep(Kind(t), wire["client"]) = IF h \in Kind(t) THEN <<h>> \o s
                                        ELSE s
    BY <1>1, AnswerWire
  <2>4. h \in Kind(t) <=> h.t = t
    BY <1>1, <1>2, KindIs
  <2>5. Len(<<h>> \o s) = Len(s) + 1
    BY <1>2, <2>2
  <2> QED
    BY <2>3, <2>4, <2>5 DEF Way
<1>4. ASSUME NEW t
      PROVE  Way("server", t)' = IF k.t = t THEN Way("server", t) + 1
                                 ELSE Way("server", t)
  <2>1. Keep(Kind(t), wire["server"]) \in Seq(Packet)
    BY <1>1, KeepType
  <2>2. Keep(Kind(t), wire'["server"]) = IF k \in Kind(t)
                                 THEN Append(Keep(Kind(t), wire["server"]), k)
                                 ELSE Keep(Kind(t), wire["server"])
    BY <1>2, Zenon
  <2>3. k \in Kind(t) <=> k.t = t
    BY <1>1, KindIs
  <2>4. Len(Append(Keep(Kind(t), wire["server"]), k))
            = Len(Keep(Kind(t), wire["server"])) + 1
    BY <2>1
  <2>5. CASE k.t = t
    <3>1. Keep(Kind(t), wire'["server"])
              = Append(Keep(Kind(t), wire["server"]), k)
      BY <2>2, <2>3, <2>5, Zenon
    <3> QED
      BY <2>4, <2>5, <3>1 DEF Way
  <2>6. CASE k.t # t
    <3>1. Keep(Kind(t), wire'["server"]) = Keep(Kind(t), wire["server"])
      BY <2>2, <2>3, <2>6, Zenon
    <3> QED
      BY <2>6, <3>1 DEF Way
  <2> QED
    BY <2>5, <2>6
<1>5. Len(wire["client"]) = Len(wire'["client"]) + 1
  <2>1. Len(Tail(wire["client"])) = Len(wire["client"]) - 1
    BY <1>1
  <2>2. Len(wire'["client"]) = Len(wire["client"]) - 1
    BY <1>2, <2>1, Zenon
  <2>3. Len(wire["client"]) \in Nat
    BY <1>1
  <2> QED
    BY <2>2, <2>3
<1> QED
    BY <1>3, <1>4, <1>5

\* A packet is counted when it is sent.
LEMMA SendSettled ==
    ASSUME Types, NEW e \in End, NEW k \in Counter, counting' = counting,
           stat' = [stat EXCEPT ![e][k] = @ + 1],
           NEW f \in End, NEW j \in Counter
    PROVE  /\ stat'[f][j] = IF f = e /\ j = k THEN stat[f][j] + 1
                            ELSE stat[f][j]
           /\ Settled(f, j)' = IF f = e /\ j = k THEN Settled(f, j) + 1
                               ELSE Settled(f, j)
<1>1. stat \in [End -> [Counter -> Nat]]
    BY DEF Types
<1>2. /\ stat'[f][j] = IF f = e /\ j = k THEN stat[f][j] + 1 ELSE stat[f][j]
      /\ stat[f][j] \in Nat
    BY <1>1
<1> QED
    BY <1>2 DEF Settled

\* A packet that is handled will be counted.
LEMMA TakeSettled ==
    ASSUME Types, NEW e \in End, NEW k \in Counter, counting[e] = Nothing,
           NEW f \in End, NEW j \in Counter, stat'[f][j] = stat[f][j],
           counting'[f] = IF f = e THEN k ELSE counting[f]
    PROVE  Settled(f, j)' = IF f = e /\ j = k THEN Settled(f, j) + 1
                            ELSE Settled(f, j)
<1>1. stat[f][j] \in Nat
    BY DEF Types
<1>2. j # Nothing
    BY DEF Counter, Nothing
<1> QED
    BY <1>1, <1>2 DEF Settled

\* Counting it afterwards makes no difference.
LEMMA CountSettled ==
    ASSUME Types, NEW e \in End, Count(e), NEW f \in End, NEW j \in Counter
    PROVE  /\ Settled(f, j)' = Settled(f, j)
           /\ j # counting[e] => stat'[f][j] = stat[f][j]
<1>1. /\ stat \in [End -> [Counter -> Nat]]
      /\ counting \in [End -> Counter \cup {Nothing}]
    BY DEF Types
<1>2. counting[e] \in Counter /\ j # Nothing
    BY <1>1 DEF Count, Counter, Nothing
<1>3. counting'[f] = IF f = e THEN Nothing ELSE counting[f]
    BY <1>1 DEF Count
<1>4. stat'[f][j] = IF f = e /\ j = counting[e] THEN stat[f][j] + 1
                    ELSE stat[f][j]
    BY <1>1, <1>2 DEF Count
<1>5. stat[f][j] \in Nat
    BY <1>1
<1> QED
    BY <1>2, <1>3, <1>4, <1>5 DEF Settled

\* No two frame types have the same counter.
LEMMA SentTypes ==
    /\ \A x \in Sent \cup Replied :
        x.tx \in Counter /\ x.tx \notin Rx /\ x.rx \in Rx
    /\ \A x, y \in Sent : /\ x.t = y.t <=> x.tx = y.tx
                          /\ x.t = y.t <=> x.rx = y.rx
    /\ \A x, y \in Replied : /\ x.t = y.t <=> x.tx = y.tx
                             /\ x.t = y.t <=> x.rx = y.rx
    /\ \A x \in Sent, y \in Replied : x.t = y.t <=> x.tx = y.tx
    /\ Rx \subseteq Counter
BY DEF Sent, Replied, Counter, Rx

\* What is counted as sent is on its way.
LEMMA DeliveredSend ==
    ASSUME Types, Delivered, NEW k \in Packet, counting' = counting,
           NEW x \in Sent, k.t = x.t,
           wire' = [wire EXCEPT !["client"] = Append(@, k)],
           stat' = [stat EXCEPT !["client"][x.tx] = @ + 1]
    PROVE  Delivered'
<1>1. "client" \in End /\ "server" \in End /\ "client" # "server"
    BY DEF End
<1>2. x.tx \in Counter /\ x.tx \notin Rx /\ Rx \subseteq Counter
    BY SentTypes
<1>3. \A f \in End : \A t :
          Way(f, t)' = IF f = "client" /\ k.t = t THEN Way(f, t) + 1
                       ELSE Way(f, t)
    BY <1>1, SendWay, ZenonT(60)
<1>4. \A f \in End : \A j \in Counter :
         /\ stat'[f][j] = IF f = "client" /\ j = x.tx THEN stat[f][j] + 1
                          ELSE stat[f][j]
         /\ Settled(f, j)' = IF f = "client" /\ j = x.tx
                             THEN Settled(f, j) + 1 ELSE Settled(f, j)
    BY <1>1, <1>2, SendSettled, Zenon
<1>5. \A f \in End : \A j \in Rx : Settled(f, j)' = Settled(f, j)
    BY <1>2, <1>4
<1>6. /\ \A f \in End : \A j \in Counter :
             stat[f][j] \in Nat /\ Settled(f, j) \in Nat
      /\ \A f \in End : \A t : Way(f, t) \in Nat
    BY <1>1, NumberTypes
<1>7. /\ \A f \in End : Settled(f, "mdrops")' = 0
      /\ \A f \in End : counting'[f] \in Rx \cup {Nothing}
    BY <1>5 DEF Delivered, Rx
<1>8. ASSUME NEW y \in Sent
      PROVE  Settled("server", y.rx)' + Way("client", y.t)'
                 = stat'["client"][y.tx]
  <2>1. /\ y.tx \in Counter /\ y.rx \in Counter /\ y.rx \in Rx
        /\ x.t = y.t <=> x.tx = y.tx
    BY SentTypes
  <2>2. /\ Settled("server", y.rx)' = Settled("server", y.rx)
        /\ Way("client", y.t)' = IF x.t = y.t THEN Way("client", y.t) + 1
                                 ELSE Way("client", y.t)
        /\ stat'["client"][y.tx] = IF x.t = y.t
                THEN stat["client"][y.tx] + 1 ELSE stat["client"][y.tx]
    BY <1>1, <1>3, <1>4, <1>5, <2>1
  <2>3. Settled("server", y.rx) + Way("client", y.t) = stat["client"][y.tx]
    BY DEF Delivered
  <2> QED
    BY <1>1, <1>6, <2>1, <2>2, <2>3
<1>9. ASSUME NEW y \in Replied
      PROVE  Settled("client", y.rx)' + Way("server", y.t)'
                 + Way("client", y.t)' = stat'["client"][y.tx]
  <2>1. /\ y.tx \in Counter /\ y.rx \in Counter /\ y.rx \in Rx
        /\ x.t = y.t <=> x.tx = y.tx
    BY SentTypes
  <2>2. /\ Settled("client", y.rx)' = Settled("client", y.rx)
        /\ Way("server", y.t)' = Way("server", y.t)
        /\ Way("client", y.t)' = IF x.t = y.t THEN Way("client", y.t) + 1
                                 ELSE Way("client", y.t)
        /\ stat'["client"][y.tx] = IF x.t = y.t
                THEN stat["client"][y.tx] + 1 ELSE stat["client"][y.tx]
    BY <1>1, <1>3, <1>4, <1>5, <2>1
  <2>3. Settled("client", y.rx) + Way("server", y.t) + Way("client", y.t)
            = stat["client"][y.tx]
    BY DEF Delivered
  <2> QED
    BY <1>1, <1>6, <2>1, <2>2, <2>3, SMTT(60)
<1> QED
    BY <1>7, <1>8, <1>9 DEF Delivered

\* What the server takes, it will count.
LEMMA DeliveredTake ==
    ASSUME Types, Delivered, NEW x \in Sent, x.t \notin {"0x81", "finish"},
           wire["client"] # <<>>, Head(wire["client"]).t = x.t,
           counting["server"] = Nothing,
           counting' = [counting EXCEPT !["server"] = x.rx],
           wire' = [wire EXCEPT !["client"] = Tail(@)], stat' = stat
    PROVE  Delivered'
<1>1. "client" \in End /\ "server" \in End /\ "client" # "server"
    BY DEF End
<1>2. x.rx \in Rx /\ Rx \subseteq Counter /\ x.rx # "mdrops"
    BY SentTypes DEF Sent
<1>3. \A f \in End : \A t :
          Way(f, t) = IF f = "client" /\ x.t = t THEN Way(f, t)' + 1
                      ELSE Way(f, t)'
  <2>1. \A f \in End : \A t :
            Way(f, t) = IF f = "client" /\ Head(wire["client"]).t = t
                        THEN Way(f, t)' + 1 ELSE Way(f, t)'
    BY <1>1, TakeWay, Zenon
  <2> QED
    BY <2>1, Zenon
<1>4. \A f \in End : \A j \in Counter :
         Settled(f, j)' = IF f = "server" /\ j = x.rx
                          THEN Settled(f, j) + 1 ELSE Settled(f, j)
  <2>1. ASSUME NEW f \in End, NEW j \in Counter
        PROVE  Settled(f, j)' = IF f = "server" /\ j = x.rx
                                THEN Settled(f, j) + 1 ELSE Settled(f, j)
    <3>1. stat'[f][j] = stat[f][j] /\ x.rx \in Counter
      BY <1>2
    <3>2. counting'[f] = IF f = "server" THEN x.rx ELSE counting[f]
      BY DEF Types
    <3> QED
      BY <1>1, <3>1, <3>2, TakeSettled
  <2> QED
    BY <2>1
<1>5. \A f \in End : \A t : Way(f, t)' \in Nat
  <2>1. wire' \in [End -> Seq(Packet)]
    BY <1>1, TakeWire DEF Types
  <2>2. ASSUME NEW f \in End, NEW t PROVE Way(f, t)' \in Nat
    <3>1. wire'[f] \in Seq(Packet)
      BY <2>1
    <3>2. Keep(Kind(t), wire'[f]) \in Seq(Packet)
      BY <3>1, KeepType
    <3> QED
      BY <3>2 DEF Way
  <2> QED
    BY <2>2
<1>6. \A f \in End : \A j \in Counter :
          stat[f][j] \in Nat /\ Settled(f, j) \in Nat
    BY <1>1, NumberTypes
<1>7. /\ \A f \in End : Settled(f, "mdrops")' = 0
      /\ \A f \in End : counting'[f] \in Rx \cup {Nothing}
  <2>1. "mdrops" \in Counter /\ counting \in [End -> Counter \cup {Nothing}]
    BY DEF Counter, Types
  <2> QED
    BY <1>1, <1>2, <1>4, <2>1 DEF Delivered
<1>8. ASSUME NEW y \in Sent
      PROVE  Settled("server", y.rx)' + Way("client", y.t)'
                 = stat'["client"][y.tx]
  <2>1. /\ y.tx \in Counter /\ y.rx \in Counter
        /\ x.t = y.t <=> y.rx = x.rx
    BY SentTypes
  <2>2. /\ Settled("server", y.rx)' = IF x.t = y.t
                THEN Settled("server", y.rx) + 1 ELSE Settled("server", y.rx)
        /\ Way("client", y.t) = IF x.t = y.t THEN Way("client", y.t)' + 1
                                ELSE Way("client", y.t)'
    BY <1>1, <1>3, <1>4, <2>1
  <2>3. Settled("server", y.rx) + Way("client", y.t) = stat["client"][y.tx]
    BY DEF Delivered
  <2>4. Settled("server", y.rx) \in Nat /\ Way("client", y.t)' \in Nat
    BY <1>1, <1>5, <1>6, <2>1
  <2> QED
    BY <2>2, <2>3, <2>4
<1>9. ASSUME NEW y \in Replied
      PROVE  Settled("client", y.rx)' + Way("server", y.t)'
                 + Way("client", y.t)' = stat'["client"][y.tx]
  <2>1. y.tx \in Counter /\ y.rx \in Counter /\ x.t # y.t
    BY SentTypes DEF Replied
  <2>2. /\ Settled("client", y.rx)' = Settled("client", y.rx)
        /\ Way("server", y.t)' = Way("server", y.t)
        /\ Way("client", y.t)' = Way("client", y.t)
    BY <1>1, <1>3, <1>4, <2>1
  <2>3. Settled("client", y.rx) + Way("server", y.t) + Way("client", y.t)
            = stat["client"][y.tx]
    BY DEF Delivered
  <2> QED
    BY <2>2, <2>3
<1> QED
    BY <1>7, <1>8, <1>9 DEF Delivered

\* What the server answers, it will count, and the answer is on its way.
LEMMA DeliveredAnswer ==
    ASSUME Types, Delivered, NEW x \in Sent, x.t \in {"0x81", "finish"},
           wire["client"] # <<>>, Head(wire["client"]).t = x.t,
           NEW k \in Packet, k.t = x.t, NEW c \in Counter, c \notin Rx,
           counting["server"] = Nothing,
           counting' = [counting EXCEPT !["server"] = x.rx],
           wire' = [Taken("server") EXCEPT !["server"] = Append(@, k)],
           stat' = [stat EXCEPT !["server"][c] = @ + 1]
    PROVE  Delivered'
<1>1. "client" \in End /\ "server" \in End /\ "client" # "server"
    BY DEF End
<1>2. x.rx \in Rx /\ Rx \subseteq Counter /\ x.rx # "mdrops"
    BY SentTypes DEF Sent
<1>3. \A t : /\ Way("client", t) = IF x.t = t THEN Way("client", t)' + 1
                                   ELSE Way("client", t)'
             /\ Way("server", t)' = IF x.t = t THEN Way("server", t) + 1
                                    ELSE Way("server", t)
  <2>1. \A t : /\ Way("client", t) = IF Head(wire["client"]).t = t
                                     THEN Way("client", t)' + 1
                                     ELSE Way("client", t)'
               /\ Way("server", t)' = IF k.t = t THEN Way("server", t) + 1
                                      ELSE Way("server", t)
    BY AnswerWay, Zenon
  <2> QED
    BY <2>1, Zenon
<1>4. \A f \in End : \A j \in Counter : (f = "client" \/ j \in Rx) =>
         Settled(f, j)' = IF f = "server" /\ j = x.rx
                          THEN Settled(f, j) + 1 ELSE Settled(f, j)
  <2>1. ASSUME NEW f \in End, NEW j \in Counter, f = "client" \/ j \in Rx
        PROVE  Settled(f, j)' = IF f = "server" /\ j = x.rx
                                THEN Settled(f, j) + 1 ELSE Settled(f, j)
    <3>1. stat'[f][j] = stat[f][j] /\ x.rx \in Counter
      BY <1>1, <1>2, <2>1 DEF Types
    <3>2. counting'[f] = IF f = "server" THEN x.rx ELSE counting[f]
      BY DEF Types
    <3> QED
      BY <1>1, <3>1, <3>2, TakeSettled
  <2> QED
    BY <2>1
<1>5. \A t : Way("client", t)' \in Nat /\ Way("server", t) \in Nat
  <2>1. wire' \in [End -> Seq(Packet)]
    BY AnswerWire DEF Types
  <2>2. ASSUME NEW t PROVE Way("client", t)' \in Nat
    <3>1. wire'["client"] \in Seq(Packet)
      BY <1>1, <2>1
    <3>2. Keep(Kind(t), wire'["client"]) \in Seq(Packet)
      BY <3>1, KeepType
    <3> QED
      BY <3>2 DEF Way
  <2> QED
    BY <1>1, <2>2, NumberTypes
<1>6. \A f \in End : \A j \in Counter :
          stat[f][j] \in Nat /\ Settled(f, j) \in Nat
    BY <1>1, NumberTypes
<1>7. /\ \A f \in End : Settled(f, "mdrops")' = 0
      /\ \A f \in End : counting'[f] \in Rx \cup {Nothing}
  <2>1. /\ "mdrops" \in Counter /\ "mdrops" \in Rx
        /\ counting \in [End -> Counter \cup {Nothing}]
    BY DEF Counter, Rx, Types
  <2> QED
    BY <1>1, <1>2, <1>4, <2>1 DEF Delivered
<1>8. \A j \in Counter : stat'["client"][j] = stat["client"][j]
    BY <1>1 DEF Types
<1>9. ASSUME NEW y \in Sent
      PROVE  Settled("server", y.rx)' + Way("client", y.t)'
                 = stat'["client"][y.tx]
  <2>1. /\ y.tx \in Counter /\ y.rx \in Counter /\ y.rx \in Rx
        /\ x.t = y.t <=> y.rx = x.rx
    BY SentTypes
  <2>2. /\ Settled("server", y.rx)' = IF x.t = y.t
                THEN Settled("server", y.rx) + 1 ELSE Settled("server", y.rx)
        /\ Way("client", y.t) = IF x.t = y.t THEN Way("client", y.t)' + 1
                                ELSE Way("client", y.t)'
    BY <1>1, <1>3, <1>4, <2>1
  <2>3. Settled("server", y.rx) + Way("client", y.t) = stat["client"][y.tx]
    BY DEF Delivered
  <2>4. Settled("server", y.rx) \in Nat /\ Way("client", y.t)' \in Nat
    BY <1>1, <1>5, <1>6, <2>1
  <2>5. stat'["client"][y.tx] = stat["client"][y.tx]
    BY <1>8, <2>1
  <2> QED
    BY <2>2, <2>3, <2>4, <2>5
<1>10. ASSUME NEW y \in Replied
       PROVE  Settled("client", y.rx)' + Way("server", y.t)'
                  + Way("client", y.t)' = stat'["client"][y.tx]
  <2>1. y.tx \in Counter /\ y.rx \in Counter
    BY SentTypes DEF Replied
  <2>2. /\ Settled("client", y.rx)' = Settled("client", y.rx)
        /\ Way("server", y.t)' = IF x.t = y.t THEN Way("server", y.t) + 1
                                 ELSE Way("server", y.t)
        /\ Way("client", y.t) = IF x.t = y.t THEN Way("client", y.t)' + 1
                                ELSE Way("client", y.t)'
    BY <1>1, <1>3, <1>4, <2>1
  <2>3. Settled("client", y.rx) + Way("server", y.t) + Way("client", y.t)
            = stat["client"][y.tx]
    BY DEF Delivered
  <2> QED
    BY <1>1, <1>5, <1>6, <1>8, <2>1, <2>2, <2>3, SMTT(30)
<1> QED
    BY <1>7, <1>9, <1>10 DEF Delivered

\* What the client takes, it will count as j.
LEMMA DeliveredReply ==
    ASSUME Types, Delivered, NEW j \in Rx, j # "mdrops",
           wire["server"] # <<>>,
           \A y \in Replied : y.t = Head(wire["server"]).t <=> y.rx = j,
           counting["client"] = Nothing,
           counting' = [counting EXCEPT !["client"] = j],
           wire' = [wire EXCEPT !["server"] = Tail(@)], stat' = stat
    PROVE  Delivered'
<1>1. "client" \in End /\ "server" \in End /\ "client" # "server"
    BY DEF End
<1>2. Rx \subseteq Counter
    BY SentTypes
<1>3. \A f \in End : \A t :
          Way(f, t) = IF f = "server" /\ Head(wire["server"]).t = t
                      THEN Way(f, t)' + 1 ELSE Way(f, t)'
    BY <1>1, TakeWay, Zenon
<1>4. \A f \in End : \A i \in Counter :
         Settled(f, i)' = IF f = "client" /\ i = j
                          THEN Settled(f, i) + 1 ELSE Settled(f, i)
  <2>1. ASSUME NEW f \in End, NEW i \in Counter
        PROVE  Settled(f, i)' = IF f = "client" /\ i = j
                                THEN Settled(f, i) + 1 ELSE Settled(f, i)
    <3>1. stat'[f][i] = stat[f][i] /\ j \in Counter
      BY <1>2
    <3>2. counting'[f] = IF f = "client" THEN j ELSE counting[f]
      BY DEF Types
    <3> QED
      BY <1>1, <3>1, <3>2, TakeSettled
  <2> QED
    BY <2>1
<1>5. \A t : Way("server", t)' \in Nat /\ Way("client", t) \in Nat
  <2>1. wire' \in [End -> Seq(Packet)]
    BY <1>1, TakeWire DEF Types
  <2>2. ASSUME NEW t PROVE Way("server", t)' \in Nat
    <3>1. wire'["server"] \in Seq(Packet)
      BY <1>1, <2>1
    <3>2. Keep(Kind(t), wire'["server"]) \in Seq(Packet)
      BY <3>1, KeepType
    <3> QED
      BY <3>2 DEF Way
  <2> QED
    BY <1>1, <2>2, NumberTypes
<1>6. \A f \in End : \A i \in Counter :
          stat[f][i] \in Nat /\ Settled(f, i) \in Nat
    BY <1>1, NumberTypes
<1>7. /\ \A f \in End : Settled(f, "mdrops")' = 0
      /\ \A f \in End : counting'[f] \in Rx \cup {Nothing}
  <2>1. "mdrops" \in Counter /\ counting \in [End -> Counter \cup {Nothing}]
    BY DEF Counter, Types
  <2> QED
    BY <1>1, <1>2, <1>4, <2>1 DEF Delivered
<1>8. ASSUME NEW y \in Sent
      PROVE  Settled("server", y.rx)' + Way("client", y.t)'
                 = stat'["client"][y.tx]
  <2>1. y.rx \in Counter
    BY SentTypes
  <2>2. /\ Settled("server", y.rx)' = Settled("server", y.rx)
        /\ Way("client", y.t)' = Way("client", y.t)
    BY <1>1, <1>3, <1>4, <2>1
  <2> QED
    BY <2>2 DEF Delivered
<1>9. ASSUME NEW y \in Replied
      PROVE  Settled("client", y.rx)' + Way("server", y.t)'
                 + Way("client", y.t)' = stat'["client"][y.tx]
  <2>1. y.tx \in Counter /\ y.rx \in Counter
    BY SentTypes DEF Replied
  <2>2. /\ Settled("client", y.rx)' = IF y.rx = j
                THEN Settled("client", y.rx) + 1 ELSE Settled("client", y.rx)
        /\ Way("server", y.t) = IF y.rx = j THEN Way("server", y.t)' + 1
                                ELSE Way("server", y.t)'
        /\ Way("client", y.t)' = Way("client", y.t)
    BY <1>1, <1>3, <1>4, <2>1
  <2>3. Settled("client", y.rx) + Way("server", y.t) + Way("client", y.t)
            = stat["client"][y.tx]
    BY DEF Delivered
  <2> QED
    BY <1>1, <1>5, <1>6, <2>1, <2>2, <2>3, SMTT(60)
<1> QED
    BY <1>7, <1>8, <1>9 DEF Delivered

\* Counting afterwards what was handled.
LEMMA DeliveredCount ==
    ASSUME Types, Delivered, NEW e \in End, Count(e)
    PROVE  Delivered'
<1>1. wire' = wire /\ \A f \in End : \A t : Way(f, t)' = Way(f, t)
    BY DEF Count, Way
<1>2. /\ counting \in [End -> Counter \cup {Nothing}] /\ counting[e] \in Rx
      /\ counting' = [counting EXCEPT ![e] = Nothing]
    BY DEF Count, Delivered, Types
<1>3. \A f \in End : \A j \in Counter :
          /\ Settled(f, j)' = Settled(f, j)
          /\ j \notin Rx => stat'[f][j] = stat[f][j]
    BY <1>2, CountSettled
<1>4. "mdrops" \in Counter /\ "client" \in End /\ "server" \in End
    BY DEF Counter, End
<1>5. \A x \in Sent \cup Replied :
          x.tx \in Counter /\ x.tx \notin Rx /\ x.rx \in Counter
    BY SentTypes
<1>6. /\ \A f \in End : Settled(f, "mdrops")' = 0
      /\ \A f \in End : counting'[f] \in Rx \cup {Nothing}
    BY <1>2, <1>3, <1>4 DEF Delivered
<1>7. ASSUME NEW y \in Sent
      PROVE  Settled("server", y.rx)' + Way("client", y.t)'
                 = stat'["client"][y.tx]
    BY <1>1, <1>3, <1>4, <1>5 DEF Delivered
<1>8. ASSUME NEW y \in Replied
      PROVE  Settled("client", y.rx)' + Way("server", y.t)'
                 + Way("client", y.t)' = stat'["client"][y.tx]
    BY <1>1, <1>3, <1>4, <1>5 DEF Delivered
<1> QED
    BY <1>6, <1>7, <1>8 DEF Delivered

\* The server posts a heartbeat.
LEMMA DeliveredBeat ==
    ASSUME Types, Delivered, counting' = counting,
           NEW k \in Packet, k.t = "post",
           wire' = [wire EXCEPT !["server"] = Append(@, k)],
           stat' = [stat EXCEPT !["server"]["txpost"] = @ + 1]
    PROVE  Delivered'
<1>1. "client" \in End /\ "server" \in End /\ "client" # "server"
    BY DEF End
<1>2. "txpost" \in Counter /\ "txpost" \notin Rx /\ "mdrops" \in Rx
      /\ Rx \subseteq Counter
    BY SentTypes DEF Counter, Rx
<1>3. \A f \in End : \A t :
          Way(f, t)' = IF f = "server" /\ k.t = t THEN Way(f, t) + 1
                       ELSE Way(f, t)
    BY <1>1, SendWay, Zenon
<1>4. \A f \in End : \A j \in Counter :
         /\ stat'[f][j] = IF f = "server" /\ j = "txpost" THEN stat[f][j] + 1
                          ELSE stat[f][j]
         /\ Settled(f, j)' = IF f = "server" /\ j = "txpost"
                             THEN Settled(f, j) + 1 ELSE Settled(f, j)
    BY <1>1, <1>2, SendSettled, ZenonT(60)
<1>5. \A x \in Sent \cup Replied : x.tx \in Counter /\ x.rx \in Rx
    BY SentTypes
<1>6. /\ \A f \in End : Settled(f, "mdrops")' = 0
      /\ \A f \in End : counting'[f] \in Rx \cup {Nothing}
    BY <1>2, <1>4 DEF Delivered
<1>7. ASSUME NEW y \in Sent
      PROVE  Settled("server", y.rx)' + Way("client", y.t)'
                 = stat'["client"][y.tx]
  <2>1. /\ Settled("server", y.rx)' = Settled("server", y.rx)
        /\ Way("client", y.t)' = Way("client", y.t)
        /\ stat'["client"][y.tx] = stat["client"][y.tx]
    BY <1>1, <1>2, <1>3, <1>4, <1>5
  <2> QED
    BY <2>1 DEF Delivered
<1>8. ASSUME NEW y \in Replied
      PROVE  Settled("client", y.rx)' + Way("server", y.t)'
                 + Way("client", y.t)' = stat'["client"][y.tx]
  <2>1. y.t # "post"
    BY DEF Replied
  <2>2. /\ Settled("client", y.rx)' = Settled("client", y.rx)
        /\ Way("server", y.t)' = Way("server", y.t)
        /\ Way("client", y.t)' = Way("client", y.t)
        /\ stat'["client"][y.tx] = stat["client"][y.tx]
    BY <1>1, <1>2, <1>3, <1>4, <1>5, <2>1
  <2> QED
    BY <2>2 DEF Delivered
<1> QED
    BY <1>6, <1>7, <1>8 DEF Delivered

\* Nothing is sent or taken.
LEMMA DeliveredSame ==
    ASSUME Delivered, wire' = wire, stat' = stat, counting' = counting
    PROVE  Delivered'
<1>1. \A f, t : Way(f, t)' = Way(f, t) /\ Settled(f, t)' = Settled(f, t)
    BY DEF Way, Settled
<1> QED
    BY <1>1 DEF Delivered

\* A packet of the client has one of the types.
LEMMA SortedSend ==
    ASSUME Types, Sorted, NEW k \in Packet,
           wire' = [wire EXCEPT !["client"] = Append(@, k)]
    PROVE  Sorted'
<1>1. "client" \in End
    BY DEF End
<1>2. /\ \A f \in End : \A t :
             Way(f, t)' = IF f = "client" /\ k.t = t THEN Way(f, t) + 1
                          ELSE Way(f, t)
      /\ Len(wire'["client"]) = Len(wire["client"]) + 1
    BY <1>1, SendWay, Zenon
<1>3. \A t : Way("client", t)' = IF k.t = t THEN Way("client", t) + 1
                                 ELSE Way("client", t)
    BY <1>1, <1>2
<1>4. k.t \in {"post", "0x81", "start", "stream", "finish"}
    BY DEF Packet
<1>5. Len(wire["client"]) \in Nat /\ \A t : Way("client", t) \in Nat
    BY <1>1, NumberTypes
<1>6. PICK x : x = k.t
    OBVIOUS
<1>7. x \in {"post", "0x81", "start", "stream", "finish"}
    BY <1>4, <1>6
<1>8. \A t : Way("client", t)' = IF x = t THEN Way("client", t) + 1
                                 ELSE Way("client", t)
    BY <1>3, <1>6
<1> DEFINE a == Way("client", "post")
           b == Way("client", "0x81")
           c == Way("client", "start")
           d == Way("client", "stream")
           f == Way("client", "finish")
           n == Len(wire["client"])
           aa == Way("client", "post")'
           bb == Way("client", "0x81")'
           cc == Way("client", "start")'
           dd == Way("client", "stream")'
           ff == Way("client", "finish")'
<1>9. /\ aa = IF x = "post" THEN a + 1 ELSE a
      /\ bb = IF x = "0x81" THEN b + 1 ELSE b
      /\ cc = IF x = "start" THEN c + 1 ELSE c
      /\ dd = IF x = "stream" THEN d + 1 ELSE d
      /\ ff = IF x = "finish" THEN f + 1 ELSE f
    BY <1>8, Zenon
<1>10. /\ a \in Nat /\ b \in Nat /\ c \in Nat /\ d \in Nat /\ f \in Nat
       /\ n \in Nat
    BY <1>5
<1>11. n = a + b + c + d + f
    BY DEF Sorted
<1>12. Len(wire'["client"]) = n + 1
    BY <1>2
<1> HIDE DEF a, b, c, d, f, n, aa, bb, cc, dd, ff
<1>13. n + 1 = aa + bb + cc + dd + ff
    BY <1>7, <1>9, <1>10, <1>11
<1> QED
    BY <1>12, <1>13 DEF Sorted, aa, bb, cc, dd, ff

\* So it was, when it is taken.
LEMMA SortedTake ==
    ASSUME Types, Sorted, wire["client"] # <<>>,
           Len(wire["client"]) = Len(wire'["client"]) + 1,
           \A t : Way("client", t) = IF Head(wire["client"]).t = t
                                     THEN Way("client", t)' + 1
                                     ELSE Way("client", t)',
           wire' \in [End -> Seq(Packet)]
    PROVE  Sorted'
<1>1. "client" \in End
    BY DEF End
<1>2. Head(wire["client"]).t \in {"post", "0x81", "start", "stream", "finish"}
  <2>1. wire["client"] \in Seq(Packet)
    BY <1>1 DEF Types
  <2>2. Head(wire["client"]) \in Packet
    BY <2>1
  <2> QED
    BY <2>2 DEF Packet
<1>3. ASSUME NEW t PROVE Way("client", t)' \in Nat
  <2>1. wire'["client"] \in Seq(Packet)
    BY <1>1
  <2>2. Keep(Kind(t), wire'["client"]) \in Seq(Packet)
    BY <2>1, KeepType
  <2> QED
    BY <2>2 DEF Way
<1>4. Len(wire'["client"]) \in Nat
    BY <1>1
<1>5. PICK x : x = Head(wire["client"]).t
    OBVIOUS
<1>6. \A t : Way("client", t) = IF x = t THEN Way("client", t)' + 1
                                ELSE Way("client", t)'
    BY <1>5
<1>7. x \in {"post", "0x81", "start", "stream", "finish"}
    BY <1>2, <1>5
<1> DEFINE a == Way("client", "post")'
           b == Way("client", "0x81")'
           c == Way("client", "start")'
           d == Way("client", "stream")'
           f == Way("client", "finish")'
           n == Len(wire'["client"])
<1>8. /\ Way("client", "post") = IF x = "post" THEN a + 1 ELSE a
      /\ Way("client", "0x81") = IF x = "0x81" THEN b + 1 ELSE b
      /\ Way("client", "start") = IF x = "start" THEN c + 1 ELSE c
      /\ Way("client", "stream") = IF x = "stream" THEN d + 1 ELSE d
      /\ Way("client", "finish") = IF x = "finish" THEN f + 1 ELSE f
    BY <1>6, Zenon
<1>9. /\ a \in Nat /\ b \in Nat /\ c \in Nat /\ d \in Nat /\ f \in Nat
      /\ n \in Nat
    BY <1>3, <1>4
<1>10. n + 1 = Way("client", "post") + Way("client", "0x81")
                   + Way("client", "start") + Way("client", "stream")
                   + Way("client", "finish")
    BY DEF Sorted
<1> HIDE DEF a, b, c, d, f, n
<1>11. n = a + b + c + d + f
    BY <1>7, <1>8, <1>9, <1>10, SMTT(60)
<1> QED
    BY <1>11 DEF Sorted, a, b, c, d, f, n

\* The wire of the client is as it was.
LEMMA SortedSame ==
    ASSUME Sorted, wire'["client"] = wire["client"]
    PROVE  Sorted'
<1>1. \A t : Way("client", t)' = Way("client", t)
    BY DEF Way
<1> QED
    BY <1>1 DEF Sorted

\* The client sends a packet of a type and counts it as such.
LEMMA ClientBalance ==
    ASSUME Types, Delivered, Sorted, counting' = counting,
           NEW x \in Sent,
           NEW id \in {"msgPost", "msgReqsp", "msgStreamRx", "msgStreamTx",
                       "whoami", "heartbeat", Nothing},
           NEW o \in Opaque \cup {0}, Send("client", x.t, id, o, x.tx)
    PROVE  Delivered' /\ Sorted'
<1>1. x.t \in {"post", "0x81", "start", "stream", "finish"}
    BY DEF Sent
<1> DEFINE k == [t |-> x.t, id |-> id, o |-> o]
<1>2. k \in Packet /\ k.t = x.t
    BY <1>1, NewPacket
<1>3. /\ wire' = [wire EXCEPT !["client"] = Append(@, k)]
      /\ stat' = [stat EXCEPT !["client"][x.tx] = @ + 1]
    BY DEF Send
<1> HIDE DEF k
<1>4. Delivered'
    BY <1>2, <1>3, DeliveredSend
<1>5. Sorted'
    BY <1>2, <1>3, SortedSend
<1> QED
    BY <1>4, <1>5

\* The server takes a packet.
LEMMA ServerBalance ==
    ASSUME Types, Delivered, Sorted, wire["client"] # <<>>,
           NEW x \in Sent, Head(wire["client"]).t = x.t,
           counting["server"] = Nothing,
           counting' = [counting EXCEPT !["server"] = x.rx],
           \/ /\ x.t \notin {"0x81", "finish"}
              /\ wire' = Taken("server") /\ stat' = stat
           \/ /\ x.t \in {"0x81", "finish"}
              /\ \E id \in {Head(wire["client"]).id, Nothing},
                    c \in {"txresp", "txfin"} :
                     Answers(x.t, id, Head(wire["client"]).o, c)
    PROVE  Delivered' /\ Sorted'
<1>1. "client" \in End /\ "server" \in End /\ "client" # "server"
    BY DEF End
<1>2. wire \in [End -> Seq(Packet)] /\ wire["client"] \in Seq(Packet)
    BY <1>1 DEF Types
<1>3. PICK h \in Packet : h = Head(wire["client"])
    BY <1>2
<1>4. CASE x.t \notin {"0x81", "finish"}
  <2>1. wire' = [wire EXCEPT !["client"] = Tail(@)] /\ stat' = stat
    BY <1>4 DEF Taken, Other
  <2>2. Delivered'
    BY <1>4, <2>1, DeliveredTake
  <2>3. wire' \in [End -> Seq(Packet)]
    BY <1>1, <2>1, TakeWire DEF Types
  <2>4. /\ \A f \in End : \A t :
              Way(f, t) = IF f = "client" /\ Head(wire["client"]).t = t
                          THEN Way(f, t)' + 1 ELSE Way(f, t)'
        /\ Len(wire["client"]) = Len(wire'["client"]) + 1
    BY <1>1, <2>1, TakeWay, Zenon
  <2>5. \A t : Way("client", t) = IF Head(wire["client"]).t = t
                                  THEN Way("client", t)' + 1
                                  ELSE Way("client", t)'
    BY <1>1, <2>4, Zenon
  <2>6. Sorted'
    BY <2>3, <2>4, <2>5, SortedTake, Zenon
  <2> QED
    BY <2>2, <2>6
<1>5. CASE x.t \in {"0x81", "finish"}
  <2>1. PICK id \in {h.id, Nothing}, c \in {"txresp", "txfin"} :
            Answers(x.t, id, h.o, c)
    BY <1>3, <1>5
  <2> DEFINE k == [t |-> x.t, id |-> id, o |-> h.o]
  <2>2. k \in Packet /\ k.t = x.t
    BY <1>5, <2>1 DEF Packet
  <2>3. /\ wire' = [Taken("server") EXCEPT !["server"] = Append(@, k)]
        /\ stat' = [stat EXCEPT !["server"][c] = @ + 1]
    BY <2>1 DEF Answers
  <2> HIDE DEF k
  <2>4. c \in Counter /\ c \notin Rx
    BY <2>1 DEF Counter, Rx
  <2>5. Delivered'
    BY <1>5, <2>2, <2>3, <2>4, DeliveredAnswer
  <2>6. wire' \in [End -> Seq(Packet)]
    BY <1>2, <2>2, <2>3, AnswerWire DEF Types
  <2>7. /\ \A t : /\ Way("client", t) = IF Head(wire["client"]).t = t
                                        THEN Way("client", t)' + 1
                                        ELSE Way("client", t)'
                  /\ Way("server", t)' = IF k.t = t THEN Way("server", t) + 1
                                         ELSE Way("server", t)
        /\ Len(wire["client"]) = Len(wire'["client"]) + 1
    BY <2>2, <2>3, AnswerWay, Zenon
  <2>8. Sorted'
    BY <2>6, <2>7, SortedTake, Zenon
  <2> QED
    BY <2>5, <2>8
<1> QED
    BY <1>4, <1>5

\* What syncRx() does keeps the balance.
LEMMA SyncRxBalance ==
    ASSUME Ordered, ~Endless, Posted, Delivered, Sorted,
           NEW e \in End, syncRx(e)
    PROVE  Delivered' /\ Sorted'
<1>1. Types /\ Packets /\ Streams
    BY DEF Ordered
<1>2. PICK k : k = Head(wire["client"])
    OBVIOUS
<1>3. ASSUME wire["client"] # <<>>
      PROVE  /\ k.t \in {"post", "0x81", "start"} => k.o \notin live["server"]
             /\ k.t \in {"stream", "finish"} => k.o \in live["server"]
    BY <1>1, <1>2, <1>3, ServerFinds
<1>4. PICK q : q = Head(wire["server"])
    OBVIOUS
<1>5. ASSUME wire["server"] # <<>>
      PROVE  /\ q.t \in {"post", "0x81", "finish"}
             /\ q.t # "post" => q.o \in live["client"]
    BY <1>1, <1>4, <1>5, ClientFinds
<1>6. CASE Count(e)
  <2>1. wire' = wire
    BY <1>6 DEF Count
  <2> QED
    BY <1>1, <1>6, <2>1, DeliveredCount, SortedSame
<1>7. CASE streamupdate
  <2>1. wire' = wire /\ stat' = stat /\ counting' = counting
    BY <1>7 DEF streamupdate
  <2> QED
    BY <2>1, DeliveredSame, SortedSame
<1>8. ASSUME NEW x \in Sent, k.t = x.t, x.t \notin {"0x81", "finish"},
             Takes("server", k, x.rx), wire' = Taken("server"), stat' = stat
      PROVE  Delivered' /\ Sorted'
  <2>1. /\ wire["client"] # <<>> /\ counting["server"] = Nothing
        /\ counting' = [counting EXCEPT !["server"] = x.rx]
    BY <1>8 DEF Takes, Other
  <2> QED
    BY <1>1, <1>2, <1>8, <2>1, ServerBalance
<1>9. ASSUME NEW x \in Sent, k.t = x.t, x.t \in {"0x81", "finish"},
             Takes("server", k, x.rx), NEW id \in {k.id, Nothing},
             NEW c \in {"txresp", "txfin"}, Answers(x.t, id, k.o, c)
      PROVE  Delivered' /\ Sorted'
  <2>1. /\ wire["client"] # <<>> /\ counting["server"] = Nothing
        /\ counting' = [counting EXCEPT !["server"] = x.rx]
    BY <1>9 DEF Takes, Other
  <2>2. \E i \in {Head(wire["client"]).id, Nothing},
           b \in {"txresp", "txfin"} :
               Answers(x.t, i, Head(wire["client"]).o, b)
    BY <1>2, <1>9
  <2> QED
    BY <1>1, <1>2, <1>9, <2>1, <2>2, ServerBalance
<1>10. ASSUME NEW j \in Rx, j # "mdrops", Takes("client", q, j),
              \A y \in Replied : y.t = q.t <=> y.rx = j,
              wire' = Taken("client"), stat' = stat
       PROVE  Delivered' /\ Sorted'
  <2>1. /\ wire["server"] # <<>> /\ counting["client"] = Nothing
        /\ counting' = [counting EXCEPT !["client"] = j]
        /\ wire' = [wire EXCEPT !["server"] = Tail(@)]
    BY <1>10 DEF Takes, Taken, Other
  <2>2. wire'["client"] = wire["client"]
    BY <1>1, <1>10, ClientWire
  <2>3. Delivered'
    BY <1>1, <1>4, <1>10, <2>1, DeliveredReply
  <2> QED
    BY <2>2, <2>3, SortedSame
<1>11. /\ [t |-> "post", tx |-> "txpost", rx |-> "rxpost"] \in Sent
       /\ [t |-> "0x81", tx |-> "txreq", rx |-> "rxreq"] \in Sent
       /\ [t |-> "start", tx |-> "txstart", rx |-> "rxstart"] \in Sent
       /\ [t |-> "stream", tx |-> "txstream", rx |-> "rxstream"] \in Sent
       /\ [t |-> "finish", tx |-> "txfin", rx |-> "rxfin"] \in Sent
    BY DEF Sent
<1>12. /\ \A y \in Replied : y.t = "post" <=> y.rx = "rxpost"
       /\ \A y \in Replied : y.t = "0x81" <=> y.rx = "rxresp"
       /\ \A y \in Replied : y.t = "finish" <=> y.rx = "rxfin"
       /\ "rxpost" \in Rx /\ "rxresp" \in Rx /\ "rxfin" \in Rx
    BY DEF Replied, Rx
<1>13. ASSUME NEW f \in End, handlePost(f) PROVE Delivered' /\ Sorted'
  <2>1. CASE f = "server"
    <3>1. /\ Takes("server", k, "rxpost") /\ k.t = "post"
          /\ wire' = Taken("server") /\ stat' = stat
      BY <1>2, <1>13, <2>1 DEF handlePost, Other
    <3> QED
      BY <1>8, <1>11, <3>1
  <2>2. CASE f = "client"
    <3>1. /\ Takes("client", q, "rxpost") /\ q.t = "post"
          /\ wire' = Taken("client") /\ stat' = stat
      BY <1>4, <1>13, <2>2 DEF handlePost, Other
    <3> QED
      BY <1>10, <1>12, <3>1
  <2> QED
    BY <2>1, <2>2 DEF End
<1>14. ASSUME NEW f \in End, handleStream(f) PROVE Delivered' /\ Sorted'
  <2>1. CASE f = "server"
    <3>1. /\ Takes("server", k, Counted("server", k, "rxstream"))
          /\ k.t = "stream" /\ wire["client"] # <<>>
          /\ wire' = Taken("server") /\ stat' = stat
      BY <1>2, <1>14, <2>1 DEF handleStream, Other, Takes
    <3>2. Takes("server", k, "rxstream")
      BY <1>3, <3>1 DEF Counted
    <3> QED
      BY <1>8, <1>11, <3>1, <3>2
  <2>2. CASE f = "client"
    <3>1. q.t = "stream" /\ wire["server"] # <<>>
      BY <1>4, <1>14, <2>2 DEF handleStream, Other, Takes
    <3> QED
      BY <1>5, <3>1
  <2> QED
    BY <2>1, <2>2 DEF End
<1>15. CASE handleStart
  <2>1. /\ Takes("server", k, "rxstart") /\ k.t = "start"
        /\ wire' = Taken("server") /\ stat' = stat
    BY <1>2, <1>15 DEF handleStart
  <2> QED
    BY <1>8, <1>11, <2>1
<1>16. CASE handleDuplicate
  <2>1. /\ k.o \in live["server"] /\ wire["client"] # <<>>
        /\ k.t \in {"post", "0x81", "start"}
    BY <1>2, <1>16 DEF handleDuplicate, Takes, Other
  <2> QED
    BY <1>3, <2>1
<1>17. CASE handleRequest
  <2>1. /\ Takes("server", k, "rxreq") /\ k.t = "0x81"
        /\ Answers("0x81", k.id, k.o, "txresp")
    BY <1>2, <1>17 DEF handleRequest
  <2> QED
    BY <1>9, <1>11, <2>1
<1>18. CASE handleFinishServer
  <2>1. /\ wire["client"] # <<>> /\ k.t = "finish"
        /\ Takes("server", k, Counted("server", k, "rxfin"))
        /\ k.o \in live["server"] => Answers("finish", Nothing, k.o, "txfin")
    BY <1>2, <1>18 DEF handleFinishServer, Takes, Other, Closes
  <2>2. k.o \in live["server"]
    BY <1>3, <2>1
  <2>3. Takes("server", k, "rxfin")
    BY <2>1, <2>2 DEF Counted
  <2> QED
    BY <1>9, <1>11, <2>1, <2>2, <2>3
<1>19. CASE handleResponse
  <2>1. /\ Takes("client", q, "rxresp") /\ q.t = "0x81"
        /\ wire' = Taken("client") /\ stat' = stat
    BY <1>4, <1>19 DEF handleResponse
  <2> QED
    BY <1>10, <1>12, <2>1
<1>20. CASE handleFinishClient
  <2>1. /\ wire["server"] # <<>> /\ q.t = "finish"
        /\ Takes("client", q, Counted("client", q, "rxfin"))
        /\ wire' = Taken("client") /\ stat' = stat
    BY <1>4, <1>20 DEF handleFinishClient, Takes, Other
  <2>2. Takes("client", q, "rxfin")
    BY <1>5, <2>1 DEF Counted
  <2> QED
    BY <1>10, <1>12, <2>1, <2>2
<1> QED
    BY <1>6, <1>7, <1>13, <1>14, <1>15, <1>16, <1>17, <1>18, <1>19, <1>20
    DEF syncRx, handlepkt

\* Every step keeps the balance.
LEMMA NextBalance ==
    ASSUME Ordered, ~Endless, Posted, Delivered, Sorted, [Next]_vars
    PROVE  Delivered' /\ Sorted'
<1>1. Types /\ Flow /\ Packets /\ Streams
    BY DEF Ordered
<1>2. ASSUME UNCHANGED <<wire, stat, counting>> PROVE Delivered' /\ Sorted'
    BY <1>2, DeliveredSame, SortedSame
<1>3. pStrms # <<>> => Head(pStrms) \in Opaque
    BY <1>1 DEF Types
<1>4. /\ [t |-> "post", tx |-> "txpost", rx |-> "rxpost"] \in Sent
      /\ [t |-> "0x81", tx |-> "txreq", rx |-> "rxreq"] \in Sent
      /\ [t |-> "start", tx |-> "txstart", rx |-> "rxstart"] \in Sent
      /\ [t |-> "stream", tx |-> "txstream", rx |-> "rxstream"] \in Sent
      /\ [t |-> "finish", tx |-> "txfin", rx |-> "rxfin"] \in Sent
    BY DEF Sent
<1>5. ASSUME NEW x \in Sent,
             NEW id \in {"msgPost", "msgReqsp", "msgStreamRx", "msgStreamTx",
                         "whoami", "heartbeat", Nothing},
             NEW o \in Opaque \cup {0}, Send("client", x.t, id, o, x.tx),
             counting' = counting
      PROVE  Delivered' /\ Sorted'
    BY <1>1, <1>5, ClientBalance
<1>6. CASE Feed \/ FeederCloses \/ Close \/ addCounts \/ UNCHANGED vars
    BY <1>2, <1>6 DEF Feed, FeederCloses, Close, addCounts, vars
<1>7. ASSUME NEW w \in Worker, worker(w) PROVE Delivered' /\ Sorted'
  <2>1. CASE RangeNext(w) \/ RangeEnds(w) \/ Requested(w)
    BY <1>2, <2>1 DEF RangeNext, RangeEnds, Requested
  <2>2. CASE sendpost(w)
    <3>1. /\ Send("client", "post", "msgPost", Head(pStrms), "txpost")
          /\ counting' = counting /\ pStrms # <<>>
      BY <2>2 DEF sendpost
    <3> QED
      BY <1>3, <1>4, <1>5, <3>1
  <2>3. CASE sendreq(w)
    <3>1. PICK id \in {"whoami", "msgReqsp"} :
              Send("client", "0x81", id, Head(pStrms), "txreq")
      BY <2>3 DEF sendreq
    <3>2. counting' = counting /\ pStrms # <<>>
      BY <2>3 DEF sendreq, Open
    <3> QED
      BY <1>3, <1>4, <1>5, <3>1, <3>2
  <2>4. CASE doStream(w)
    <3>1. PICK id \in {"msgStreamRx", "msgStreamTx"} :
              Send("client", "start", id, Head(pStrms), "txstart")
      BY <2>4 DEF doStream
    <3>2. counting' = counting /\ pStrms # <<>>
      BY <2>4 DEF doStream, Open
    <3> QED
      BY <1>3, <1>4, <1>5, <3>1, <3>2
  <2>5. CASE doStreamTx(w)
    <3>1. wk[w].o \in Opaque \cup {0} /\ counting' = counting
      BY <1>1, <2>5 DEF doStreamTx, Types, Routine
    <3>2. \/ Send("client", "stream", "msgStreamRx", wk[w].o, "txstream")
          \/ Send("client", "finish", Nothing, wk[w].o, "txfin")
      BY <2>5 DEF doStreamTx
    <3> QED
      BY <1>4, <1>5, <3>1, <3>2
  <2> QED
    BY <1>7, <2>1, <2>2, <2>3, <2>4, <2>5 DEF worker
<1>8. ASSUME NEW e \in End, Heartbeat(e) PROVE Delivered' /\ Sorted'
  <2>1. CASE e = "client"
    <3>1. /\ Send("client", "post", "heartbeat", Head(pStrms), "txpost")
          /\ counting' = counting /\ pStrms # <<>>
      BY <1>8, <2>1 DEF Heartbeat
    <3> QED
      BY <1>3, <1>4, <1>5, <3>1
  <2>2. CASE e = "server"
    <3>1. /\ Send("server", "post", "heartbeat", 0, "txpost")
          /\ counting' = counting
      BY <1>8, <2>2 DEF Heartbeat
    <3> DEFINE k == [t |-> "post", id |-> "heartbeat", o |-> 0]
    <3>2. k \in Packet /\ k.t = "post"
      BY NewPacket
    <3>3. /\ wire' = [wire EXCEPT !["server"] = Append(@, k)]
          /\ stat' = [stat EXCEPT !["server"]["txpost"] = @ + 1]
      BY <3>1 DEF Send
    <3> HIDE DEF k
    <3>4. wire'["client"] = wire["client"]
      BY <1>1, <3>2, <3>3, SendWire DEF Types, End
    <3>5. Delivered'
      BY <1>1, <3>1, <3>2, <3>3, DeliveredBeat
    <3> QED
      BY <3>4, <3>5, SortedSame
  <2> QED
    BY <2>1, <2>2 DEF End
<1>9. ASSUME NEW x \in senders, Sender(x) PROVE Delivered' /\ Sorted'
    BY <1>1, <1>9, NoSender
<1>10. ASSUME NEW e \in End, syncRx(e) PROVE Delivered' /\ Sorted'
    BY <1>10, SyncRxBalance
<1> QED
    BY <1>6, <1>7, <1>8, <1>9, <1>10 DEF Next

-----------------------------------------------------------------------------
(* Counting: what is sent is what was asked for. *)

\* The numbers from 1 to n are n.
LEMMA FirstNumbers ==
    ASSUME NEW n \in Nat
    PROVE  IsFiniteSet(1..n) /\ Cardinality(1..n) = n
<1>1. 1 \in Int /\ n \in Int
    OBVIOUS
<1>2. /\ IsFiniteSet(1..n)
      /\ Cardinality(1..n) = IF 1 > n THEN 0 ELSE n - 1 + 1
    BY <1>1, FS_Interval
<1> QED
    BY <1>2

\* A sum of finitely many numbers changes with one of them.
LEMMA TotalChanges ==
    ASSUME NEW r \in Nat, NEW n \in Nat, NEW w \in 1..r,
           NEW f \in [1..r -> 0..n], NEW g \in [1..r -> 0..n],
           \A u \in 1..r : u # w => g[u] = f[u]
    PROVE  /\ Total(n, f) \in Nat /\ Total(n, g) \in Nat
           /\ Total(n, g) + f[w] = Total(n, f) + g[w]
<1> DEFINE O == {x \in (1..r) \X (1..n) : x[2] =< f[x[1]] /\ x[1] # w}
<1>1. IsFiniteSet(1..r) /\ IsFiniteSet(1..n)
    BY FirstNumbers
<1>2. IsFiniteSet((1..r) \X (1..n))
    BY <1>1, FS_Product
<1>3. IsFiniteSet(O)
    BY <1>2, FS_Subset
<1>4. ASSUME NEW h \in [1..r -> 0..n], \A u \in 1..r : u # w => h[u] = f[u]
      PROVE  Cardinality(O) \in Nat /\ Total(n, h) = Cardinality(O) + h[w]
  <2> DEFINE C == {x \in (1..r) \X (1..n) : x[2] =< h[x[1]]}
             H == {w} \X (1..h[w])
  <2>1. h[w] \in 0..n /\ h[w] \in Nat
    OBVIOUS
  <2>2. C = O \cup H
    <3>1. ASSUME NEW x \in C PROVE x \in O \cup H
      <4>1. x \in (1..r) \X (1..n) /\ x[2] =< h[x[1]]
        OBVIOUS
      <4>2. CASE x[1] = w
        BY <2>1, <4>1, <4>2
      <4>3. CASE x[1] # w
        BY <1>4, <4>1, <4>3
      <4> QED
        BY <4>2, <4>3
    <3>2. ASSUME NEW x \in O PROVE x \in C
      BY <1>4
    <3>3. ASSUME NEW x \in H PROVE x \in C
      <4>1. x[1] = w /\ x[2] \in 1..h[w] /\ x = <<x[1], x[2]>>
        OBVIOUS
      <4>2. x[2] \in 1..n /\ x[2] =< h[w]
        BY <2>1, <4>1
      <4> QED
        BY <4>1, <4>2
    <3> QED
      BY <3>1, <3>2, <3>3
  <2>3. IsFiniteSet(1..h[w]) /\ Cardinality(1..h[w]) = h[w]
    BY <2>1, FirstNumbers
  <2>4. IsFiniteSet({w}) /\ Cardinality({w}) = 1
    BY FS_Singleton
  <2>5. /\ IsFiniteSet(H)
        /\ Cardinality(H) = Cardinality({w}) * Cardinality(1..h[w])
    BY <2>3, <2>4, FS_Product
  <2>6. Cardinality(H) = h[w]
    BY <2>1, <2>3, <2>4, <2>5
  <2>7. O \cap H = {}
    OBVIOUS
  <2>8. Cardinality(O) \in Nat /\ Cardinality(O \cap H) = 0
    BY <1>3, <2>7, FS_CardinalityType, FS_EmptySet
  <2>9. Cardinality(O \cup H)
            = Cardinality(O) + Cardinality(H) - Cardinality(O \cap H)
    BY <1>3, <2>5, FS_Union
  <2>10. Total(n, h) = Cardinality(C)
    BY DEF Total
  <2> HIDE DEF C, H, O
  <2> QED
    BY <2>1, <2>2, <2>6, <2>8, <2>9, <2>10
<1>5. Cardinality(O) \in Nat /\ Total(n, f) = Cardinality(O) + f[w]
    BY <1>4
<1>6. Total(n, g) = Cardinality(O) + g[w]
    BY <1>4
<1>7. f[w] \in Nat /\ g[w] \in Nat
    OBVIOUS
<1> HIDE DEF O
<1> QED
    BY <1>5, <1>6, <1>7

\* A sum of nothings is nothing, and one of ones their number.
LEMMA TotalIs ==
    ASSUME NEW r \in Nat, NEW n \in Nat, NEW f \in [1..r -> 0..n]
    PROVE  /\ (\A u \in 1..r : f[u] = 0) => Total(n, f) = 0
           /\ n = 1 /\ (\A u \in 1..r : f[u] = 1) => Total(n, f) = r
<1> DEFINE C == {x \in (1..r) \X (1..n) : x[2] =< f[x[1]]}
<1>1. Total(n, f) = Cardinality(C)
    BY DEF Total
<1>2. ASSUME \A u \in 1..r : f[u] = 0 PROVE C = {}
    BY <1>2
<1>3. ASSUME n = 1, \A u \in 1..r : f[u] = 1 PROVE C = (1..r) \X (1..1)
    BY <1>3
<1>4. /\ IsFiniteSet(1..r) /\ Cardinality(1..r) = r
      /\ IsFiniteSet(1..1) /\ Cardinality(1..1) = 1
    BY FirstNumbers
<1>5. Cardinality((1..r) \X (1..1)) = Cardinality(1..r) * Cardinality(1..1)
    BY <1>4, FS_Product
<1>6. Cardinality((1..r) \X (1..1)) = r
    BY <1>4, <1>5
<1>7. Cardinality({}) = 0
    BY FS_EmptySet
<1> HIDE DEF C
<1> QED
    BY <1>1, <1>2, <1>3, <1>6, <1>7

\* The functions that are summed up in Issued.
LEMMA SumTypes ==
    ASSUME Types, Flow, NEW S
    PROVE  /\ InDoch \in [1..options.routines -> 0..options.count]
           /\ At(S) \in [1..options.routines -> 0..1]
           /\ Left \in [1..options.routines -> 0..options.stream]
           /\ options.routines \in Nat /\ options.count \in Nat
           /\ options.stream \in Nat
<1>1. /\ options.routines \in Nat /\ options.count \in Nat
      /\ options.stream \in Nat /\ fed \in 0..options.count
    BY OptionType DEF Types
<1>2. ASSUME NEW w \in Worker PROVE Len(doch[w]) \in 0..options.count
  <2>1. doch[w] \in Seq({doit(options.do)}) /\ Len(doch[w]) =< fed
    BY DEF Types, Flow
  <2>2. Len(doch[w]) \in Nat
    BY <2>1
  <2> QED
    BY <1>1, <2>1, <2>2
<1>3. ASSUME NEW w \in Worker PROVE wk[w].left \in 0..options.stream
    BY WkType
<1> QED
    BY <1>1, <1>2, <1>3 DEF InDoch, At, Is, ToGo, Left, Worker

\* What a step that changes the channel of one routine makes of Queued.
LEMMA QueuedNext ==
    ASSUME Types, Flow, Types', Flow', options' = options, NEW w \in Worker,
           \A u \in Worker : u # w => doch'[u] = doch[u]
    PROVE  /\ Queued \in Nat /\ Queued' \in Nat
           /\ Queued' + Len(doch[w]) = Queued + Len(doch'[w])
<1>1. PICK f : f = InDoch
    OBVIOUS
<1>2. PICK g : g = InDoch'
    OBVIOUS
<1>3. PICK r : r = options.routines
    OBVIOUS
<1>4. PICK n : n = options.count
    OBVIOUS
<1>5. /\ f \in [1..r -> 0..n] /\ g \in [1..r -> 0..n]
      /\ r \in Nat /\ n \in Nat
  <2>1. f \in [1..r -> 0..n] /\ r \in Nat /\ n \in Nat
    BY <1>1, <1>3, <1>4, SumTypes
  <2>2. Worker' = 1..r /\ fed' \in 0..n
    BY <1>3, <1>4, SameOptions DEF Worker, Types
  <2>3. ASSUME NEW u \in 1..r PROVE Len(doch'[u]) \in 0..n
    <3>1. doch' \in [Worker' -> Seq({doit(options'.do)})]
      BY DEF Types
    <3>2. doch'[u] \in Seq({doit(options'.do)})
      BY <2>2, <3>1
    <3>3. Len(doch'[u]) \in Nat
      BY <3>2
    <3>4. Len(doch'[u]) =< fed'
      BY <2>2 DEF Flow
    <3> QED
      BY <2>1, <2>2, <3>3, <3>4
  <2> QED
    BY <1>2, <2>1, <2>2, <2>3 DEF InDoch
<1>6. Worker = 1..r /\ Worker' = 1..r
    BY <1>3 DEF Worker
<1>7. \A u \in 1..r : f[u] = Len(doch[u]) /\ g[u] = Len(doch'[u])
    BY <1>1, <1>2, <1>6 DEF InDoch
<1>8. \A u \in 1..r : u # w => g[u] = f[u]
    BY <1>6, <1>7
<1>9. w \in 1..r
    BY <1>6
<1>10. /\ Total(n, f) \in Nat /\ Total(n, g) \in Nat
       /\ Total(n, g) + f[w] = Total(n, f) + g[w]
    BY <1>5, <1>8, <1>9, TotalChanges
<1>11. Queued = Total(n, f) /\ Queued' = Total(n, g)
    BY <1>1, <1>2, <1>4 DEF Queued
<1> QED
    BY <1>7, <1>9, <1>10, <1>11

\* What a step of one routine makes of the number of those at S.
LEMMA NumberNext ==
    ASSUME Types, Flow, Types', Flow', options' = options, NEW w \in Worker,
           \A u \in Worker : u # w => wk'[u].pc = wk[u].pc, NEW S,
           NEW i, i = Is(wk[w].pc, S),
           NEW j, j = Is(wk'[w].pc, S)
    PROVE  /\ Number(S) \in Nat /\ Number(S)' \in Nat
           /\ Number(S)' + i = Number(S) + j
<1>1. PICK f : f = At(S)
    OBVIOUS
<1>2. PICK g : g = At(S)'
    OBVIOUS
<1>3. PICK r : r = options.routines
    OBVIOUS
<1>5. /\ f \in [1..r -> 0..1] /\ g \in [1..r -> 0..1]
      /\ r \in Nat
  <2>1. f \in [1..r -> 0..1] /\ r \in Nat
    BY <1>1, <1>3, SumTypes
  <2>2. Worker' = 1..r
    BY <1>3, SameOptions DEF Worker
  <2> QED
    BY <1>2, <2>1, <2>2 DEF At, Is
<1>6. Worker = 1..r /\ Worker' = 1..r
    BY <1>3 DEF Worker
<1>7. \A u \in 1..r : /\ f[u] = Is(wk[u].pc, S)
                      /\ g[u] = Is(wk'[u].pc, S)
    BY <1>1, <1>2, <1>6 DEF At
<1>8. \A u \in 1..r : u # w => g[u] = f[u]
    BY <1>6, <1>7
<1>9. w \in 1..r /\ 1 \in Nat
    BY <1>6
<1>10. /\ Total(1, f) \in Nat /\ Total(1, g) \in Nat
       /\ Total(1, g) + f[w] = Total(1, f) + g[w]
    BY <1>5, <1>8, <1>9, TotalChanges
<1>11. Number(S) = Total(1, f) /\ Number(S)' = Total(1, g)
    BY <1>1, <1>2 DEF Number
<1>12. f[w] = i /\ g[w] = j
    BY <1>7, <1>9
<1> QED
    BY <1>10, <1>11, <1>12

\* What a step of one routine makes of the messages to be streamed.
LEMMA ToStreamNext ==
    ASSUME Types, Flow, Types', Flow', options' = options, NEW w \in Worker,
           \A u \in Worker : u # w => wk'[u] = wk[u],
           NEW i, i = ToGo(w), NEW j, j = ToGo(w)'
    PROVE  /\ ToStream \in Nat /\ ToStream' \in Nat
           /\ ToStream' + i = ToStream + j
<1>1. PICK f : f = Left
    OBVIOUS
<1>2. PICK g : g = Left'
    OBVIOUS
<1>3. PICK r : r = options.routines
    OBVIOUS
<1>4. PICK n : n = options.stream
    OBVIOUS
<1>5. /\ f \in [1..r -> 0..n] /\ g \in [1..r -> 0..n]
      /\ r \in Nat /\ n \in Nat
  <2>1. f \in [1..r -> 0..n] /\ r \in Nat /\ n \in Nat
    BY <1>1, <1>3, <1>4, SumTypes
  <2>2. Worker' = 1..r /\ wk' \in [Worker' -> Routine'] /\ options'.stream = n
    BY <1>3, <1>4, SameOptions DEF Worker, Types
  <2>3. ASSUME NEW u \in 1..r PROVE wk'[u].left \in 0..n
    BY <2>2 DEF Routine
  <2> QED
    BY <1>2, <2>1, <2>2, <2>3 DEF Left, ToGo
<1>6. Worker = 1..r /\ Worker' = 1..r
    BY <1>3 DEF Worker
<1>7. \A u \in 1..r :
         /\ f[u] = ToGo(u)
         /\ g[u] = ToGo(u)'
    BY <1>1, <1>2, <1>6 DEF Left
<1>8. \A u \in 1..r : u # w => g[u] = f[u]
    BY <1>6, <1>7 DEF ToGo
<1>9. w \in 1..r
    BY <1>6
<1>10. /\ Total(n, f) \in Nat /\ Total(n, g) \in Nat
       /\ Total(n, g) + f[w] = Total(n, f) + g[w]
    BY <1>5, <1>8, <1>9, TotalChanges
<1>11. ToStream = Total(n, f) /\ ToStream' = Total(n, g)
    BY <1>1, <1>2, <1>4 DEF ToStream
<1>12. f[w] = i /\ g[w] = j
    BY <1>7, <1>9
<1> QED
    BY <1>10, <1>11, <1>12


\* The part that routine w has in the sums of Issued is kept in a step.
Keeps(w) ==
    LET c == stat["client"]
        d == stat'["client"]
        a(S) == Is(wk[w].pc, S)
        b(S) == Is(wk'[w].pc, S)
        m == Len(doch[w])
        n == Len(doch'[w])
    IN
    /\ IF options.do = "post"
       THEN d["txpost"] + n + b({"sendpost"}) + fed + nbeat["client"]
                = c["txpost"] + m + a({"sendpost"}) + fed' + nbeat'["client"]
       ELSE d["txpost"] + nbeat["client"] = c["txpost"] + nbeat'["client"]
    /\ IF Perfs("request")
       THEN d["txreq"] + n + b({"sendreq"}) + fed + a({"bye", "done"})
                = c["txreq"] + m + a({"sendreq"}) + fed' + b({"bye", "done"})
       ELSE d["txreq"] + a({"bye", "done"}) = c["txreq"] + b({"bye", "done"})
    /\ IF Perfs("streamtx")
       THEN d["txstart"] + n + b({"sendstream"}) + fed
                = c["txstart"] + m + a({"sendstream"}) + fed'
       ELSE d["txstart"] = c["txstart"]
    /\ d["txfin"] + b({"streaming"}) + c["txstart"]
           = c["txfin"] + a({"streaming"}) + d["txstart"]
    /\ \/ /\ d["txstart"] = c["txstart"]
          /\ d["txstream"] + ToGo(w)' = c["txstream"] + ToGo(w)
       \/ /\ d["txstart"] = c["txstart"] + 1
          /\ d["txstream"] + ToGo(w)'
                 = c["txstream"] + ToGo(w) + options.stream

\* One more of s.
LEMMA OneMore ==
    ASSUME NEW a \in Nat, NEW s \in Nat
    PROVE  (a + 1) * s = a * s + s /\ a * s \in Nat
OBVIOUS

\* Issued is kept when the part of one routine is and the others do nothing.
LEMMA IssuedMoves ==
    ASSUME Types, Flow, Types', Flow', Issued, options' = options,
           NEW w \in Worker, Keeps(w),
           \A u \in Worker : u # w => doch'[u] = doch[u] /\ wk'[u] = wk[u]
    PROVE  Issued'
<1>1. /\ Perfs("request")' <=> Perfs("request")
      /\ Perfs("streamtx")' <=> Perfs("streamtx")
      /\ options'.do = options.do /\ options'.stream = options.stream
    BY SameOptions
<1>2. /\ \A u \in Worker : u # w => doch'[u] = doch[u]
      /\ \A u \in Worker : u # w => wk'[u] = wk[u]
      /\ \A u \in Worker : u # w => wk'[u].pc = wk[u].pc
    OBVIOUS
<1>3. /\ options.count \in Nat /\ options.stream \in Nat
      /\ fed \in 0..options.count /\ fed' \in 0..options.count
    BY OptionType DEF Types
<1>4. PICK F \in Nat : F = fed
    BY <1>3
<1>5. PICK G \in Nat : G = fed'
    BY <1>3
<1>6. /\ nbeat["client"] \in Nat /\ nbeat'["client"] \in Nat
      /\ \A k \in Counter : /\ stat["client"][k] \in Nat
                            /\ stat'["client"][k] \in Nat
  <2>1. options.maxbeat \in Nat
    BY OptionType DEF Types
  <2> QED
    BY <2>1 DEF Types, End
<1>7. PICK x \in Nat : x = nbeat["client"]
    BY <1>6
<1>8. PICK y \in Nat : y = nbeat'["client"]
    BY <1>6
<1>9. Len(doch[w]) \in Nat /\ Len(doch'[w]) \in Nat
  <2>1. doch[w] \in Seq({doit(options.do)})
    BY DEF Types
  <2>2. doch'[w] \in Seq({doit(options'.do)})
    BY SameOptions DEF Types
  <2> QED
    BY <2>1, <2>2
<1>10. PICK m \in Nat : m = Len(doch[w])
    BY <1>9
<1>11. PICK n \in Nat : n = Len(doch'[w])
    BY <1>9
<1>12. /\ Queued \in Nat /\ Queued' \in Nat
       /\ Queued' + Len(doch[w]) = Queued + Len(doch'[w])
    BY <1>2, QueuedNext
<1>13. PICK Q \in Nat : Q = Queued
    BY <1>12
<1>14. PICK R \in Nat : R = Queued'
    BY <1>12
<1>15. R + m = Q + n
    BY <1>10, <1>11, <1>12, <1>13, <1>14
<1> DEFINE Parts(S) == \E M \in Nat, N \in Nat, a \in Nat, b \in Nat :
                           /\ M = Number(S) /\ N = Number(S)'
                           /\ a = Is(wk[w].pc, S) /\ b = Is(wk'[w].pc, S)
                           /\ N + a = M + b
<1>16. ASSUME NEW S PROVE Parts(S)
  <2>1. Is(wk[w].pc, S) \in Nat /\ Is(wk'[w].pc, S) \in Nat
    BY DEF Is
  <2>2. PICK a \in Nat : a = Is(wk[w].pc, S)
    BY <2>1
  <2>3. PICK b \in Nat : b = Is(wk'[w].pc, S)
    BY <2>1
  <2>4. /\ Number(S) \in Nat /\ Number(S)' \in Nat
        /\ Number(S)' + a = Number(S) + b
    BY <1>2, <2>2, <2>3, NumberNext
  <2> QED
    BY <2>2, <2>3, <2>4
<1> HIDE DEF Parts
<1>17. IF options.do = "post"
       THEN fed' + nbeat'["client"]
                = Queued' + Number({"sendpost"})' + stat'["client"]["txpost"]
       ELSE stat'["client"]["txpost"] = nbeat'["client"]
  <2>1. PICK c \in Nat : c = stat["client"]["txpost"]
    BY <1>6 DEF Counter
  <2>2. PICK d \in Nat : d = stat'["client"]["txpost"]
    BY <1>6 DEF Counter
  <2>3. CASE options.do = "post"
    <3>1. PICK M \in Nat, N \in Nat, a \in Nat, b \in Nat :
              /\ M = Number({"sendpost"}) /\ N = Number({"sendpost"})'
              /\ a = Is(wk[w].pc, {"sendpost"})
              /\ b = Is(wk'[w].pc, {"sendpost"})
              /\ N + a = M + b
      <4>1. Parts({"sendpost"})
        BY <1>16
      <4> QED
        BY <4>1 DEF Parts
    <3>2. F + x = Q + M + c
      BY <1>4, <1>7, <1>13, <2>1, <2>3, <3>1 DEF Issued
    <3>3. d + n + b + F + x = c + m + a + G + y
      BY <1>4, <1>5, <1>7, <1>8, <1>10, <1>11, <2>1, <2>2, <2>3, <3>1
      DEF Keeps
    <3>4. N + a = M + b
      BY <3>1
    <3>5. G + y = R + N + d
      BY <1>15, <3>2, <3>3, <3>4
    <3> QED
      BY <1>5, <1>8, <1>14, <2>2, <2>3, <3>1, <3>5
  <2>4. CASE options.do # "post"
    <3>1. c = x
      BY <1>7, <2>1, <2>4 DEF Issued
    <3>2. d + x = c + y
      BY <1>7, <1>8, <2>1, <2>2, <2>4 DEF Keeps
    <3>3. d = y
      BY <3>1, <3>2
    <3> QED
      BY <1>8, <2>2, <2>4, <3>3
  <2> QED
    BY <2>3, <2>4
<1>18. IF Perfs("request")
       THEN fed' + Number({"bye", "done"})'
                = Queued' + Number({"sendreq"})' + stat'["client"]["txreq"]
       ELSE stat'["client"]["txreq"] = Number({"bye", "done"})'
  <2>1. PICK c \in Nat : c = stat["client"]["txreq"]
    BY <1>6 DEF Counter
  <2>2. PICK d \in Nat : d = stat'["client"]["txreq"]
    BY <1>6 DEF Counter
  <2>3. PICK K \in Nat, L \in Nat, e \in Nat, f \in Nat :
            /\ K = Number({"bye", "done"}) /\ L = Number({"bye", "done"})'
            /\ e = Is(wk[w].pc, {"bye", "done"})
            /\ f = Is(wk'[w].pc, {"bye", "done"})
            /\ L + e = K + f
    <3>1. Parts({"bye", "done"})
      BY <1>16
    <3> QED
      BY <3>1 DEF Parts
  <2>4. CASE Perfs("request")
    <3>1. PICK M \in Nat, N \in Nat, a \in Nat, b \in Nat :
              /\ M = Number({"sendreq"}) /\ N = Number({"sendreq"})'
              /\ a = Is(wk[w].pc, {"sendreq"})
              /\ b = Is(wk'[w].pc, {"sendreq"})
              /\ N + a = M + b
      <4>1. Parts({"sendreq"})
        BY <1>16
      <4> QED
        BY <4>1 DEF Parts
    <3>2. F + K = Q + M + c
      BY <1>4, <1>13, <2>1, <2>3, <2>4, <3>1 DEF Issued
    <3>3. d + n + b + F + e = c + m + a + G + f
      BY <1>4, <1>5, <1>10, <1>11, <2>1, <2>2, <2>3, <2>4, <3>1 DEF Keeps
    <3>4. N + a = M + b /\ L + e = K + f
      BY <2>3, <3>1
    <3>5. G + L = R + N + d
      <4>1. PICK p \in Nat : p = R + N
        OBVIOUS
      <4>2. PICK q \in Nat : q = Q + M
        OBVIOUS
      <4>3. PICK u \in Nat : u = m + a
        OBVIOUS
      <4>4. PICK v \in Nat : v = n + b
        OBVIOUS
      <4>5. PICK g \in Nat : g = F + e
        OBVIOUS
      <4>6. PICK h \in Nat : h = c + f
        OBVIOUS
      <4>7. p + u = q + v
        BY <1>15, <3>4, <4>1, <4>2, <4>3, <4>4
      <4>8. g + L = q + h
        BY <3>2, <3>4, <4>2, <4>5, <4>6
      <4>9. d + v + g = u + G + h
        BY <3>3, <4>3, <4>4, <4>5, <4>6
      <4>10. G + L = p + d
        BY <4>7, <4>8, <4>9
      <4> QED
        BY <4>1, <4>10
    <3> QED
      BY <1>5, <1>14, <2>2, <2>3, <2>4, <3>1, <3>5
  <2>5. CASE ~Perfs("request")
    <3>1. c = K
      BY <2>1, <2>3, <2>5 DEF Issued
    <3>2. d + e = c + f
      BY <2>1, <2>2, <2>3, <2>5 DEF Keeps
    <3>3. L + e = K + f
      BY <2>3
    <3>4. d = L
      BY <3>1, <3>2, <3>3
    <3> QED
      BY <2>2, <2>3, <2>5, <3>4
  <2> QED
    BY <2>4, <2>5
<1>19. IF Perfs("streamtx")
       THEN fed' = Queued' + Number({"sendstream"})'
                       + stat'["client"]["txstart"]
       ELSE stat'["client"]["txstart"] = 0
  <2>1. PICK c \in Nat : c = stat["client"]["txstart"]
    BY <1>6 DEF Counter
  <2>2. PICK d \in Nat : d = stat'["client"]["txstart"]
    BY <1>6 DEF Counter
  <2>3. CASE Perfs("streamtx")
    <3>1. PICK M \in Nat, N \in Nat, a \in Nat, b \in Nat :
              /\ M = Number({"sendstream"}) /\ N = Number({"sendstream"})'
              /\ a = Is(wk[w].pc, {"sendstream"})
              /\ b = Is(wk'[w].pc, {"sendstream"})
              /\ N + a = M + b
      <4>1. Parts({"sendstream"})
        BY <1>16
      <4> QED
        BY <4>1 DEF Parts
    <3>2. F = Q + M + c
      BY <1>4, <1>13, <2>1, <2>3, <3>1 DEF Issued
    <3>3. d + n + b + F = c + m + a + G
      BY <1>4, <1>5, <1>10, <1>11, <2>1, <2>2, <2>3, <3>1 DEF Keeps
    <3>4. N + a = M + b
      BY <3>1
    <3>5. G = R + N + d
      BY <1>15, <3>2, <3>3, <3>4
    <3> QED
      BY <1>5, <1>14, <2>2, <2>3, <3>1, <3>5
  <2>4. CASE ~Perfs("streamtx")
    BY <2>4 DEF Issued, Keeps
  <2> QED
    BY <2>3, <2>4
<1>20. /\ stat'["client"]["txfin"] + Number({"streaming"})'
              = stat'["client"]["txstart"]
       /\ stat'["client"]["txstream"] + ToStream'
              = stat'["client"]["txstart"] * options.stream
  <2>1. PICK c \in Nat : c = stat["client"]["txstart"]
    BY <1>6 DEF Counter
  <2>2. PICK d \in Nat : d = stat'["client"]["txstart"]
    BY <1>6 DEF Counter
  <2>3. PICK e \in Nat : e = stat["client"]["txfin"]
    BY <1>6 DEF Counter
  <2>4. PICK f \in Nat : f = stat'["client"]["txfin"]
    BY <1>6 DEF Counter
  <2>5. PICK g \in Nat : g = stat["client"]["txstream"]
    BY <1>6 DEF Counter
  <2>6. PICK h \in Nat : h = stat'["client"]["txstream"]
    BY <1>6 DEF Counter
  <2>7. PICK M \in Nat, N \in Nat, a \in Nat, b \in Nat :
            /\ M = Number({"streaming"}) /\ N = Number({"streaming"})'
            /\ a = Is(wk[w].pc, {"streaming"})
            /\ b = Is(wk'[w].pc, {"streaming"})
            /\ N + a = M + b
    <3>1. Parts({"streaming"})
      BY <1>16
    <3> QED
      BY <3>1 DEF Parts
  <2>8. e + M = c
    BY <2>1, <2>3, <2>7 DEF Issued
  <2>9. f + b + c = e + a + d
    BY <2>1, <2>2, <2>3, <2>4, <2>7 DEF Keeps
  <2>10. f + N = d
    <3>1. N + a = M + b
      BY <2>7
    <3> QED
      BY <2>8, <2>9, <3>1
  <2>11. PICK i : i = ToGo(w)
    OBVIOUS
  <2>12. PICK j : j = ToGo(w)'
    OBVIOUS
  <2>13. i \in Nat /\ j \in Nat
    <3>1. wk[w].left \in 0..options.stream
      BY WkType
    <3>2. wk'[w].left \in 0..options.stream
      BY SameOptions DEF Types, Routine
    <3> QED
      BY <1>3, <2>11, <2>12, <3>1, <3>2 DEF ToGo
  <2>14. ToStream \in Nat /\ ToStream' \in Nat /\ ToStream' + i = ToStream + j
    BY <1>2, <2>11, <2>12, ToStreamNext
  <2>15. PICK T \in Nat : T = ToStream
    BY <2>14
  <2>16. PICK U \in Nat : U = ToStream'
    BY <2>14
  <2>17. U + i = T + j
    BY <2>14, <2>15, <2>16
  <2>18. PICK s \in Nat : s = options.stream
    BY <1>3
  <2>19. PICK q \in Nat : q = c * s /\ (c + 1) * s = q + s
    BY OneMore
  <2>20. g + T = q
    BY <2>1, <2>5, <2>15, <2>18, <2>19 DEF Issued
  <2>21. \/ d = c /\ h + j = g + i
         \/ d = c + 1 /\ h + j = g + i + s
    BY <2>1, <2>2, <2>5, <2>6, <2>11, <2>12, <2>18 DEF Keeps
  <2>22. CASE d = c /\ h + j = g + i
    <3>1. h + U = q
      BY <2>13, <2>17, <2>20, <2>22
    <3> QED
      BY <2>2, <2>4, <2>6, <2>7, <2>10, <2>16, <2>18, <2>19, <2>22, <3>1,
         Zenon
  <2>23. CASE d = c + 1 /\ h + j = g + i + s
    <3>1. h + U = q + s
      BY <2>13, <2>17, <2>20, <2>23
    <3> QED
      BY <2>2, <2>4, <2>6, <2>7, <2>10, <2>16, <2>18, <2>19, <2>23, <3>1,
         Zenon
  <2> QED
    BY <2>21, <2>22, <2>23
<1> QED
  <2> DEFINE st == stat'["client"]
  <2> QED
    BY <1>1, <1>17, <1>18, <1>19, <1>20 DEF Issued

\* The counters of what is sent by the client's routines.
Tx == {"txpost", "txreq", "txstart", "txstream", "txfin"}

\* The numbers of which Keeps speaks.
LEMMA PartTypes ==
    ASSUME Types, NEW w \in Worker
    PROVE  /\ \A k \in Tx : stat["client"][k] \in Nat
           /\ Len(doch[w]) \in Nat /\ ToGo(w) \in Nat /\ fed \in Nat
           /\ nbeat["client"] \in Nat /\ options.stream \in Nat
<1>1. /\ options.count \in Nat /\ options.stream \in Nat
      /\ fed \in 0..options.count
    BY OptionType DEF Types
<1>2. fed \in Nat
    BY <1>1
<1>3. \A k \in Tx : stat["client"][k] \in Nat
    BY DEF Types, Tx, End, Counter
<1>4. doch[w] \in Seq({doit(options.do)})
    BY DEF Types
<1>5. Len(doch[w]) \in Nat
    BY <1>4
<1>6. nbeat["client"] \in Nat
    BY NumberTypes DEF End
<1>7. wk[w].left \in 0..options.stream
    BY WkType
<1>8. ToGo(w) \in Nat
    BY <1>1, <1>7 DEF ToGo
<1> QED
    BY <1>1, <1>2, <1>3, <1>5, <1>6, <1>8

\* What changes in a step of routine w from a to b, in terms of Keeps: the
\* counters by v, operations fed by F, heartbeats by B, those in doch by D.
Gives(w, a, b, v, F, B, D) ==
    /\ \A k \in Tx : stat'["client"][k] = stat["client"][k] + v[k]
    /\ fed' = fed + F /\ nbeat'["client"] = nbeat["client"] + B
    /\ Len(doch'[w]) = Len(doch[w]) + D
    /\ wk[w].pc = a /\ wk'[w].pc = b
    /\ IF options.do = "post"
       THEN v["txpost"] + D + Is(b, {"sendpost"})
                = Is(a, {"sendpost"}) + F + B
       ELSE v["txpost"] = B
    /\ IF Perfs("request")
       THEN v["txreq"] + D + Is(b, {"sendreq"}) + Is(a, {"bye", "done"})
                = Is(a, {"sendreq"}) + Is(b, {"bye", "done"}) + F
       ELSE v["txreq"] + Is(a, {"bye", "done"}) = Is(b, {"bye", "done"})
    /\ IF Perfs("streamtx")
       THEN v["txstart"] + D + Is(b, {"sendstream"})
                = Is(a, {"sendstream"}) + F
       ELSE v["txstart"] = 0
    /\ v["txfin"] + Is(b, {"streaming"})
           = Is(a, {"streaming"}) + v["txstart"]
    /\ ToGo(w)' \in Nat
    /\ \/ v["txstart"] = 0 /\ v["txstream"] + ToGo(w)' = ToGo(w)
       \/ /\ v["txstart"] = 1
          /\ v["txstream"] + ToGo(w)' = ToGo(w) + options.stream

\* That is enough.
LEMMA KeepsWhen ==
    ASSUME Types, NEW w \in Worker, NEW v \in [Tx -> Nat], NEW F \in Nat,
           NEW B \in Nat, NEW D \in Int, NEW a, NEW b,
           Gives(w, a, b, v, F, B, D)
    PROVE  Keeps(w)
<1>1. /\ \A k \in Tx : stat["client"][k] \in Nat
      /\ Len(doch[w]) \in Nat /\ ToGo(w) \in Nat /\ fed \in Nat
      /\ nbeat["client"] \in Nat /\ options.stream \in Nat
    BY PartTypes
<1>2. \A S : Is(a, S) \in Nat /\ Is(b, S) \in Nat
    BY DEF Is
<1>3. /\ "txpost" \in Tx /\ "txreq" \in Tx /\ "txstart" \in Tx
      /\ "txfin" \in Tx /\ "txstream" \in Tx
    BY DEF Tx
<1>4. \A k \in Tx : v[k] \in Nat
    OBVIOUS
<1>5. ASSUME NEW k \in Tx
      PROVE  \E c \in Nat, e \in Nat :
                 /\ c = stat["client"][k] /\ c + e = stat'["client"][k]
                 /\ e = v[k]
  <2>1. stat["client"][k] \in Nat /\ v[k] \in Nat
    BY <1>1, <1>4
  <2>2. stat'["client"][k] = stat["client"][k] + v[k]
    BY DEF Gives
  <2> QED
    BY <2>1, <2>2
<1>6. PICK f \in Nat : f = fed
    BY <1>1
<1>7. PICK x \in Nat : x = nbeat["client"]
    BY <1>1
<1>8. PICK m \in Nat : m = Len(doch[w])
    BY <1>1
<1>9. f + F = fed' /\ x + B = nbeat'["client"] /\ m + D = Len(doch'[w])
    BY <1>6, <1>7, <1>8 DEF Gives
<1>10. PICK p1 \in Nat, e1 \in Nat :
           /\ p1 = stat["client"]["txpost"]
           /\ p1 + e1 = stat'["client"]["txpost"] /\ e1 = v["txpost"]
    BY <1>3, <1>5
<1>11. PICK p2 \in Nat, e2 \in Nat :
           /\ p2 = stat["client"]["txreq"]
           /\ p2 + e2 = stat'["client"]["txreq"] /\ e2 = v["txreq"]
    BY <1>3, <1>5
<1>12. PICK p3 \in Nat, e3 \in Nat :
           /\ p3 = stat["client"]["txstart"]
           /\ p3 + e3 = stat'["client"]["txstart"] /\ e3 = v["txstart"]
    BY <1>3, <1>5
<1>13. PICK p4 \in Nat, e4 \in Nat :
           /\ p4 = stat["client"]["txfin"]
           /\ p4 + e4 = stat'["client"]["txfin"] /\ e4 = v["txfin"]
    BY <1>3, <1>5
<1>14. PICK p5 \in Nat, e5 \in Nat :
           /\ p5 = stat["client"]["txstream"]
           /\ p5 + e5 = stat'["client"]["txstream"] /\ e5 = v["txstream"]
    BY <1>3, <1>5
<1>15. IF options.do = "post"
       THEN (p1 + e1) + (m + D) + Is(b, {"sendpost"}) + f + x
                = p1 + m + Is(a, {"sendpost"}) + (f + F) + (x + B)
       ELSE (p1 + e1) + x = p1 + (x + B)
  <2>1. PICK i \in Nat : i = Is(a, {"sendpost"})
    BY <1>2
  <2>2. PICK j \in Nat : j = Is(b, {"sendpost"})
    BY <1>2
  <2>3. IF options.do = "post" THEN e1 + D + j = i + F + B ELSE e1 = B
    BY <1>10, <2>1, <2>2 DEF Gives
  <2>4. e1 + D + j = i + F + B
            => (p1 + e1) + (m + D) + j + f + x = p1 + m + i + (f + F) + (x + B)
    OBVIOUS
  <2>5. e1 = B => (p1 + e1) + x = p1 + (x + B)
    OBVIOUS
  <2> QED
    BY <2>1, <2>2, <2>3, <2>4, <2>5
<1>16. IF Perfs("request")
       THEN (p2 + e2) + (m + D) + Is(b, {"sendreq"}) + f
                + Is(a, {"bye", "done"})
                = p2 + m + Is(a, {"sendreq"}) + (f + F)
                      + Is(b, {"bye", "done"})
       ELSE (p2 + e2) + Is(a, {"bye", "done"}) = p2 + Is(b, {"bye", "done"})
  <2>1. PICK i \in Nat : i = Is(a, {"sendreq"})
    BY <1>2
  <2>2. PICK j \in Nat : j = Is(b, {"sendreq"})
    BY <1>2
  <2>3. PICK g \in Nat : g = Is(a, {"bye", "done"})
    BY <1>2
  <2>4. PICK h \in Nat : h = Is(b, {"bye", "done"})
    BY <1>2
  <2>5. IF Perfs("request") THEN e2 + D + j + g = i + h + F ELSE e2 + g = h
    BY <1>11, <2>1, <2>2, <2>3, <2>4 DEF Gives
  <2>6. e2 + D + j + g = i + h + F
            => (p2 + e2) + (m + D) + j + f + g = p2 + m + i + (f + F) + h
    OBVIOUS
  <2>7. e2 + g = h => (p2 + e2) + g = p2 + h
    OBVIOUS
  <2> QED
    BY <2>1, <2>2, <2>3, <2>4, <2>5, <2>6, <2>7
<1>17. IF Perfs("streamtx")
       THEN (p3 + e3) + (m + D) + Is(b, {"sendstream"}) + f
                = p3 + m + Is(a, {"sendstream"}) + (f + F)
       ELSE (p3 + e3) = p3
  <2>1. PICK i \in Nat : i = Is(a, {"sendstream"})
    BY <1>2
  <2>2. PICK j \in Nat : j = Is(b, {"sendstream"})
    BY <1>2
  <2>3. IF Perfs("streamtx") THEN e3 + D + j = i + F ELSE e3 = 0
    BY <1>12, <2>1, <2>2 DEF Gives
  <2>4. e3 + D + j = i + F
            => (p3 + e3) + (m + D) + j + f = p3 + m + i + (f + F)
    OBVIOUS
  <2>5. e3 = 0 => p3 + e3 = p3
    OBVIOUS
  <2> QED
    BY <2>1, <2>2, <2>3, <2>4, <2>5
<1>18. (p4 + e4) + Is(b, {"streaming"}) + p3
           = p4 + Is(a, {"streaming"}) + (p3 + e3)
  <2>1. PICK i \in Nat : i = Is(a, {"streaming"})
    BY <1>2
  <2>2. PICK j \in Nat : j = Is(b, {"streaming"})
    BY <1>2
  <2>3. e4 + j = i + e3
    BY <1>12, <1>13, <2>1, <2>2 DEF Gives
  <2>4. (p4 + e4) + j + p3 = p4 + i + (p3 + e3)
    BY <2>3
  <2> QED
    BY <2>1, <2>2, <2>4
<1>19. \/ p3 + e3 = p3 /\ (p5 + e5) + ToGo(w)' = p5 + ToGo(w)
       \/ /\ p3 + e3 = p3 + 1
          /\ (p5 + e5) + ToGo(w)' = p5 + ToGo(w) + options.stream
  <2>1. PICK i \in Nat : i = ToGo(w)
    BY <1>1
  <2>2. PICK j \in Nat : j = ToGo(w)'
    BY DEF Gives
  <2>3. PICK s \in Nat : s = options.stream
    BY <1>1
  <2>4. \/ e3 = 0 /\ e5 + j = i
        \/ e3 = 1 /\ e5 + j = i + s
    BY <1>12, <1>14, <2>1, <2>2, <2>3 DEF Gives
  <2>5. \/ p3 + e3 = p3 /\ (p5 + e5) + j = p5 + i
        \/ p3 + e3 = p3 + 1 /\ (p5 + e5) + j = p5 + i + s
    BY <2>4
  <2> QED
    BY <2>1, <2>2, <2>3, <2>5
<1>20. /\ IF options.do = "post"
          THEN stat'["client"]["txpost"] + Len(doch'[w])
                   + Is(wk'[w].pc, {"sendpost"}) + fed + nbeat["client"]
               = stat["client"]["txpost"] + Len(doch[w])
                   + Is(wk[w].pc, {"sendpost"}) + fed' + nbeat'["client"]
          ELSE stat'["client"]["txpost"] + nbeat["client"]
                   = stat["client"]["txpost"] + nbeat'["client"]
       /\ IF Perfs("request")
          THEN stat'["client"]["txreq"] + Len(doch'[w])
                   + Is(wk'[w].pc, {"sendreq"}) + fed
                   + Is(wk[w].pc, {"bye", "done"})
               = stat["client"]["txreq"] + Len(doch[w])
                   + Is(wk[w].pc, {"sendreq"}) + fed'
                   + Is(wk'[w].pc, {"bye", "done"})
          ELSE stat'["client"]["txreq"] + Is(wk[w].pc, {"bye", "done"})
                   = stat["client"]["txreq"] + Is(wk'[w].pc, {"bye", "done"})
       /\ IF Perfs("streamtx")
          THEN stat'["client"]["txstart"] + Len(doch'[w])
                   + Is(wk'[w].pc, {"sendstream"}) + fed
               = stat["client"]["txstart"] + Len(doch[w])
                   + Is(wk[w].pc, {"sendstream"}) + fed'
          ELSE stat'["client"]["txstart"] = stat["client"]["txstart"]
  <2>1. wk[w].pc = a /\ wk'[w].pc = b
    BY DEF Gives
  <2> QED
    BY <1>6, <1>7, <1>8, <1>9, <1>10, <1>11, <1>12, <1>15, <1>16, <1>17,
       <2>1
<1>21. /\ stat'["client"]["txfin"] + Is(wk'[w].pc, {"streaming"})
              + stat["client"]["txstart"]
           = stat["client"]["txfin"] + Is(wk[w].pc, {"streaming"})
              + stat'["client"]["txstart"]
       /\ \/ /\ stat'["client"]["txstart"] = stat["client"]["txstart"]
             /\ stat'["client"]["txstream"] + ToGo(w)'
                    = stat["client"]["txstream"] + ToGo(w)
          \/ /\ stat'["client"]["txstart"] = stat["client"]["txstart"] + 1
             /\ stat'["client"]["txstream"] + ToGo(w)'
                    = stat["client"]["txstream"] + ToGo(w) + options.stream
  <2>1. wk[w].pc = a /\ wk'[w].pc = b
    BY DEF Gives
  <2> QED
    BY <1>12, <1>13, <1>14, <1>18, <1>19, <2>1
<1> QED
    BY <1>20, <1>21 DEF Keeps

\* What the client sends is counted.
LEMMA CountsSent ==
    ASSUME Types, NEW t, NEW id, NEW o, NEW k \in Tx,
           Send("client", t, id, o, k)
    PROVE  \A j \in Tx : stat'["client"][j] = IF j = k
                                              THEN stat["client"][j] + 1
                                              ELSE stat["client"][j]
<1>1. stat' = [stat EXCEPT !["client"][k] = @ + 1]
    BY DEF Send
<1>2. stat \in [End -> [Counter -> Nat]] /\ "client" \in End
      /\ Tx \subseteq Counter
    BY DEF Types, End, Tx, Counter
<1> QED
    BY <1>1, <1>2

\* Nothing of which Issued speaks changes.
LEMMA StillIssued ==
    ASSUME Types, Flow, Types', Flow', Issued, options' = options,
           doch' = doch, fed' = fed, wk' = wk,
           nbeat'["client"] = nbeat["client"],
           \A k \in Tx : stat'["client"][k] = stat["client"][k]
    PROVE  Issued'
<1>1. 1 \in Worker
    BY OptionType DEF Types
<1>2. /\ \A k \in Tx : stat["client"][k] \in Nat
      /\ Len(doch[1]) \in Nat /\ ToGo(1) \in Nat /\ fed \in Nat
      /\ nbeat["client"] \in Nat /\ options.stream \in Nat
    BY <1>1, PartTypes
<1>3. ToGo(1)' = ToGo(1)
    BY DEF ToGo
<1>4. \A S : Is(wk[1].pc, S) \in Nat
    BY DEF Is
<1>5. Keeps(1)
    BY <1>2, <1>3, <1>4 DEF Keeps, Tx
<1> QED
    BY <1>1, <1>5, IssuedMoves

\* An operation goes into a channel.
LEMMA FeedIssued ==
    ASSUME Types, Flow, Types', Flow', Issued, Feed
    PROVE  Issued'
<1>0. PICK w : w = (fed % options.routines) + 1
    OBVIOUS
<1>1. /\ fed' = fed + 1 /\ options' = options /\ wk' = wk
      /\ doch' = [doch EXCEPT ![w] = Append(@, doit(options.do))]
      /\ nbeat' = nbeat /\ stat' = stat
    BY <1>0 DEF Feed
<1>2. w \in Worker
  <2>1. /\ options.count \in Nat /\ options.routines \in Nat \ {0}
        /\ fed \in 0..options.count
    BY OptionType DEF Types
  <2>2. fed \in Nat
    BY <2>1
  <2>3. fed % options.routines \in 0..(options.routines - 1)
    BY <2>1, <2>2
  <2> QED
    BY <1>0, <2>1, <2>3 DEF Worker
<1>3. /\ \A k \in Tx : stat["client"][k] \in Nat
      /\ Len(doch[w]) \in Nat /\ ToGo(w) \in Nat /\ fed \in Nat
      /\ nbeat["client"] \in Nat /\ options.stream \in Nat
    BY <1>2, PartTypes
<1>4. ToGo(w)' = ToGo(w)
  <2>1. wk'[w] = wk[w]
    BY <1>1
  <2> QED
    BY <2>1 DEF ToGo
<1>5. \A S : Is(wk[w].pc, S) \in Nat
    BY DEF Is
<1>6. /\ \A u \in Worker : u # w => doch'[u] = doch[u]
      /\ Len(doch'[w]) = Len(doch[w]) + 1
  <2>1. \A u \in Worker : doch[u] \in Seq({doit(options.do)})
    BY DEF Types
  <2>2. doch'[w] = Append(doch[w], doit(options.do))
    BY <1>1, <1>2 DEF Types
  <2>3. Len(doch'[w]) = Len(doch[w]) + 1
    BY <1>2, <2>1, <2>2
  <2>4. \A u \in Worker : u # w => doch'[u] = doch[u]
    BY <1>1 DEF Types
  <2> QED
    BY <2>3, <2>4
<1> DEFINE v == [k \in Tx |-> 0]
<1>7. PICK a : a = wk[w].pc
    OBVIOUS
<1>8. v \in [Tx -> Nat] /\ \A k \in Tx : v[k] = 0
    OBVIOUS
<1>9. /\ v["txpost"] = 0 /\ v["txreq"] = 0 /\ v["txstart"] = 0
      /\ v["txfin"] = 0 /\ v["txstream"] = 0
    BY DEF Tx
<1> HIDE DEF v
<1>10. /\ \A k \in Tx : stat'["client"][k] = stat["client"][k] + v[k]
       /\ nbeat'["client"] = nbeat["client"] + 0
       /\ wk[w].pc = a /\ wk'[w].pc = a
    BY <1>1, <1>3, <1>7, <1>8
<1>11. Gives(w, a, a, v, 1, 0, 1)
  <2>1. \A S : Is(a, S) \in Nat
    BY <1>5, <1>7
  <2> QED
    BY <1>1, <1>3, <1>4, <1>6, <1>9, <1>10, <2>1, SMTT(60) DEF Gives
<1>12. Keeps(w)
    BY <1>2, <1>8, <1>11, KeepsWhen
<1> QED
    BY <1>1, <1>2, <1>6, <1>12, IssuedMoves

\* A routine takes an operation.
LEMMA RangeIssued ==
    ASSUME Types, Flow, Types', Flow', Issued, ~Endless,
           NEW w \in Worker, RangeNext(w)
    PROVE  Issued'
<1> DEFINE pc == IF options.prog = "perf" THEN doit(options.do)
                 ELSE exampleWorker(doit(options.do))
<1>1. /\ wk[w].pc = "range" /\ doch[w] # <<>> /\ fed' = fed
      /\ doch' = [doch EXCEPT ![w] = Tail(@)] /\ options' = options
      /\ nbeat' = nbeat /\ stat' = stat
    BY DEF RangeNext
<1>2. options.prog \in {"perf", "example"} /\ options.do \in Do
    BY OptionType DEF Types
<1>3. /\ doch[w] \in Seq({doit(options.do)})
      /\ doch \in [Worker -> Seq({doit(options.do)})]
    BY DEF Types
<1>4. Head(doch[w]) = doit(options.do)
    BY <1>1, <1>3
<1>5. Goto(w, pc)
    BY <1>4 DEF RangeNext
<1>6. pc \in Pc
    BY <1>2 DEF doit, exampleWorker, Do, Pc
<1> HIDE DEF pc
<1>7. /\ wk'[w].pc = pc /\ \A u \in Worker : u # w => wk'[u] = wk[u]
    BY <1>5, <1>6, GotoType
<1>8. /\ \A u \in Worker : u # w => doch'[u] = doch[u]
      /\ Len(doch[w]) = Len(doch'[w]) + 1 /\ Len(doch'[w]) \in Nat
    BY <1>1, <1>3
<1>9. /\ \A k \in Tx : stat["client"][k] \in Nat
      /\ fed \in Nat /\ nbeat["client"] \in Nat
    BY PartTypes
<1>10. pc # "streaming" /\ pc \notin {"bye", "done"}
    BY <1>2 DEF pc, doit, exampleWorker, Do
<1>11. ToGo(w) = 0 /\ ToGo(w)' = 0
    BY <1>1, <1>7, <1>10 DEF ToGo
<1>12. /\ options.do = "post" => pc = "sendpost"
       /\ Perfs("request") => pc = "sendreq"
       /\ Perfs("streamtx") => pc = "sendstream"
    BY <1>2 DEF pc, doit, exampleWorker, Perfs
<1>13. /\ \A S : wk[w].pc \notin S => Is(wk[w].pc, S) = 0
       /\ \A S : wk'[w].pc \notin S => Is(wk'[w].pc, S) = 0
       /\ \A S : wk'[w].pc \in S => Is(wk'[w].pc, S) = 1
    BY DEF Is
<1> DEFINE v == [k \in Tx |-> 0]
<1>14. v \in [Tx -> Nat] /\ \A k \in Tx : v[k] = 0
    OBVIOUS
<1>15. /\ v["txpost"] = 0 /\ v["txreq"] = 0 /\ v["txstart"] = 0
       /\ v["txfin"] = 0 /\ v["txstream"] = 0
    BY DEF Tx
<1> HIDE DEF v
<1>16. /\ \A k \in Tx : stat'["client"][k] = stat["client"][k] + v[k]
       /\ fed' = fed + 0 /\ nbeat'["client"] = nbeat["client"] + 0
    BY <1>1, <1>9, <1>14
<1>17. -1 \in Int /\ Len(doch'[w]) = Len(doch[w]) + (-1)
    BY <1>8
<1>18. PICK b : b = pc
    OBVIOUS
<1>19. wk'[w].pc = b
    BY <1>7, <1>18
<1>20. Gives(w, "range", b, v, 0, 0, -1)
  <2>1. /\ Is("range", {"sendpost"}) = 0 /\ Is("range", {"sendreq"}) = 0
        /\ Is("range", {"sendstream"}) = 0 /\ Is("range", {"streaming"}) = 0
        /\ Is("range", {"bye", "done"}) = 0
    BY DEF Is
  <2>2. /\ Is(b, {"bye", "done"}) = 0 /\ Is(b, {"streaming"}) = 0
        /\ options.do = "post" => Is(b, {"sendpost"}) = 1
        /\ Perfs("request") => Is(b, {"sendreq"}) = 1
        /\ Perfs("streamtx") => Is(b, {"sendstream"}) = 1
    BY <1>10, <1>12, <1>18 DEF Is
  <2> QED
    BY <1>1, <1>11, <1>15, <1>16, <1>17, <1>19, <2>1, <2>2 DEF Gives
<1>21. Keeps(w)
    BY <1>14, <1>17, <1>20, KeepsWhen
<1> QED
    BY <1>1, <1>7, <1>8, <1>21, IssuedMoves

\* A routine goes on without taking one.
LEMMA GoesIssued ==
    ASSUME Types, Flow, Types', Flow', Issued, options' = options,
           NEW w \in Worker, NEW a, wk[w].pc = a, NEW b, wk'[w].pc = b,
           \A u \in Worker : u # w => wk'[u] = wk[u],
           doch' = doch, fed' = fed, nbeat'["client"] = nbeat["client"],
           NEW k \in Tx \cup {Nothing},
           \A j \in Tx : stat'["client"][j] = IF j = k
                                              THEN stat["client"][j] + 1
                                              ELSE stat["client"][j],
           \/ a = "range" /\ b = "whoami" /\ k = Nothing
           \/ a = "wait" /\ b = "range" /\ k = Nothing
           \/ a = "bye" /\ b = "done" /\ k = Nothing
           \/ a = "sendpost" /\ b = "range" /\ k = "txpost"
           \/ a = "whoami" /\ b = "bye" /\ k = "txreq"
           \/ a = "sendreq" /\ b = "wait" /\ k = "txreq"
           \/ /\ a = "sendstream" /\ b = "streaming" /\ k = "txstart"
              /\ wk'[w].left = options.stream
           \/ /\ a = "streaming" /\ b = "streaming" /\ k = "txstream"
              /\ wk'[w].left = wk[w].left - 1
           \/ /\ a = "streaming" /\ b = "range" /\ k = "txfin"
              /\ wk[w].left = 0
    PROVE  Issued'
<1>1. /\ \A j \in Tx : stat["client"][j] \in Nat
      /\ Len(doch[w]) \in Nat /\ ToGo(w) \in Nat
      /\ fed \in Nat /\ nbeat["client"] \in Nat /\ options.stream \in Nat
    BY PartTypes
<1>2. /\ a = "sendpost" => options.do = "post"
      /\ a \in {"sendreq", "wait"} => Perfs("request")
      /\ a \in {"sendstream", "streaming"} => Perfs("streamtx")
    BY DEF Flow, Pcs
<1>3. /\ options.do = "post" => ~Perfs("request") /\ ~Perfs("streamtx")
      /\ Perfs("request") => ~Perfs("streamtx")
    BY DEF Perfs
<1>4. \A S : /\ Is(a, S) \in {0, 1} /\ Is(b, S) \in {0, 1}
             /\ Is(k, S) \in {0, 1}
    BY DEF Is
<1>5. \A j \in Tx : stat'["client"][j] = stat["client"][j] + Is(k, {j})
    BY <1>1 DEF Is
<1>6. Nothing \notin Tx
    BY DEF Nothing, Tx
<1>7. IF options.do = "post"
      THEN Is(k, {"txpost"}) + Is(b, {"sendpost"}) = Is(a, {"sendpost"})
      ELSE Is(k, {"txpost"}) = 0
    BY <1>2, <1>6 DEF Is, Tx
<1>8. IF Perfs("request")
      THEN Is(k, {"txreq"}) + Is(b, {"sendreq"}) + Is(a, {"bye", "done"})
               = Is(a, {"sendreq"}) + Is(b, {"bye", "done"})
      ELSE Is(k, {"txreq"}) + Is(a, {"bye", "done"}) = Is(b, {"bye", "done"})
    BY <1>2, <1>6 DEF Is, Tx
<1>9. IF Perfs("streamtx")
      THEN Is(k, {"txstart"}) + Is(b, {"sendstream"}) = Is(a, {"sendstream"})
      ELSE Is(k, {"txstart"}) = 0
    BY <1>2, <1>6 DEF Is, Tx
<1>10. Is(k, {"txfin"}) + Is(b, {"streaming"})
           = Is(a, {"streaming"}) + Is(k, {"txstart"})
    BY <1>6 DEF Is, Tx
<1>11. wk[w].left \in 0..options.stream
    BY WkType
<1>12. \/ /\ Is(k, {"txstart"}) = 0
          /\ Is(k, {"txstream"}) + ToGo(w)' = ToGo(w)
       \/ /\ Is(k, {"txstart"}) = 1
          /\ Is(k, {"txstream"}) + ToGo(w)' = ToGo(w) + options.stream
    BY <1>1, <1>6, <1>11 DEF Is, Tx, ToGo
<1> DEFINE v == [j \in Tx |-> Is(k, {j})]
<1>13. v \in [Tx -> Nat] /\ \A j \in Tx : v[j] = Is(k, {j})
    BY <1>4
<1>14. /\ "txpost" \in Tx /\ "txreq" \in Tx /\ "txstart" \in Tx
       /\ "txfin" \in Tx /\ "txstream" \in Tx
    BY DEF Tx
<1> HIDE DEF v
<1>15. /\ \A j \in Tx : stat'["client"][j] = stat["client"][j] + v[j]
       /\ fed' = fed + 0 /\ nbeat'["client"] = nbeat["client"] + 0
       /\ Len(doch'[w]) = Len(doch[w]) + 0
  <2>1. Len(doch'[w]) = Len(doch[w])
    OBVIOUS
  <2>2. \A j \in Tx : stat'["client"][j] = stat["client"][j] + v[j]
    BY <1>5, <1>13, Zenon
  <2> QED
    BY <1>1, <2>1, <2>2
<1>16. /\ v["txpost"] = Is(k, {"txpost"}) /\ v["txreq"] = Is(k, {"txreq"})
       /\ v["txstart"] = Is(k, {"txstart"}) /\ v["txfin"] = Is(k, {"txfin"})
       /\ v["txstream"] = Is(k, {"txstream"})
    BY <1>13, <1>14
<1>17. ToGo(w)' \in Nat
  <2>1. wk'[w].left \in Nat
    BY SameOptions, <1>1 DEF Types, Routine
  <2> QED
    BY <2>1 DEF ToGo
<1>18. Gives(w, a, b, v, 0, 0, 0)
  <2>1. \A S : Is(a, S) \in Nat /\ Is(b, S) \in Nat /\ Is(k, S) \in Nat
    BY <1>4
  <2> QED
    BY <1>7, <1>8, <1>9, <1>10, <1>12, <1>15, <1>16, <1>17, <2>1 DEF Gives
<1>19. Keeps(w)
    BY <1>13, <1>18, KeepsWhen
<1> QED
    BY <1>19, IssuedMoves

\* The client posts a heartbeat.
LEMMA BeatIssued ==
    ASSUME Types, Flow, Types', Flow', Issued, options' = options,
           doch' = doch, fed' = fed, wk' = wk,
           nbeat'["client"] = nbeat["client"] + 1,
           \A j \in Tx : stat'["client"][j] = IF j = "txpost"
                                              THEN stat["client"][j] + 1
                                              ELSE stat["client"][j]
    PROVE  Issued'
<1>1. 1 \in Worker
    BY OptionType DEF Types
<1>2. /\ \A k \in Tx : stat["client"][k] \in Nat
      /\ Len(doch[1]) \in Nat /\ ToGo(1) \in Nat /\ fed \in Nat
      /\ nbeat["client"] \in Nat /\ options.stream \in Nat
    BY <1>1, PartTypes
<1>3. ToGo(1)' = ToGo(1)
    BY DEF ToGo
<1>4. PICK a : a = wk[1].pc
    OBVIOUS
<1> DEFINE v == [k \in Tx |-> IF k = "txpost" THEN 1 ELSE 0]
<1>5. /\ v \in [Tx -> Nat]
      /\ \A k \in Tx : v[k] = IF k = "txpost" THEN 1 ELSE 0
    OBVIOUS
<1>6. /\ v["txpost"] = 1 /\ v["txreq"] = 0 /\ v["txstart"] = 0
      /\ v["txfin"] = 0 /\ v["txstream"] = 0
    BY DEF Tx
<1> HIDE DEF v
<1>7. /\ \A k \in Tx : stat'["client"][k] = stat["client"][k] + v[k]
      /\ fed' = fed + 0 /\ Len(doch'[1]) = Len(doch[1]) + 0
      /\ wk[1].pc = a /\ wk'[1].pc = a
    BY <1>2, <1>4, <1>5
<1>8. Gives(1, a, a, v, 0, 1, 0)
  <2>1. \A S : Is(a, S) \in Nat
    BY DEF Is
  <2> QED
    BY <1>2, <1>3, <1>6, <1>7, <2>1 DEF Gives
<1>9. Keeps(1)
    BY <1>1, <1>5, <1>8, KeepsWhen
<1> QED
    BY <1>1, <1>9, IssuedMoves

\* What a routine does keeps Issued.
LEMMA WorkerIssued ==
    ASSUME Types, Flow, Types', Flow', Issued, ~Endless,
           NEW w \in Worker, worker(w)
    PROVE  Issued'
<1>1. "client" \in End
    BY DEF End
<1>2. ASSUME NEW k \in Tx, NEW t, NEW id, NEW o, Send("client", t, id, o, k)
      PROVE  \A j \in Tx : stat'["client"][j] = IF j = k
                                                THEN stat["client"][j] + 1
                                                ELSE stat["client"][j]
    BY <1>2, CountsSent
<1>3. ASSUME stat' = stat
      PROVE  \A j \in Tx : stat'["client"][j] = IF j = Nothing
                                                THEN stat["client"][j] + 1
                                                ELSE stat["client"][j]
    BY <1>3 DEF Tx, Nothing
<1>4. ASSUME NEW b \in Pc, Goto(w, b)
      PROVE  /\ wk'[w].pc = b /\ wk'[w].left = wk[w].left
             /\ \A u \in Worker : u # w => wk'[u] = wk[u]
    BY <1>4, GotoType
<1>5. CASE RangeNext(w)
    BY <1>5, RangeIssued
<1>6. CASE RangeEnds(w)
  <2>1. /\ wk[w].pc = "range" /\ Goto(w, "whoami") /\ stat' = stat
        /\ options' = options /\ doch' = doch /\ fed' = fed
        /\ nbeat' = nbeat
    BY <1>6 DEF RangeEnds, base
  <2>2. /\ wk'[w].pc = "whoami"
        /\ \A u \in Worker : u # w => wk'[u] = wk[u]
    BY <1>4, <2>1 DEF Pc
  <2>3. \A j \in Tx : stat'["client"][j] = IF j = Nothing
                                           THEN stat["client"][j] + 1
                                           ELSE stat["client"][j]
    BY <1>3, <2>1
  <2> QED
    BY <2>1, <2>2, <2>3, GoesIssued
<1>7. CASE sendpost(w)
  <2>1. /\ wk[w].pc = "sendpost" /\ Goto(w, "range")
        /\ Send("client", "post", "msgPost", Head(pStrms), "txpost")
        /\ options' = options /\ doch' = doch /\ fed' = fed
        /\ nbeat' = nbeat
    BY <1>7 DEF sendpost, base
  <2>2. /\ wk'[w].pc = "range"
        /\ \A u \in Worker : u # w => wk'[u] = wk[u]
    BY <1>4, <2>1 DEF Pc
  <2>3. "txpost" \in Tx
    BY DEF Tx
  <2>4. \A j \in Tx : stat'["client"][j] = IF j = "txpost"
                                           THEN stat["client"][j] + 1
                                           ELSE stat["client"][j]
    BY <1>2, <2>1, <2>3
  <2> QED
    BY <2>1, <2>2, <2>3, <2>4, GoesIssued
<1>8. CASE sendreq(w)
  <2>1. PICK a \in {"sendreq", "whoami"} : wk[w].pc = a
    BY <1>8 DEF sendreq
  <2>2. PICK b : b = IF a = "whoami" THEN "bye" ELSE "wait"
    OBVIOUS
  <2>3. /\ options' = options /\ doch' = doch /\ fed' = fed
        /\ nbeat' = nbeat /\ Open(w, b, 0)
        /\ \E id : Send("client", "0x81", id, Head(pStrms), "txreq")
    BY <1>8, <2>1, <2>2 DEF sendreq, base
  <2>4. b \in Pc /\ 0 \in 0..options.stream
    BY <2>1, <2>2, OptionType DEF Pc, Types
  <2>5. /\ wk'[w].pc = b /\ \A u \in Worker : u # w => wk'[u] = wk[u]
    BY <2>3, <2>4, OpenType
  <2>6. "txreq" \in Tx
    BY DEF Tx
  <2>7. \A j \in Tx : stat'["client"][j] = IF j = "txreq"
                                           THEN stat["client"][j] + 1
                                           ELSE stat["client"][j]
    BY <1>2, <2>3, <2>6
  <2>8. \/ a = "whoami" /\ b = "bye"
        \/ a = "sendreq" /\ b = "wait"
    BY <2>1, <2>2
  <2> QED
    BY <2>1, <2>3, <2>5, <2>6, <2>7, <2>8, GoesIssued
<1>9. CASE Requested(w)
  <2>1. PICK a \in {"wait", "bye"} : wk[w].pc = a
    BY <1>9 DEF Requested
  <2>2. PICK b : b = IF a = "bye" THEN "done" ELSE "range"
    OBVIOUS
  <2>3. /\ options' = options /\ doch' = doch /\ fed' = fed
        /\ nbeat' = nbeat /\ Goto(w, b) /\ stat' = stat
    BY <1>9, <2>1, <2>2 DEF Requested, base
  <2>4. b \in Pc
    BY <2>1, <2>2 DEF Pc
  <2>5. /\ wk'[w].pc = b /\ \A u \in Worker : u # w => wk'[u] = wk[u]
    BY <1>4, <2>3, <2>4
  <2>6. \A j \in Tx : stat'["client"][j] = IF j = Nothing
                                           THEN stat["client"][j] + 1
                                           ELSE stat["client"][j]
    BY <1>3, <2>3
  <2>7. \/ a = "bye" /\ b = "done"
        \/ a = "wait" /\ b = "range"
    BY <2>1, <2>2
  <2> QED
    BY <2>1, <2>3, <2>5, <2>6, <2>7, GoesIssued
<1>10. CASE doStream(w)
  <2>1. wk[w].pc = "sendstream"
    BY <1>10 DEF doStream, Flow, Pcs, Perfs, Endless
  <2>2. /\ options' = options /\ doch' = doch /\ fed' = fed
        /\ nbeat' = nbeat /\ Open(w, "streaming", options.stream)
        /\ \E id : Send("client", "start", id, Head(pStrms), "txstart")
    BY <1>10, <2>1 DEF doStream, base
  <2>3. "streaming" \in Pc /\ options.stream \in 0..options.stream
    BY OptionType DEF Pc, Types
  <2>4. /\ wk'[w].pc = "streaming" /\ wk'[w].left = options.stream
        /\ \A u \in Worker : u # w => wk'[u] = wk[u]
    BY <2>2, <2>3, OpenType
  <2>5. "txstart" \in Tx
    BY DEF Tx
  <2>6. \A j \in Tx : stat'["client"][j] = IF j = "txstart"
                                           THEN stat["client"][j] + 1
                                           ELSE stat["client"][j]
    BY <1>2, <2>2, <2>5
  <2> QED
    BY <2>1, <2>2, <2>4, <2>5, <2>6, GoesIssued
<1>11. CASE doStreamTx(w)
  <2>1. /\ wk[w].pc = "streaming"
        /\ options' = options /\ doch' = doch /\ fed' = fed
        /\ nbeat' = nbeat
    BY <1>11 DEF doStreamTx, base
  <2>2. "txstream" \in Tx /\ "txfin" \in Tx
    BY DEF Tx
  <2>3. CASE /\ wk[w].left > 0
             /\ Send("client", "stream", "msgStreamRx", wk[w].o, "txstream")
             /\ wk' = [wk EXCEPT ![w].left = @ - 1]
    <3>1. /\ wk'[w].pc = "streaming" /\ wk'[w].left = wk[w].left - 1
          /\ \A u \in Worker : u # w => wk'[u] = wk[u]
      BY <2>1, <2>3 DEF Types, Routine
    <3>2. \A j \in Tx : stat'["client"][j] = IF j = "txstream"
                                             THEN stat["client"][j] + 1
                                             ELSE stat["client"][j]
      BY <1>2, <2>2, <2>3
    <3> QED
      BY <2>1, <2>2, <3>1, <3>2, GoesIssued
  <2>4. CASE /\ wk[w].left = 0
             /\ Send("client", "finish", Nothing, wk[w].o, "txfin")
             /\ Goto(w, "range")
    <3>1. /\ wk'[w].pc = "range"
          /\ \A u \in Worker : u # w => wk'[u] = wk[u]
      BY <1>4, <2>4 DEF Pc
    <3>2. \A j \in Tx : stat'["client"][j] = IF j = "txfin"
                                             THEN stat["client"][j] + 1
                                             ELSE stat["client"][j]
      BY <1>2, <2>2, <2>4
    <3> QED
      BY <2>1, <2>2, <2>4, <3>1, <3>2, GoesIssued
  <2> QED
    BY <1>11, <2>3, <2>4 DEF doStreamTx
<1> QED
    BY <1>5, <1>6, <1>7, <1>8, <1>9, <1>10, <1>11 DEF worker

\* Every step keeps Issued.
LEMMA NextIssued ==
    ASSUME Ordered, Ordered', ~Endless, Delivered, Issued, [Next]_vars
    PROVE  Issued'
<1>1. Types /\ Flow /\ Streams /\ Types' /\ Flow'
    BY DEF Ordered
<1>2. options' = options
    BY NextOptions DEF vars, client, base
<1>3. ASSUME doch' = doch, fed' = fed, wk' = wk,
             nbeat'["client"] = nbeat["client"],
             \A k \in Tx : stat'["client"][k] = stat["client"][k]
      PROVE  Issued'
    BY <1>1, <1>2, <1>3, StillIssued
<1>4. CASE Feed
    BY <1>1, <1>4, FeedIssued
<1>5. CASE FeederCloses \/ Close \/ addCounts \/ UNCHANGED vars
  <2>1. /\ doch' = doch /\ fed' = fed /\ wk' = wk /\ nbeat' = nbeat
        /\ stat' = stat
    BY <1>5 DEF FeederCloses, Close, addCounts, vars, client, base
  <2> QED
    BY <1>3, <2>1
<1>6. ASSUME NEW w \in Worker, worker(w) PROVE Issued'
    BY <1>1, <1>6, WorkerIssued
<1>7. ASSUME NEW e \in End, syncRx(e) PROVE Issued'
  <2>1. doch' = doch /\ fed' = fed /\ wk' = wk /\ nbeat' = nbeat
    BY <1>7 DEF syncRx, handlepkt, handlePost, handleStream, handleRequest,
                handleStart, handleDuplicate, handleFinishServer,
                handleResponse, handleFinishClient, Count, streamupdate,
                client, base
  <2>2. stat \in [End -> [Counter -> Nat]] /\ "client" \in End
    BY <1>1 DEF Types, End
  <2>3. \A k \in Tx : stat'["client"][k] = stat["client"][k]
    <3>1. CASE Count(e)
      <4>1. Tx \cap Rx = {} /\ Tx \subseteq Counter
        BY DEF Tx, Rx, Counter
      <4>2. counting[e] \in Rx
        BY <3>1 DEF Delivered, Count
      <4>3. ASSUME NEW k \in Tx
            PROVE  stat'["client"][k] = stat["client"][k]
        <5>1. k \in Counter /\ k # counting[e]
          BY <4>1, <4>2
        <5> QED
          BY <1>1, <2>2, <3>1, <5>1, CountSettled
      <4> QED
        BY <4>3
    <3>2. CASE stat' = stat
      BY <3>2
    <3>3. CASE \E t, id, o, k : Answers(t, id, o, k)
      <4>1. PICK k : stat' = [stat EXCEPT !["server"][k] = @ + 1]
        BY <3>3 DEF Answers
      <4> QED
        BY <2>2, <4>1
    <3> QED
      BY <1>7, <3>1, <3>2, <3>3
      DEF syncRx, handlepkt, handlePost, handleStream, handleRequest,
          handleStart, handleDuplicate, handleFinishServer,
          handleResponse, handleFinishClient, streamupdate, Closes
  <2> QED
    BY <1>3, <2>1, <2>3
<1>8. ASSUME NEW e \in End, Heartbeat(e) PROVE Issued'
  <2>1. doch' = doch /\ fed' = fed /\ wk' = wk
        /\ nbeat' = [nbeat EXCEPT ![e] = @ + 1]
    BY <1>8 DEF Heartbeat, client, base
  <2>2. CASE e = "client"
    <3>1. Send("client", "post", "heartbeat", Head(pStrms), "txpost")
      BY <1>8, <2>2 DEF Heartbeat
    <3>2. "txpost" \in Tx
      BY DEF Tx
    <3>3. \A j \in Tx : stat'["client"][j] = IF j = "txpost"
                                             THEN stat["client"][j] + 1
                                             ELSE stat["client"][j]
      BY <1>1, <3>1, <3>2, CountsSent
    <3>4. nbeat'["client"] = nbeat["client"] + 1
      BY <1>1, <2>1, <2>2 DEF Types, End
    <3> QED
      BY <1>1, <1>2, <2>1, <3>3, <3>4, BeatIssued
  <2>3. CASE e = "server"
    <3>1. stat' = [stat EXCEPT !["server"]["txpost"] = @ + 1]
      BY <1>8, <2>3 DEF Heartbeat, Send
    <3>2. /\ nbeat'["client"] = nbeat["client"]
          /\ stat'["client"] = stat["client"]
      BY <1>1, <2>1, <2>3, <3>1 DEF Types, End
    <3> QED
      BY <1>3, <2>1, <3>2
  <2> QED
    BY <2>2, <2>3 DEF End
<1>9. ASSUME NEW x \in senders, Sender(x) PROVE Issued'
    BY <1>1, <1>9, NoSender
<1> QED
    BY <1>4, <1>5, <1>6, <1>7, <1>8, <1>9 DEF Next

\* The sums when all routines are alike.
LEMMA AllAlike ==
    ASSUME Types, Flow, NEW pc, pc # "streaming",
           \A w \in Worker : doch[w] = <<>> /\ wk[w].pc = pc
    PROVE  /\ Queued = 0 /\ ToStream = 0
           /\ \A S : Number(S) = IF pc \in S THEN options.routines ELSE 0
<1>1. /\ options.routines \in Nat /\ options.count \in Nat
      /\ options.stream \in Nat
      /\ InDoch \in [1..options.routines -> 0..options.count]
      /\ Left \in [1..options.routines -> 0..options.stream]
    BY SumTypes
<1>2. \A u \in 1..options.routines : InDoch[u] = 0 /\ Left[u] = 0
    BY EmptyLen DEF InDoch, Left, ToGo, Worker
<1>3. Queued = 0
    BY <1>1, <1>2, TotalIs DEF Queued
<1>4. ToStream = 0
    BY <1>1, <1>2, TotalIs DEF ToStream
<1>5. ASSUME NEW S
      PROVE  Number(S) = IF pc \in S THEN options.routines ELSE 0
  <2>1. At(S) \in [1..options.routines -> 0..1] /\ 1 \in Nat
    BY SumTypes
  <2>2. \A u \in 1..options.routines : At(S)[u] = IF pc \in S THEN 1 ELSE 0
    BY DEF At, Is, Worker
  <2>3. CASE pc \in S
    <3>1. \A u \in 1..options.routines : At(S)[u] = 1
      BY <2>2, <2>3
    <3> QED
      BY <1>1, <2>1, <2>3, <3>1, TotalIs DEF Number
  <2>4. CASE pc \notin S
    <3>1. \A u \in 1..options.routines : At(S)[u] = 0
      BY <2>2, <2>4
    <3> QED
      BY <1>1, <2>1, <2>4, <3>1, TotalIs DEF Number
  <2> QED
    BY <2>3, <2>4
<1> QED
    BY <1>3, <1>4, <1>5

\* At first nothing is counted and nothing is to be.
LEMMA InitCounts == Init => Issued /\ Delivered /\ Sorted
<1> SUFFICES ASSUME Init PROVE Issued /\ Delivered /\ Sorted
    OBVIOUS
<1>1. Types /\ Flow
    BY InitOrdered DEF Ordered
<1>2. "client" \in End /\ "server" \in End
    BY DEF End
<1>3. \A w \in Worker : doch[w] = <<>> /\ wk[w].pc = "range"
    BY DEF Init
<1>4. /\ Queued = 0 /\ ToStream = 0
      /\ \A S : Number(S) = IF "range" \in S THEN options.routines ELSE 0
    BY <1>1, <1>3, AllAlike
<1>5. /\ Number({"sendpost"}) = 0 /\ Number({"sendreq"}) = 0
      /\ Number({"bye", "done"}) = 0 /\ Number({"sendstream"}) = 0
      /\ Number({"streaming"}) = 0
    BY <1>4
<1>6. /\ \A e \in End : \A k \in Counter : stat[e][k] = 0
      /\ \A e \in End : counting[e] = Nothing /\ wire[e] = <<>>
      /\ fed = 0 /\ nbeat["client"] = 0
    BY <1>2 DEF Init
<1>7. \A e \in End : \A k \in Counter : Settled(e, k) = 0
    BY <1>6 DEF Settled, Counter, Nothing
<1>8. ASSUME NEW e \in End, NEW t PROVE Way(e, t) = 0
  <2>1. Keep(Kind(t), wire[e]) = <<>>
    BY <1>6, KeepEmpty
  <2> QED
    BY <2>1, EmptyLen DEF Way
<1>9. Issued
  <2>1. /\ stat["client"]["txpost"] = 0 /\ stat["client"]["txreq"] = 0
        /\ stat["client"]["txstart"] = 0 /\ stat["client"]["txfin"] = 0
        /\ stat["client"]["txstream"] = 0
    BY <1>2, <1>6 DEF Counter
  <2>2. options.stream \in Nat
    BY OptionType DEF Init
  <2>3. 0 * options.stream = 0
    BY <2>2
  <2> QED
    BY <1>4, <1>5, <1>6, <2>1, <2>3 DEF Issued
<1>10. Delivered
  <2>1. \A x \in Sent \cup Replied : x.tx \in Counter /\ x.rx \in Counter
    BY SentTypes
  <2>2. "mdrops" \in Counter
    BY DEF Counter
  <2> QED
    BY <1>2, <1>6, <1>7, <1>8, <2>1, <2>2 DEF Delivered
<1>11. Sorted
  <2>1. Len(wire["client"]) = 0
    BY <1>2, <1>6, EmptyLen
  <2> QED
    BY <1>2, <1>8, <2>1 DEF Sorted
<1> QED
    BY <1>9, <1>10, <1>11

\* When every routine is done, they are those of the work asked for.
LEMMA CountsReport ==
    ASSUME Calm, ~Endless => Issued /\ Delivered /\ Sorted
    PROVE  ReportHonest
<1> SUFFICES ASSUME main # "wait" PROVE ReportHonest
    BY DEF ReportHonest
<1>1. Types /\ Flow /\ Packets
    BY DEF Calm, Ordered
<1>2. /\ ~Endless /\ fed = options.count
      /\ \A w \in Worker : wk[w].pc = "done" /\ doch[w] = <<>>
    BY <1>1, EndlessWaits
<1>3. Issued /\ Delivered /\ Sorted
    BY <1>2
<1>4. "client" \in End /\ "server" \in End
    BY DEF End
<1>5. \A e \in End : \A i \in DOMAIN wire[e] : wire[e][i].id = "heartbeat"
    BY CalmCloses DEF CloseLosesNothing
<1>6. ASSUME NEW e \in End, NEW t, t # "post" PROVE Way(e, t) = 0
  <2>1. wire[e] \in Seq(Packet) /\ options \in Options
    BY <1>1 DEF Types
  <2>2. ASSUME NEW i \in DOMAIN wire[e] PROVE wire[e][i] \notin Kind(t)
    <3>1. wire[e] \in Seq(IF e = "client" THEN FromClient ELSE FromServer)
      BY <1>1 DEF Packets, End
    <3>2. wire[e][i] \in IF e = "client" THEN FromClient ELSE FromServer
      BY <2>2, <3>1
    <3>3. wire[e][i].t = "post"
      BY <1>5, <3>2 DEF FromClient, FromServer
    <3> QED
      BY <1>6, <3>3 DEF Kind
  <2>3. Keep(Kind(t), wire[e]) = <<>>
    BY <2>1, <2>2, KeepNone
  <2> QED
    BY <2>3, EmptyLen DEF Way
<1>7. /\ Queued = 0 /\ ToStream = 0
      /\ \A S : Number(S) = IF "done" \in S THEN options.routines ELSE 0
    BY <1>1, <1>2, AllAlike
<1>8. /\ Number({"sendpost"}) = 0 /\ Number({"sendreq"}) = 0
      /\ Number({"bye", "done"}) = options.routines
      /\ Number({"sendstream"}) = 0 /\ Number({"streaming"}) = 0
    BY <1>7
<1>9. /\ \A e \in End : \A k \in Counter :
             stat[e][k] \in Nat /\ Settled(e, k) \in Nat
      /\ \A e \in End : \A t : Way(e, t) \in Nat
      /\ nbeat["client"] \in Nat /\ Len(wire["client"]) \in Nat
    BY <1>1, <1>4, NumberTypes
<1>10. /\ options.count \in Nat /\ options.routines \in Nat
       /\ options.stream \in Nat
       /\ options.prog \in {"perf", "example"} /\ options.do \in Do
    BY <1>1, OptionType DEF Types
<1>11. PICK st : st = stat["client"]
    OBVIOUS
<1>12. /\ st["txpost"] \in Nat /\ st["txreq"] \in Nat /\ st["txstart"] \in Nat
       /\ st["txfin"] \in Nat /\ st["txstream"] \in Nat
    BY <1>4, <1>9, <1>11 DEF Counter
<1>13. st["txpost"] = Done("post") + nbeat["client"]
  <2>1. CASE options.do = "post"
    <3>1. options.count + nbeat["client"] = 0 + 0 + st["txpost"]
      BY <1>2, <1>3, <1>7, <1>8, <1>11, <2>1 DEF Issued
    <3>2. Done("post") = options.count
      BY <2>1 DEF Done
    <3> QED
      BY <1>9, <1>10, <1>12, <3>1, <3>2
  <2>2. CASE options.do # "post"
    <3>1. st["txpost"] = nbeat["client"]
      BY <1>3, <1>11, <2>2 DEF Issued
    <3>2. Done("post") = 0
      BY <2>2 DEF Done
    <3> QED
      BY <1>9, <3>1, <3>2
  <2> QED
    BY <2>1, <2>2
<1>14. st["txreq"] = Done("request") + options.routines
  <2>1. CASE Perfs("request")
    <3>1. options.count + options.routines = 0 + 0 + st["txreq"]
      BY <1>2, <1>3, <1>7, <1>8, <1>11, <2>1 DEF Issued
    <3>2. Done("request") = options.count
      BY <2>1 DEF Done, Perfs
    <3> QED
      BY <1>10, <1>12, <3>1, <3>2
  <2>2. CASE ~Perfs("request")
    <3>1. st["txreq"] = options.routines
      BY <1>3, <1>8, <1>11, <2>2 DEF Issued
    <3>2. Done("request") = 0
      BY <2>2 DEF Done, Perfs
    <3> QED
      BY <1>10, <3>1, <3>2
  <2> QED
    BY <2>1, <2>2
<1>15. st["txstart"] = Done("streamtx")
  <2>1. CASE Perfs("streamtx")
    <3>1. options.count = 0 + 0 + st["txstart"]
      BY <1>2, <1>3, <1>7, <1>8, <1>11, <2>1 DEF Issued
    <3>2. Done("streamtx") = options.count
      BY <2>1 DEF Done, Perfs
    <3> QED
      BY <1>10, <1>12, <3>1, <3>2
  <2>2. CASE ~Perfs("streamtx")
    <3>1. st["txstart"] = 0
      BY <1>3, <1>11, <2>2 DEF Issued
    <3>2. Done("streamtx") = 0
      BY <2>2 DEF Done, Perfs
    <3> QED
      BY <3>1, <3>2
  <2> QED
    BY <2>1, <2>2
<1>16. st["txfin"] = st["txstart"]
  <2>1. st["txfin"] + 0 = st["txstart"]
    BY <1>3, <1>8, <1>11 DEF Issued
  <2> QED
    BY <1>12, <2>1
<1>17. st["txstream"] = Done("streamtx") * options.stream
  <2>1. st["txstream"] + 0 = st["txstart"] * options.stream
    BY <1>3, <1>7, <1>11 DEF Issued
  <2>2. st["txstream"] = st["txstart"] * options.stream
    BY <1>12, <2>1
  <2> QED
    BY <1>15, <2>2
<1>18. Settled("server", "rxpost") + Len(wire["client"]) = st["txpost"]
  <2>1. Settled("server", "rxpost") + Way("client", "post") = st["txpost"]
    BY <1>3, <1>11 DEF Delivered, Sent
  <2>2. Len(wire["client"]) = Way("client", "post") + 0 + 0 + 0 + 0
    BY <1>3, <1>4, <1>6 DEF Sorted
  <2>3. Len(wire["client"]) = Way("client", "post")
    BY <1>4, <1>9, <2>2
  <2> QED
    BY <2>1, <2>3
<1>19. ASSUME NEW x \in Sent, x.t # "post"
       PROVE  Settled("server", x.rx) = st[x.tx]
  <2>1. Settled("server", x.rx) + 0 = st[x.tx]
    BY <1>3, <1>4, <1>6, <1>11, <1>19 DEF Delivered
  <2>2. x.rx \in Counter
    BY SentTypes
  <2>3. Settled("server", x.rx) \in Nat
    BY <1>4, <1>9, <2>2
  <2> QED
    BY <2>1, <2>3
<1>20. ASSUME NEW x \in Replied
       PROVE  Settled("client", x.rx) = st[x.tx]
  <2>1. x.t # "post" /\ x.rx \in Counter
    BY SentTypes DEF Replied
  <2>2. Settled("client", x.rx) + 0 + 0 = st[x.tx]
    BY <1>3, <1>4, <1>6, <1>11, <2>1 DEF Delivered
  <2>3. Settled("client", x.rx) \in Nat
    BY <1>4, <1>9, <2>1
  <2> QED
    BY <2>2, <2>3
<1>21. /\ Settled("server", "rxreq") = st["txreq"]
       /\ Settled("server", "rxstart") = st["txstart"]
       /\ Settled("server", "rxstream") = st["txstream"]
       /\ Settled("server", "rxfin") = st["txfin"]
    BY <1>19 DEF Sent
<1>22. /\ Settled("client", "rxresp") = st["txreq"]
       /\ Settled("client", "rxfin") = st["txfin"]
    BY <1>20 DEF Replied
<1>23. \A e \in End : Settled(e, "mdrops") = 0
    BY <1>3 DEF Delivered
<1> QED
    BY <1>11, <1>13, <1>14, <1>15, <1>16, <1>17, <1>18, <1>21, <1>22, <1>23
    DEF ReportHonest

\* Every step preserves what is inductive.
LEMMA NextCounts ==
    ASSUME Calm, ~Endless => Issued /\ Delivered /\ Sorted, [Next]_vars
    PROVE  /\ Calm'
           /\ ~Endless' => Issued' /\ Delivered' /\ Sorted'
<1>1. Calm'
    BY NextCalm
<1>2. options' = options
    BY NextOptions DEF vars, client, base
<1>3. Endless' <=> Endless
    BY <1>2 DEF Endless
<1>4. ASSUME ~Endless PROVE Issued' /\ Delivered' /\ Sorted'
  <2>1. Ordered /\ Ordered' /\ Posted
    BY <1>1, <1>4 DEF Calm
  <2>2. Issued'
    BY <1>4, <2>1, NextIssued
  <2>3. Delivered' /\ Sorted'
    BY <1>4, <2>1, NextBalance
  <2> QED
    BY <2>2, <2>3
<1> QED
    BY <1>1, <1>3, <1>4

\* The report is honest, for every set of options: when the client closes,
\* its counters are those of the operations it was asked for, each message
\* that it has sent has been counted as received by the server but for
\* heartbeats under way, and each request and each stream has been answered.
THEOREM Honest == Spec => []ReportHonest
<1> DEFINE Inv == Calm /\ (~Endless => Issued /\ Delivered /\ Sorted)
<1>1. Init => Inv
    BY InitCalm, InitCounts
<1>2. Inv /\ [Next]_vars => Inv'
    BY NextCounts
<1>3. Inv => ReportHonest
    BY CountsReport
<1> QED
    BY <1>1, <1>2, <1>3, PTL DEF Spec
=============================================================================
