-------------------------------- MODULE Perf --------------------------------
(***************************************************************************)
(* The benchmark of perf/: the routines of its client, which post, request *)
(* or stream over one connection, and the handlers of its server, with the *)
(* stream objects of the client and the counters of Stat() at both ends.   *)
(* The program of example/ is the same but for fewer stream objects and a  *)
(* client that knows posts only.                                           *)
(* The client ends each routine with a Whoami() and, once all have         *)
(* finished, closes the transport and reports its counters.                *)
(*                                                                         *)
(* What syncRx() is told through rxch before a packet is sent is part of   *)
(* the step that sends it (module Exchange has the steps between), doTx()  *)
(* and the socket are FIFO sequences (module TxPath), and both handshakes  *)
(* are over (module Handshake).                                            *)
(***************************************************************************)
EXTENDS Naturals, Sequences, FiniteSets

CONSTANTS
    Options     \* values of options that are tried, see Option

\* options.do, and what it makes the feeder put into the doch channels.
Do == {"post", "request", "streamtx", "streamrx"}

doit(do) == CASE do = "post"     -> "sendpost"
              [] do = "request"  -> "sendreq"
              [] do = "streamtx" -> "sendstream"
              [] do = "streamrx" -> "rcvstream"

\* prog is the program; maxbeat is no option either but a bound: heartbeats
\* sent by each end.
Option == [prog : {"perf", "example"}, do : Do, count : Nat \ {0},
           routines : Nat \ {0}, stream : Nat, maxbeat : Nat]

ASSUME PerfAssumption == Options \subseteq Option

End == {"client", "server"}
Other(e) == IF e = "client" THEN "server" ELSE "client"

\* The counters of Stat() that are about messages, and the frame types that
\* they count: a response is a 0x81 frame as a request is.
Counter == {"txpost", "txreq", "txresp", "txstart", "txstream", "txfin",
            "rxpost", "rxreq", "rxresp", "rxstart", "rxstream", "rxfin",
            "mdrops"}
Nothing == "none"

VARIABLES
    options,
    fed,        \* operations the feeder has put into the doch channels
    shut,       \* the feeder has closed them
    doch,       \* doch[w]: operations for routine w
    wk,         \* wk[w]: where routine w is, its stream, messages to stream
    donech,     \* routines whose donech is closed
    main,       \* "wait" (on wg), "closed", "reported"
    wire,       \* wire[e]: packets sent by end e
    pStrms,     \* the client's free stream objects
    rxcallb,    \* rxcallb[o]: routine whose callback the client's stream o has
    returning,  \* streams whose update from putstream() is still in rxch
    live,       \* live[e]: opaques in livestreams of e
    senders,    \* server routines that stream: [o, left]
    stat,       \* stat[e]: counters of e
    counting,   \* counting[e]: counter that syncRx() is about to increment
    nbeat

base == <<options, fed, shut, doch, main>>
client == <<base, wk>>
strms == <<pStrms, rxcallb, returning, live>>
vars == <<client, donech, wire, strms, senders, stat, counting,
          nbeat>>

Worker == 1..options.routines
NoWorker == 0

\* newconfig(160000, 160000 + routines*3) of perf/, inclusive, and
\* newconfig(16000, 16000 + routines) of example/.
perfOpaque == 1..(3 * options.routines + 1)
exampleOpaque == 1..(options.routines + 1)

Opaque == IF options.prog = "perf" THEN perfOpaque ELSE exampleOpaque

Init ==
    /\ options \in Options
    /\ fed = 0 /\ shut = FALSE
    /\ doch = [w \in Worker |-> <<>>]
    /\ wk = [w \in Worker |-> [pc |-> "range", o |-> 0, left |-> 0]]
    /\ donech = {} /\ main = "wait"
    /\ wire = [e \in End |-> <<>>]
    /\ pStrms = [i \in Opaque |-> i]
    /\ rxcallb = [o \in Opaque |-> NoWorker]
    /\ returning = {}
    /\ live = [e \in End |-> {}]
    /\ senders = {}
    /\ stat = [e \in End |-> [k \in Counter |-> 0]]
    /\ counting = [e \in End |-> Nothing]
    /\ nbeat = [e \in End |-> 0]

-----------------------------------------------------------------------------
(* Helpers. *)

Goto(w, pc) == wk' = [wk EXCEPT ![w].pc = pc]

\* post(), request(), response(), start(), stream() and finish() count the
\* packet that they frame; id is the message's type.
Send(e, t, id, o, k) ==
    /\ wire' = [wire EXCEPT ![e] = Append(@, [t |-> t, id |-> id, o |-> o])]
    /\ stat' = [stat EXCEPT ![e][k] = @ + 1]

\* getlocalstream() with a callback, for routine w that goes on to pc.
Open(w, pc, left) ==
    /\ pStrms # <<>>
    /\ pStrms' = Tail(pStrms)
    /\ rxcallb' = [rxcallb EXCEPT ![Head(pStrms)] = w]
    /\ live' = [live EXCEPT !["client"] = @ \cup {Head(pStrms)}]
    /\ wk' = [wk EXCEPT ![w] = [pc |-> pc, o |-> Head(pStrms), left |-> left]]

-----------------------------------------------------------------------------
(* The client: the feeder of doTransport(), worker(), and its end. *)

\* `doers[k%numdoers] <- doit()`; a channel without room takes an operation
\* when its routine is there to receive it.
Feed ==
    LET w == (fed % options.routines) + 1 IN
    /\ fed < options.count
    /\ \/ Len(doch[w]) < options.count \div options.routines
       \/ doch[w] = <<>> /\ wk[w].pc = "range"
    /\ doch' = [doch EXCEPT ![w] = Append(@, doit(options.do))]
    /\ fed' = fed + 1
    /\ UNCHANGED <<options, shut, wk, main, donech, wire, strms, senders,
                   stat, counting, nbeat>>

\* Mutant of FeederCloses: the channels stay open.
FeederLeavesOpen == FALSE /\ UNCHANGED vars

\* `for _, doch := range doers { close(doch) }`.
FeederCloses ==
    /\ fed = options.count
    /\ ~shut
    /\ shut' = TRUE
    /\ UNCHANGED <<options, fed, doch, wk, main, donech, wire, strms, senders,
                   stat, counting, nbeat>>

\* Mutant of RangeEnds: no Whoami() at the end of worker().
RangeEndsAtOnce(w) ==
    /\ wk[w].pc = "range"
    /\ shut /\ doch[w] = <<>>
    /\ Goto(w, "done")
    /\ UNCHANGED <<base, donech, wire, strms, senders, stat, counting, nbeat>>

\* `for doit := range doch` ends, and Whoami() is next.
RangeEnds(w) ==
    /\ wk[w].pc = "range"
    /\ shut /\ doch[w] = <<>>
    /\ Goto(w, "whoami")
    /\ UNCHANGED <<base, donech, wire, strms, senders, stat, counting, nbeat>>

\* The switch in worker() of example/ has no other case than sendpost.
exampleWorker(op) == IF op = "sendpost" THEN op ELSE "range"

\* `for doit := range doch` goes on.
RangeNext(w) ==
    /\ wk[w].pc = "range"
    /\ doch[w] # <<>>
    /\ doch' = [doch EXCEPT ![w] = Tail(@)]
    /\ Goto(w, IF options.prog = "perf" THEN Head(doch[w])
               ELSE exampleWorker(Head(doch[w])))
    /\ UNCHANGED <<options, fed, shut, main, donech, wire, strms, senders,
                   stat, counting, nbeat>>

\* Post() takes a stream and gives it back.
sendpost(w) ==
    /\ wk[w].pc = "sendpost"
    /\ pStrms # <<>>
    /\ pStrms' = Append(Tail(pStrms), Head(pStrms))
    /\ Send("client", "post", "msgPost", Head(pStrms), "txpost")
    /\ Goto(w, "range")
    /\ UNCHANGED <<base, donech, rxcallb, returning, live, senders, counting,
                   nbeat>>

\* Request(), of the benchmark or of Whoami(), until it waits on donech.
sendreq(w) ==
    LET whoami == wk[w].pc = "whoami" IN
    /\ wk[w].pc \in {"sendreq", "whoami"}
    /\ Open(w, IF whoami THEN "bye" ELSE "wait", 0)
    /\ Send("client", "0x81", IF whoami THEN "whoami" ELSE "msgReqsp",
            Head(pStrms), "txreq")
    /\ UNCHANGED <<base, donech, returning, senders, counting, nbeat>>

\* Mutant of Requested: putstream() pools the stream and tells syncRx() too.
RequestedTwice(w) ==
    /\ wk[w].pc \in {"wait", "bye"}
    /\ w \in donech
    /\ donech' = donech \ {w}
    /\ rxcallb' = [rxcallb EXCEPT ![wk[w].o] = NoWorker]
    /\ returning' = returning \cup {wk[w].o}
    /\ pStrms' = Append(pStrms, wk[w].o)
    /\ Goto(w, IF wk[w].pc = "bye" THEN "done" ELSE "range")
    /\ UNCHANGED <<base, wire, live, senders, stat, counting, nbeat>>

\* `<-donech`, rxcallb = nil and the deferred putstream(); wg.Done() when
\* it was the Whoami().
Requested(w) ==
    /\ wk[w].pc \in {"wait", "bye"}
    /\ w \in donech
    /\ donech' = donech \ {w}
    /\ rxcallb' = [rxcallb EXCEPT ![wk[w].o] = NoWorker]
    /\ returning' = returning \cup {wk[w].o}
    /\ Goto(w, IF wk[w].pc = "bye" THEN "done" ELSE "range")
    /\ UNCHANGED <<base, wire, pStrms, live, senders, stat, counting, nbeat>>

\* Transport.Stream() of doStreamTx() and of doStreamRx(), which goes on to
\* wait on a donech that only "-do verify" closes.
doStream(w) ==
    LET tx == wk[w].pc = "sendstream" IN
    /\ wk[w].pc \in {"sendstream", "rcvstream"}
    /\ Open(w, IF tx THEN "streaming" ELSE "rcv", options.stream)
    /\ Send("client", "start", IF tx THEN "msgStreamRx" ELSE "msgStreamTx",
            Head(pStrms), "txstart")
    /\ UNCHANGED <<base, donech, returning, senders, counting, nbeat>>

\* Mutant of doStreamTx: the stream is closed one message early.
doStreamTxShort(w) ==
    /\ wk[w].pc = "streaming"
    /\ \/ /\ wk[w].left > 1
          /\ Send("client", "stream", "msgStreamRx", wk[w].o, "txstream")
          /\ wk' = [wk EXCEPT ![w].left = @ - 1]
       \/ /\ wk[w].left =< 1
          /\ Send("client", "finish", Nothing, wk[w].o, "txfin")
          /\ Goto(w, "range")
    /\ UNCHANGED <<base, donech, strms, senders, counting, nbeat>>

\* The loop of doStreamTx() and the Close() after it.
doStreamTx(w) ==
    /\ wk[w].pc = "streaming"
    /\ \/ /\ wk[w].left > 0
          /\ Send("client", "stream", "msgStreamRx", wk[w].o, "txstream")
          /\ wk' = [wk EXCEPT ![w].left = @ - 1]
       \/ /\ wk[w].left = 0
          /\ Send("client", "finish", Nothing, wk[w].o, "txfin")
          /\ Goto(w, "range")
    /\ UNCHANGED <<base, donech, strms, senders, counting, nbeat>>

worker(w) == \/ RangeNext(w) \/ RangeEnds(w)
             \/ sendpost(w)
             \/ sendreq(w) \/ Requested(w)
             \/ doStream(w) \/ doStreamTx(w)

\* wg.Wait() returns and the transport is closed.
Close ==
    /\ main = "wait"
    /\ \A w \in Worker : wk[w].pc = "done"
    /\ main' = "closed"
    /\ UNCHANGED <<options, fed, shut, doch, wk, donech, wire, strms, senders,
                   stat, counting, nbeat>>

\* addCounts() reads the counters, which syncRx() may still increment; the
\* program prints them and ends.
addCounts ==
    /\ main = "closed"
    /\ main' = "reported"
    /\ UNCHANGED <<options, fed, shut, doch, wk, donech, wire, strms, senders,
                   stat, counting, nbeat>>

-----------------------------------------------------------------------------
(* syncRx() of either end, with the handlers that perf subscribes. *)

\* syncRx() of e takes the next packet, and will count it as k.
Takes(e, p, k) ==
    /\ e = "client" => main # "reported"
    /\ counting[e] = Nothing
    /\ wire[Other(e)] # <<>>
    /\ p = Head(wire[Other(e)])
    /\ counting' = [counting EXCEPT ![e] = k]

Taken(e) == [wire EXCEPT ![Other(e)] = Tail(@)]

\* Answering, in a handler: the packet taken is gone, the answer sent.
Answers(t, id, o, k) ==
    /\ wire' = [Taken("server") EXCEPT !["server"] =
                    Append(@, [t |-> t, id |-> id, o |-> o])]
    /\ stat' = [stat EXCEPT !["server"][k] = @ + 1]

\* A post: the handlers of msgPost and heartbeats send nothing.
handlePost(e) ==
    LET p == Head(wire[Other(e)]) IN
    /\ Takes(e, p, "rxpost")
    /\ p.t = "post"
    /\ p.o \notin live[e]
    /\ wire' = Taken(e)
    /\ UNCHANGED <<client, donech, strms, senders, stat, nbeat>>

\* A request: the handlers of msgReqsp and whoami respond to it.
handleRequest ==
    LET p == Head(wire["client"]) IN
    /\ Takes("server", p, "rxreq")
    /\ p.t = "0x81"
    /\ p.o \notin live["server"]
    /\ Answers("0x81", p.id, p.o, "txresp")
    /\ UNCHANGED <<client, donech, strms, senders, nbeat>>

\* The response: the callback of Request() closes donech.
handleResponse ==
    LET p == Head(wire["server"]) IN
    /\ Takes("client", p, "rxresp")
    /\ p.t = "0x81"
    /\ p.o \in live["client"]
    /\ wire' = Taken("client")
    /\ donech' = donech \cup {rxcallb[p.o]}
    /\ UNCHANGED <<client, strms, senders, stat, nbeat>>

\* A start: the handler of msgStreamRx returns a callback, the one of
\* msgStreamTx spawns a routine and returns none.
handleStart ==
    LET p == Head(wire["client"]) IN
    /\ Takes("server", p, "rxstart")
    /\ p.t = "start"
    /\ p.o \notin live["server"]
    /\ wire' = Taken("server")
    /\ live' = [live EXCEPT !["server"] = @ \cup {p.o}]
    /\ senders' = IF p.id = "msgStreamRx" THEN senders
                  ELSE senders \cup {[o |-> p.o, left |-> options.stream]}
    /\ UNCHANGED <<client, donech, pStrms, rxcallb, returning, stat, nbeat>>

\* The server still has the stream of the opaque that the client uses again,
\* as client.go does not close what msgStreamTx has started: there is no
\* callback, nobody answers.
handleDuplicate ==
    LET p == Head(wire["client"]) IN
    /\ Takes("server", p, IF p.t = "0x81" THEN "rxresp" ELSE "mdrops")
    /\ p.t \in {"post", "0x81", "start"}
    /\ p.o \in live["server"]
    /\ wire' = Taken("server")
    /\ UNCHANGED <<client, donech, strms, senders, stat, nbeat>>

\* Mutant of Sender: the stream is not closed.
SenderNoClose(s) ==
    /\ \/ /\ s.left > 0
          /\ Send("server", "stream", "msgStreamTx", s.o, "txstream")
          /\ senders' = (senders \ {s}) \cup {[s EXCEPT !.left = @ - 1]}
       \/ /\ s.left = 0
          /\ UNCHANGED <<wire, stat>>
          /\ senders' = senders \ {s}
    /\ UNCHANGED <<client, donech, strms, counting, nbeat>>

\* The routine that the handler of msgStreamTx spawned.
Sender(s) ==
    /\ \/ /\ s.left > 0
          /\ Send("server", "stream", "msgStreamTx", s.o, "txstream")
          /\ senders' = (senders \ {s}) \cup {[s EXCEPT !.left = @ - 1]}
       \/ /\ s.left = 0
          /\ Send("server", "finish", Nothing, s.o, "txfin")
          /\ senders' = senders \ {s}
    /\ UNCHANGED <<client, donech, strms, counting, nbeat>>

\* How syncRx() of e counts packet p on a stream: k, unless it is not live.
Counted(e, p, k) == IF p.o \in live[e] THEN k ELSE "mdrops"

\* A stream message: no callback of perf sends anything.
handleStream(e) ==
    LET p == Head(wire[Other(e)]) IN
    /\ Takes(e, p, Counted(e, p, "rxstream"))
    /\ p.t = "stream"
    /\ wire' = Taken(e)
    /\ UNCHANGED <<client, donech, strms, senders, stat, nbeat>>

\* The callback of msgStreamRx closes its side when ok is false; a stream of
\* msgStreamTx has no callback, and client.go never closes one.
Closes(p) == Answers("finish", Nothing, p.o, "txfin")

\* A finish at the server.
handleFinishServer ==
    LET p == Head(wire["client"]) IN
    /\ Takes("server", p, Counted("server", p, "rxfin"))
    /\ p.t = "finish"
    /\ IF p.o \in live["server"] THEN Closes(p)
       ELSE wire' = Taken("server") /\ UNCHANGED stat
    /\ live' = [live EXCEPT !["server"] = @ \ {p.o}]
    /\ UNCHANGED <<client, donech, pStrms, rxcallb, returning, senders,
                   nbeat>>

\* A finish at the client: its callbacks do nothing, putstream() pools.
handleFinishClient ==
    LET p == Head(wire["server"]) IN
    /\ Takes("client", p, Counted("client", p, "rxfin"))
    /\ p.t = "finish"
    /\ wire' = Taken("client")
    /\ live' = [live EXCEPT !["client"] = @ \ {p.o}]
    /\ pStrms' = IF p.o \in live["client"] THEN Append(pStrms, p.o)
                                           ELSE pStrms
    /\ UNCHANGED <<client, donech, rxcallb, returning, senders, stat, nbeat>>

\* streamupdate() of the client: a stream whose Request() is over.
streamupdate ==
    \E o \in returning :
        /\ main # "reported"
        /\ counting["client"] = Nothing
        /\ returning' = returning \ {o}
        /\ live' = [live EXCEPT !["client"] = @ \ {o}]
        /\ pStrms' = Append(pStrms, o)
        /\ UNCHANGED <<client, donech, wire, rxcallb, senders, stat, counting,
                       nbeat>>

\* Counters of the receiving side are incremented after the callback.
Count(e) ==
    /\ e = "client" => main # "reported"
    /\ counting[e] # Nothing
    /\ stat' = [stat EXCEPT ![e][counting[e]] = @ + 1]
    /\ counting' = [counting EXCEPT ![e] = Nothing]
    /\ UNCHANGED <<client, donech, wire, strms, senders, nbeat>>

handlepkt(e) == \/ handlePost(e)
                \/ handleStream(e)
                \/ e = "server" /\ handleRequest
                \/ e = "server" /\ handleStart
                \/ e = "server" /\ handleDuplicate
                \/ e = "server" /\ handleFinishServer
                \/ e = "client" /\ handleResponse
                \/ e = "client" /\ handleFinishClient

syncRx(e) == handlepkt(e) \/ Count(e) \/ (e = "client" /\ streamupdate)

\* SendHeartbeat(): a Post() at every tick.  The server's own stream objects
\* have no other use.
Heartbeat(e) ==
    /\ nbeat[e] < options.maxbeat
    /\ nbeat' = [nbeat EXCEPT ![e] = @ + 1]
    /\ \/ /\ e = "client"
          /\ main = "wait"
          /\ pStrms # <<>>
          /\ pStrms' = Append(Tail(pStrms), Head(pStrms))
          /\ Send(e, "post", "heartbeat", Head(pStrms), "txpost")
       \/ /\ e = "server"
          /\ Send(e, "post", "heartbeat", 0, "txpost")
          /\ UNCHANGED pStrms
    /\ UNCHANGED <<client, donech, rxcallb, returning, live, senders,
                   counting>>

-----------------------------------------------------------------------------

Next == \/ Feed \/ FeederCloses
        \/ \E w \in Worker : worker(w)
        \/ Close \/ addCounts
        \/ \E e \in End : syncRx(e) \/ Heartbeat(e)
        \/ \E s \in senders : Sender(s)

Spec == Init /\ [][Next]_vars

\* Every routine of both programs runs when it can; heartbeats are optional.
Fairness ==
    /\ WF_vars(Feed) /\ WF_vars(FeederCloses)
    /\ WF_vars(Close) /\ WF_vars(addCounts)
    /\ \A w \in UNION {1..op.routines : op \in Options} :
        WF_vars(w \in Worker /\ worker(w))
    /\ \A e \in End : WF_vars(syncRx(e))
    /\ WF_vars(\E s \in senders : Sender(s))

FairSpec == Spec /\ Fairness

-----------------------------------------------------------------------------
(* Properties. *)

Packet == [t : {"post", "0x81", "start", "stream", "finish"},
           id : {"msgPost", "msgReqsp", "msgStreamRx", "msgStreamTx",
                 "whoami", "heartbeat", Nothing},
           o : Opaque \cup {0}]

\* The types of the variables; a stream object is in the pool once at most.
TypeOK ==
    /\ options \in Options
    /\ fed \in 0..options.count /\ shut \in BOOLEAN
    /\ doch \in [Worker -> Seq({doit(options.do)})]
    /\ wk \in [Worker -> [pc : {"range", "whoami", "sendpost", "sendreq",
                                "wait", "bye", "sendstream", "rcvstream",
                                "streaming", "rcv", "done"},
                          o : Opaque \cup {0}, left : 0..options.stream]]
    /\ donech \subseteq Worker
    /\ main \in {"wait", "closed", "reported"}
    /\ wire \in [End -> Seq(Packet)]
    /\ live \in [End -> SUBSET Opaque]
    /\ pStrms \in Seq(Opaque)
    /\ \A i, j \in DOMAIN pStrms : i # j => pStrms[i] # pStrms[j]
    /\ rxcallb \in [Opaque -> Worker \cup {NoWorker}]
    /\ returning \subseteq Opaque
    /\ senders \subseteq [o : Opaque, left : 0..options.stream]
    /\ stat \in [End -> [Counter -> Nat]]
    /\ counting \in [End -> Counter \cup {Nothing}]
    /\ nbeat \in [End -> 0..options.maxbeat]

\* Closing a transport discards what is under way, but the client may close
\* its transport when its routines are done: by then the server has handled
\* everything that was posted and streamed, the client has handled all the
\* server sent, and every stream is over at both ends.  Only heartbeats are
\* cut off, and the stream of the last Whoami() may be on its way back.
CloseLosesNothing ==
    main # "wait" =>
        /\ \A e \in End : \A i \in DOMAIN wire[e] :
               wire[e][i].id = "heartbeat"
        /\ senders = {}
        /\ live["server"] = {}
        /\ live["client"] \subseteq returning

\* Counter k of e once syncRx() has counted the packet it has just handled.
Settled(e, k) == stat[e][k] + (IF counting[e] = k THEN 1 ELSE 0)

\* Operations of the benchmark when options.do is do; those of example/ that
\* are no posts are taken and left undone.
Done(do) == IF options.do = do /\ (options.prog = "perf" \/ do = "post")
            THEN options.count ELSE 0

\* The one benchmark whose routines never end.
Endless == options.prog = "perf" /\ options.do = "streamrx"

\* The counters that the client reports are those of the work it was asked
\* for, and the server has received as much, but for heartbeats under way.
\* The reported counters may lack the packet that syncRx() has handled and
\* not yet counted.
ReportHonest ==
    main # "wait" =>
        /\ stat["client"]["txpost"] = Done("post") + nbeat["client"]
        /\ stat["client"]["txreq"] = Done("request") + options.routines
        /\ stat["client"]["txstart"] = Done("streamtx")
        /\ stat["client"]["txfin"] = Done("streamtx")
        /\ stat["client"]["txstream"] = Done("streamtx") * options.stream
        /\ Settled("server", "rxpost") + Len(wire["client"])
               = stat["client"]["txpost"]
        /\ Settled("server", "rxreq") = stat["client"]["txreq"]
        /\ Settled("server", "rxstart") = stat["client"]["txstart"]
        /\ Settled("server", "rxstream") = stat["client"]["txstream"]
        /\ Settled("server", "rxfin") = stat["client"]["txfin"]
        /\ Settled("client", "rxresp") = stat["client"]["txreq"]
        /\ Settled("client", "rxfin") = stat["client"]["txstart"]
        /\ \A e \in End : Settled(e, "mdrops") = 0

\* The benchmark ends, also when it opens more streams than the client has
\* stream objects: the server's close gives them back.  One stream object
\* more than there are routines is enough for example/, heartbeats included.
ClientFinishes == ~Endless ~> main = "reported"

\* With "-do streamrx" each routine is stuck in its first doStreamRx(), but
\* receives that stream in full, and the finish of the server gives the
\* stream object back although the client has not closed its side.
AllStreamed ==
    Endless ~>
        /\ stat["client"]["rxstream"] = options.stream *
               Cardinality({w \in Worker : w =< options.count})
        /\ live["client"] = {}
=============================================================================
