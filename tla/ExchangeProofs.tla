--------------------------- MODULE ExchangeProofs ---------------------------
(***************************************************************************)
(* Exchange, for any ends, routines, opaques and bounds: type correctness, *)
(* and, when no opaque is configured on both ends and the initiator of a   *)
(* stream answers a finish from within its callback, that every packet is  *)
(* dispatched to its exchange (RoutedRight), that a stream object has one  *)
(* user (PoolExclusive) and that nothing is left behind (QuiescentClean).  *)
(*                                                                         *)
(* The invariant behind the last three is XInv below.  It speaks of one    *)
(* opaque at a time, so the proof has two halves: what each kind of step   *)
(* does to a view of one stream (the lemmas called ...Good), and that each *)
(* action is such a step on one view and leaves the others alone (the      *)
(* lemmas called ...Streams).                                              *)
(***************************************************************************)
EXTENDS Exchange, SequenceLemmas, SequenceTheorems, TLAPS

\* A packet built from a frame type, an opaque and an exchange.
LEMMA SendType ==
    ASSUME NEW p \in Peer, NEW t \in FrameType, NEW o \in Opaque,
           NEW x \in Exch, wire \in [Peer -> Seq(Packet)], Send(p, t, o, x)
    PROVE  wire' \in [Peer -> Seq(Packet)]
<1>1. [t |-> t, o |-> o, x |-> x] \in Packet
    BY DEF Packet
<1> QED
    BY <1>1 DEF Send

\* putch() keeps rxch a sequence of items within its capacity.
LEMMA PutchType ==
    ASSUME NEW p \in Peer, NEW k \in Item, putch(p, k),
           rxch \in [Peer -> Seq(Item)],
           \A q \in Peer : Len(rxch[q]) =< ChanSize
    PROVE  /\ rxch' \in [Peer -> Seq(Item)]
           /\ \A q \in Peer : Len(rxch'[q]) =< ChanSize
<1>1. rxch' = [rxch EXCEPT ![p] = Append(@, k)] /\ Len(rxch[p]) < ChanSize
    BY DEF putch
<1>2. rxch[p] \in Seq(Item)
    OBVIOUS
<1>3. /\ Append(rxch[p], k) \in Seq(Item)
      /\ Len(Append(rxch[p], k)) =< ChanSize
    BY <1>1, <1>2, ExchangeAssumption
<1> QED
    BY <1>1, <1>3

\* So does taking an item, which is one of the items of rxch.
LEMMA TakeType ==
    ASSUME NEW p \in Peer, NEW k, Next_rxpkt(p, k),
           rxch \in [Peer -> Seq(Item)],
           \A q \in Peer : Len(rxch[q]) =< ChanSize
    PROVE  /\ k \in Item
           /\ rxch' \in [Peer -> Seq(Item)]
           /\ \A q \in Peer : Len(rxch'[q]) =< ChanSize
<1>1. rxch[p] \in Seq(Item) /\ rxch[p] # <<>> /\ k = Head(rxch[p])
    BY DEF Next_rxpkt
<1>2. /\ Tail(rxch[p]) \in Seq(Item)
      /\ Len(Tail(rxch[p])) =< ChanSize
    BY <1>1, ExchangeAssumption
<1> QED
    BY <1>1, <1>2 DEF Next_rxpkt

\* An item that has a frame type is a packet.
LEMMA PacketType ==
    ASSUME NEW k \in Item, k.t \in FrameType
    PROVE  /\ k.t # "update" /\ k.o \in Opaque /\ k.x \in Exch
BY DEF Item, Packet, Update, FrameType

\* An end has another one.
LEMMA OtherType == \A p \in Peer : Other(p) \in Peer
BY DEF Peer, Other

\* Giving a stream back keeps the pools counts.
LEMMA ToPoolType ==
    ASSUME NEW p \in Peer, NEW o \in Opaque, ToPool(p, o),
           pStrms \in [Peer -> [Opaque -> Nat]]
    PROVE  pStrms' \in [Peer -> [Opaque -> Nat]]
<1>1. pStrms' = [pStrms EXCEPT ![p] = [pStrms[p] EXCEPT ![o] = @ + 1]]
    BY DEF ToPool
<1>2. [pStrms[p] EXCEPT ![o] = @ + 1] \in [Opaque -> Nat]
    OBVIOUS
<1> QED
    BY <1>1, <1>2

\* Setting an entry of a table of tables.
LEMMA TableType ==
    ASSUME NEW S, NEW f \in [Peer -> [Opaque -> S]],
           NEW p \in Peer, NEW o \in Opaque, NEW v \in S
    PROVE  [f EXCEPT ![p][o] = v] \in [Peer -> [Opaque -> S]]
<1>1. [f[p] EXCEPT ![o] = v] \in [Opaque -> S]
    OBVIOUS
<1> QED
    BY <1>1

\* A callback, unless it is nil, belongs to an exchange.
LEMMA CallbackType ==
    ASSUME TypeOK, NEW p \in Peer, NEW o \in Opaque
    PROVE  Callback(p, o) \in Exch \cup {Nil}
BY DEF TypeOK, Callback

\* The steps of getlocalstream().
LEMMA GetType ==
    ASSUME TypeOK, NEW c \in Caller, NEW op \in Op, getlocalstream(c, op)
    PROVE  TypeOK'
<1> USE ExchangeAssumption
<1> DEFINE p == Home[c]
           x == [n |-> nexch + 1, c |-> c, op |-> op]
<1>1. p \in Peer /\ x \in Exch
  <2>1. nexch + 1 \in 1..MaxExch
    BY DEF TypeOK, getlocalstream
  <2> QED
    BY <2>1 DEF Exch
<1>2. PICK o \in OpaqueOf[p] :
        /\ pStrms[p][o] > 0
        /\ pStrms' = [pStrms EXCEPT ![p][o] = @ - 1]
        /\ rxcallb' = [rxcallb EXCEPT ![p][o] =
               IF op = "request" \/ (op = "start" /\ c \notin NilCallback)
               THEN x ELSE Nil]
        /\ cs' = [cs EXCEPT ![c] =
               [pc |-> IF op = "post" THEN "tx" ELSE "tell", o |-> o, x |-> x]]
    BY DEF getlocalstream
<1>3. o \in Opaque
    BY <1>1
<1> HIDE DEF p, x
<1>4. pStrms' \in [Peer -> [Opaque -> Nat]]
    BY <1>1, <1>2, <1>3 DEF TypeOK
<1>5. rxcallb' \in [Peer -> [Opaque -> Exch \cup {Nil}]]
    BY <1>1, <1>2, <1>3 DEF TypeOK
<1>6. cs' \in [Caller -> [pc : Pc, o : Opaque \cup {NoOpaque},
                          x : Exch \cup {Nil}]]
    BY <1>1, <1>2, <1>3 DEF TypeOK, Pc
<1>7. \A d \in Caller : cs'[d].pc # "idle" =>
          cs'[d].o \in OpaqueOf[Home[d]] /\ cs'[d].x \in Exch
    BY <1>1, <1>2, <1>3 DEF TypeOK, p
<1> QED
    BY <1>4, <1>5, <1>6, <1>7 DEF TypeOK, getlocalstream

\* A routine that is under way holds an exchange and an opaque of its end.
LEMMA CallerType ==
    ASSUME TypeOK, NEW c \in Caller, cs[c].pc # "idle"
    PROVE  /\ Home[c] \in Peer /\ cs[c].o \in OpaqueOf[Home[c]]
           /\ cs[c].o \in Opaque /\ cs[c].x \in Exch
BY ExchangeAssumption DEF TypeOK

\* Moving a routine that is under way keeps the type of cs.
LEMMA GotoType ==
    ASSUME TypeOK, NEW c \in Caller, NEW l \in Pc, Goto(c, l),
           cs[c].pc # "idle" \/ l = "idle"
    PROVE  /\ cs' \in [Caller -> [pc : Pc, o : Opaque \cup {NoOpaque},
                                  x : Exch \cup {Nil}]]
           /\ \A d \in Caller : cs'[d].pc # "idle" =>
                  cs'[d].o \in OpaqueOf[Home[d]] /\ cs'[d].x \in Exch
<1>1. cs' = [cs EXCEPT ![c].pc = l]
    BY DEF Goto
<1> QED
    BY <1>1 DEF TypeOK

\* Telling syncRx() of a stream, by TellRx() and by putstream().
LEMMA TellType ==
    ASSUME TypeOK, NEW c \in Caller, TellRx(c) \/ putstream(c)
    PROVE  TypeOK'
<1> DEFINE k == [t |-> "update", o |-> cs[c].o]
<1>1. /\ putch(Home[c], k) /\ cs[c].pc # "idle"
      /\ Goto(c, "tx") \/ Goto(c, "idle")
      /\ UNCHANGED <<pStrms, rxcallb, live, rstrm, wire, done, closed,
                     serving, nexch, nmsg>>
    BY DEF TellRx, putstream
<1>2. k \in Item /\ Home[c] \in Peer
    BY <1>1, CallerType DEF Item, Update
<1> HIDE DEF k
<1>3. /\ rxch' \in [Peer -> Seq(Item)]
      /\ \A q \in Peer : Len(rxch'[q]) =< ChanSize
    BY <1>1, <1>2, PutchType DEF TypeOK
<1>4. "tx" \in Pc /\ "idle" \in Pc
    BY DEF Pc
<1>5. /\ cs' \in [Caller -> [pc : Pc, o : Opaque \cup {NoOpaque},
                             x : Exch \cup {Nil}]]
      /\ \A d \in Caller : cs'[d].pc # "idle" =>
             cs'[d].o \in OpaqueOf[Home[d]] /\ cs'[d].x \in Exch
    BY <1>1, <1>4, GotoType
<1> QED
    BY <1>1, <1>3, <1>5 DEF TypeOK

\* A routine that sends a packet of its exchange.
LEMMA CallerSendType ==
    ASSUME TypeOK, NEW c \in Caller,
           \/ Post(c) \/ Request(c) \/ Stream(c)
           \/ StreamMsg(c) \/ StreamClose(c)
    PROVE  TypeOK'
<1> USE ExchangeAssumption
<1>1. cs[c].pc # "idle"
    BY DEF Post, Request, Stream, StreamMsg, StreamClose
<1>2. /\ Home[c] \in Peer
      /\ cs[c].o \in Opaque /\ cs[c].x \in Exch
    BY <1>1, CallerType
<1>3. wire' \in [Peer -> Seq(Packet)]
  <2>1. \E t \in FrameType : Send(Home[c], t, cs[c].o, cs[c].x)
    BY DEF Post, Request, Stream, StreamMsg, StreamClose, FrameType
  <2> QED
    BY <1>2, <2>1, SendType DEF TypeOK
<1>4. \/ UNCHANGED cs
      \/ \E l \in Pc : Goto(c, l)
    BY DEF Post, Request, Stream, StreamMsg, StreamClose, Pc
<1>5. /\ cs' \in [Caller -> [pc : Pc, o : Opaque \cup {NoOpaque},
                             x : Exch \cup {Nil}]]
      /\ \A d \in Caller : cs'[d].pc # "idle" =>
             cs'[d].o \in OpaqueOf[Home[d]] /\ cs'[d].x \in Exch
  <2>1. CASE UNCHANGED cs
    BY <2>1 DEF TypeOK
  <2>2. CASE \E l \in Pc : Goto(c, l)
    BY <1>1, <2>2, GotoType
  <2> QED
    BY <1>4, <2>1, <2>2
<1>6. pStrms' \in [Peer -> [Opaque -> Nat]]
  <2>1. UNCHANGED pStrms \/ ToPool(Home[c], cs[c].o)
    BY DEF Post, Request, Stream, StreamMsg, StreamClose
  <2> QED
    BY <1>2, <2>1, ToPoolType DEF TypeOK
<1>7. closed' \in SUBSET Exch /\ nmsg' \in 0..MaxMsg
    BY <1>2 DEF TypeOK, Post, Request, Stream, StreamMsg, StreamClose
<1>8. UNCHANGED <<rxcallb, live, rstrm, rxch, done, serving, nexch>>
    BY DEF Post, Request, Stream, StreamMsg, StreamClose
<1> QED
    BY <1>3, <1>5, <1>6, <1>7, <1>8 DEF TypeOK

\* The end of a Request().
LEMMA RequestDoneType ==
    ASSUME TypeOK, NEW c \in Caller, RequestDone(c)
    PROVE  TypeOK'
<1>1. cs[c].pc # "idle" /\ Goto(c, "untell") /\ "untell" \in Pc
    BY DEF RequestDone, Pc
<1>2. /\ cs' \in [Caller -> [pc : Pc, o : Opaque \cup {NoOpaque},
                             x : Exch \cup {Nil}]]
      /\ \A d \in Caller : cs'[d].pc # "idle" =>
             cs'[d].o \in OpaqueOf[Home[d]] /\ cs'[d].x \in Exch
    BY <1>1, GotoType
<1>3. rxcallb' \in [Peer -> [Opaque -> Exch \cup {Nil}]]
    BY <1>1, CallerType DEF RequestDone, TypeOK
<1> QED
    BY <1>2, <1>3 DEF TypeOK, RequestDone

\* What the application does with an exchange that it was given.
LEMMA ServeType ==
    ASSUME TypeOK, NEW p \in Peer, NEW e \in serving[p],
           Response(p, e) \/ RemoteMsg(p, e) \/ RemoteClose(p, e)
    PROVE  TypeOK'
<1> USE ExchangeAssumption
<1>1. e.o \in Opaque /\ e.x \in Exch
    BY DEF TypeOK
<1>2. wire' \in [Peer -> Seq(Packet)]
  <2>1. \E t \in FrameType : Send(p, t, e.o, e.x)
    BY DEF Response, RemoteMsg, RemoteClose, FrameType
  <2> QED
    BY <1>1, <2>1, SendType DEF TypeOK
<1>3. serving' \in [Peer -> SUBSET [o : Opaque, x : Exch]]
    BY DEF TypeOK, Response, RemoteMsg, RemoteClose
<1>4. nmsg' \in 0..MaxMsg
    BY DEF TypeOK, Response, RemoteMsg, RemoteClose
<1>5. UNCHANGED <<pStrms, rxcallb, live, rstrm, rxch, cs, done, closed, nexch>>
    BY DEF Response, RemoteMsg, RemoteClose
<1> QED
    BY <1>2, <1>3, <1>4, <1>5 DEF TypeOK

\* doRx().
LEMMA DoRxType ==
    ASSUME TypeOK, NEW p \in Peer, doRx(p)
    PROVE  TypeOK'
<1> DEFINE q == Other(p)
<1>1. /\ q \in Peer /\ wire[q] \in Seq(Packet) /\ wire[q] # <<>>
      /\ putch(p, Head(wire[q])) /\ wire' = [wire EXCEPT ![q] = Tail(@)]
    BY OtherType DEF TypeOK, doRx
<1> HIDE DEF q
<1>2. Head(wire[q]) \in Item /\ Tail(wire[q]) \in Seq(Packet)
    BY <1>1 DEF Item
<1>3. /\ rxch' \in [Peer -> Seq(Item)]
      /\ \A r \in Peer : Len(rxch'[r]) =< ChanSize
    BY <1>1, <1>2, PutchType DEF TypeOK
<1>4. wire' \in [Peer -> Seq(Packet)]
    BY <1>1, <1>2 DEF TypeOK
<1> QED
    BY <1>3, <1>4 DEF TypeOK, doRx

\* streamupdate().
LEMMA UpdateType ==
    ASSUME TypeOK, NEW p \in Peer, streamupdate(p)
    PROVE  TypeOK'
<1>1. PICK k \in Update :
        /\ Next_rxpkt(p, k)
        /\ \/ /\ live' = [live EXCEPT ![p][k.o] = "local"]
              /\ UNCHANGED pStrms
           \/ /\ live' = [live EXCEPT ![p][k.o] = "none"]
              /\ ToPool(p, k.o)
           \/ UNCHANGED <<live, pStrms>>
        /\ UNCHANGED <<rxcallb, rstrm, wire, cs, done, closed, serving, nexch,
                       nmsg>>
    BY DEF streamupdate
<1>2. k.o \in Opaque
    BY DEF Update
<1>3. /\ rxch' \in [Peer -> Seq(Item)]
      /\ \A q \in Peer : Len(rxch'[q]) =< ChanSize
    BY <1>1, TakeType DEF TypeOK
<1>4. live' \in [Peer -> [Opaque -> {"none", "local", "remote"}]]
  <2>1. live \in [Peer -> [Opaque -> {"none", "local", "remote"}]]
    BY DEF TypeOK
  <2> QED
    BY <1>1, <1>2, <2>1, TableType
<1>5. pStrms' \in [Peer -> [Opaque -> Nat]]
    BY <1>1, <1>2, ToPoolType DEF TypeOK
<1> QED
    BY <1>1, <1>3, <1>4, <1>5 DEF TypeOK

\* handlepkt() of a finish.
LEMMA FinishType ==
    ASSUME TypeOK, NEW p \in Peer, handleFinish(p)
    PROVE  TypeOK'
<1> DEFINE k == Head(rxch[p])
           x == Callback(p, k.o)
<1>1. Next_rxpkt(p, k) /\ k.t = "finish"
    BY DEF handleFinish
<1>2. /\ k \in Item
      /\ rxch' \in [Peer -> Seq(Item)]
      /\ \A q \in Peer : Len(rxch'[q]) =< ChanSize
    BY <1>1, TakeType DEF TypeOK
<1>3. k.o \in Opaque
    BY <1>1, <1>2, PacketType DEF FrameType
<1>4. x \in Exch \cup {Nil}
    BY <1>3, CallbackType
<1>5. done' \in SUBSET Exch
    BY <1>4 DEF handleFinish, TypeOK
<1>6. \/ /\ x # Nil
         /\ Send(p, "finish", k.o, x)
         /\ closed' = closed \cup {x}
         /\ Goto(x.c, "idle")
      \/ UNCHANGED <<wire, closed, cs>>
    BY DEF handleFinish
<1>7. ToPool(p, k.o) \/ UNCHANGED pStrms
    BY DEF handleFinish
<1>8. /\ live' = [live EXCEPT ![p][k.o] = "none"]
      /\ UNCHANGED <<rxcallb, rstrm, serving, nexch, nmsg>>
    BY DEF handleFinish
<1> HIDE DEF k, x
<1>9. /\ wire' \in [Peer -> Seq(Packet)]
      /\ closed' \in SUBSET Exch
      /\ cs' \in [Caller -> [pc : Pc, o : Opaque \cup {NoOpaque},
                             x : Exch \cup {Nil}]]
      /\ \A d \in Caller : cs'[d].pc # "idle" =>
             cs'[d].o \in OpaqueOf[Home[d]] /\ cs'[d].x \in Exch
  <2>1. CASE UNCHANGED <<wire, closed, cs>>
    BY <2>1 DEF TypeOK
  <2>2. CASE /\ x # Nil
             /\ Send(p, "finish", k.o, x)
             /\ closed' = closed \cup {x}
             /\ Goto(x.c, "idle")
    <3>1. x \in Exch /\ x.c \in Caller
        BY <1>4, <2>2 DEF Exch
    <3>2. "finish" \in FrameType /\ "idle" \in Pc
        BY DEF FrameType, Pc
    <3>3. wire' \in [Peer -> Seq(Packet)]
        BY <1>3, <2>2, <3>1, <3>2, SendType DEF TypeOK
    <3>4. closed' \in SUBSET Exch
        BY <2>2, <3>1 DEF TypeOK
    <3> QED
        BY <2>2, <3>1, <3>2, <3>3, <3>4, GotoType
  <2> QED
    BY <1>6, <2>1, <2>2
<1>10. pStrms' \in [Peer -> [Opaque -> Nat]]
    BY <1>3, <1>7, ToPoolType DEF TypeOK
<1>11. live' \in [Peer -> [Opaque -> {"none", "local", "remote"}]]
    BY <1>3, <1>8 DEF TypeOK
<1> QED
    BY <1>2, <1>5, <1>8, <1>9, <1>10, <1>11 DEF TypeOK

\* handlepkt() of anything else.
LEMMA PacketsType ==
    ASSUME TypeOK, NEW p \in Peer,
           handleOpen(p) \/ handleLive(p) \/ handleDrop(p)
    PROVE  TypeOK'
<1> DEFINE k == Head(rxch[p])
           x == Callback(p, k.o)
           e == [o |-> k.o, x |-> k.x]
<1>1. Next_rxpkt(p, k) /\ k.t \in FrameType
    BY DEF handleOpen, handleLive, handleDrop, FrameType
<1>2. /\ k \in Item
      /\ rxch' \in [Peer -> Seq(Item)]
      /\ \A q \in Peer : Len(rxch'[q]) =< ChanSize
    BY <1>1, TakeType DEF TypeOK
<1>3. k.o \in Opaque /\ k.x \in Exch
    BY <1>1, <1>2, PacketType
<1>4. x \in Exch \cup {Nil}
    BY <1>3, CallbackType
<1>5. done' \in SUBSET Exch
    BY <1>4 DEF handleOpen, handleLive, handleDrop, TypeOK
<1>6. serving' \in [Peer -> SUBSET [o : Opaque, x : Exch]]
  <2>1. UNCHANGED serving \/ serving' = [serving EXCEPT ![p] = @ \cup {e}]
    BY DEF handleOpen, handleLive, handleDrop
  <2>2. e \in [o : Opaque, x : Exch]
    BY <1>3
  <2> HIDE DEF e
  <2>3. serving[p] \cup {e} \in SUBSET [o : Opaque, x : Exch]
    BY <2>2 DEF TypeOK
  <2>4. serving \in [Peer -> SUBSET [o : Opaque, x : Exch]]
    BY DEF TypeOK
  <2> QED
    BY <2>1, <2>3, <2>4
<1>7. \/ UNCHANGED <<live, rstrm>>
      \/ /\ live' = [live EXCEPT ![p][k.o] = "remote"]
         /\ rstrm' = [rstrm EXCEPT ![p][k.o] = k.x]
    BY DEF handleOpen, handleLive, handleDrop
<1>8. UNCHANGED <<pStrms, rxcallb, wire, cs, closed, nexch, nmsg>>
    BY DEF handleOpen, handleLive, handleDrop
<1> HIDE DEF k, x
<1>9. /\ live' \in [Peer -> [Opaque -> {"none", "local", "remote"}]]
      /\ rstrm' \in [Peer -> [Opaque -> Exch \cup {Nil}]]
  <2>1. /\ live \in [Peer -> [Opaque -> {"none", "local", "remote"}]]
        /\ rstrm \in [Peer -> [Opaque -> Exch \cup {Nil}]]
    BY DEF TypeOK
  <2>2. k.x \in Exch \cup {Nil}
    BY <1>3
  <2>3. [live EXCEPT ![p][k.o] = "remote"]
            \in [Peer -> [Opaque -> {"none", "local", "remote"}]]
    <3>1. "remote" \in {"none", "local", "remote"}
        OBVIOUS
    <3> QED
        BY <1>3, <2>1, <3>1, TableType
  <2>4. [rstrm EXCEPT ![p][k.o] = k.x]
            \in [Peer -> [Opaque -> Exch \cup {Nil}]]
    BY <1>3, <2>1, <2>2, TableType
  <2> QED
    BY <1>7, <2>1, <2>3, <2>4
<1> QED
    BY <1>2, <1>5, <1>6, <1>8, <1>9 DEF TypeOK

\* The types hold at first ...
LEMMA InitType == Init => TypeOK
BY ExchangeAssumption DEF Init, TypeOK, Pc

\* ... and are preserved by every step.
LEMMA NextType == TypeOK /\ [Next]_vars => TypeOK'
<1> SUFFICES ASSUME TypeOK, [Next]_vars
             PROVE  TypeOK'
    OBVIOUS
<1>1. CASE UNCHANGED vars
    BY <1>1 DEF vars, TypeOK
<1>2. ASSUME NEW c \in Caller, NEW op \in Op, getlocalstream(c, op)
      PROVE  TypeOK'
    BY <1>2, GetType
<1>3. ASSUME NEW c \in Caller, Proceed(c) \/ StreamMsg(c) \/ StreamClose(c)
      PROVE  TypeOK'
    BY <1>3, TellType, CallerSendType, RequestDoneType DEF Proceed
<1>4. ASSUME NEW p \in Peer, doRx(p) \/ syncRx(p) PROVE TypeOK'
    BY <1>4, DoRxType, UpdateType, FinishType, PacketsType DEF syncRx
<1>5. ASSUME NEW p \in Peer, NEW e \in serving[p],
             Response(p, e) \/ RemoteMsg(p, e) \/ RemoteClose(p, e)
      PROVE  TypeOK'
    BY <1>5, ServeType
<1> QED
    BY <1>1, <1>2, <1>3, <1>4, <1>5 DEF Next

\* Type correctness: among others, rxch never holds more than chansize items,
\* and a routine under way always has a stream of its own end.
THEOREM TypeCorrect == Spec => []TypeOK
BY InitType, NextType, PTL DEF Spec

-----------------------------------------------------------------------------
(* The inductive invariant.                                                *)
(*                                                                         *)
(* An opaque is configured on one end, its home p.  Whatever happens to    *)
(* stream o of p is seen in View(p, o): the stream object and its entry in *)
(* livestreams of p, what is under way to p and to the other end with that *)
(* opaque, and what the other end knows of it.  doRx() changes no view,    *)
(* and every other step changes one.                                       *)

\* The items of s that carry opaque o, in their order.
Of(o, s) == FlattenSeq([i \in DOMAIN s |->
                            IF s[i].o = o THEN <<s[i]>> ELSE <<>>])

\* What is under way to home p of o, and from there to the other end.
In(p, o) == Of(o, rxch[p]) \o Of(o, wire[Other(p)])
Out(p, o) == Of(o, rxch[Other(p)]) \o Of(o, wire[p])

\* The exchanges that the application of the other end owes an end.
Srv(p, o) == {e.x : e \in {f \in serving[Other(p)] : f.o = o}}

\* The routines that hold stream o of p, and how far they are.
Holder(c) == [c |-> c, pc |-> cs[c].pc, x |-> cs[c].x,
              told |-> cs[c].x \in done, shut |-> cs[c].x \in closed]
Hold(p, o) == {Holder(c) : c \in {d \in Caller : Holds(d, p, o)}}

View(p, o) ==
    [pool  |-> pStrms[p][o],        cb |-> rxcallb[p][o],
     shut  |-> rxcallb[p][o] \in closed,
     live  |-> live[p][o],          in |-> In(p, o),   out |-> Out(p, o),
     there |-> live[Other(p)][o],   rs |-> rstrm[Other(p)][o],
     srv   |-> Srv(p, o),           hold |-> Hold(p, o)]

\* The remote stream that packet k has to find in livestreams of the other
\* end, and the one that it leaves there; Nil if none.
Before(k) == IF k.t \in {"stream", "finish"} THEN k.x ELSE Nil
After(k) == IF k.t \in {"start", "stream"} THEN k.x ELSE Nil

\* Sent in this order, the packets s find what they have to, when the first
\* one finds remote stream r.
Chain(r, s) ==
    \A i \in DOMAIN s : Before(s[i]) = IF i = 1 THEN r ELSE After(s[i - 1])

\* The remote stream they leave behind.
End(r, s) == IF s = <<>> THEN r ELSE After(s[Len(s)])

\* The remote stream of the other end.
Cur(v) == IF v.there = "remote" THEN v.rs ELSE Nil

\* s holds no packet that opens an exchange to be answered, or one of x.
Opens(k) == k.t \in {"0x81", "start"}
NoOpen(s) == \A i \in DOMAIN s : ~Opens(s[i])
OneOpen(s, x) ==
    \E j \in DOMAIN s : /\ Opens(s[j]) /\ s[j].x = x
                        /\ \A i \in DOMAIN s : Opens(s[i]) => i = j

\* s holds no packet that ends an exchange, or exactly its last one does.
Ends(k) == k.t \in {"0x81", "finish"}
NoEnd(s) == \A i \in DOMAIN s : ~Ends(s[i])
LastEnds(s) == s # <<>> /\ \A i \in DOMAIN s : Ends(s[i]) <=> i = Len(s)

\* What the other end sends for exchange x.
Answers(x) == IF x.op = "request" THEN {"0x81"} ELSE {"stream", "finish"}

\* An update comes before every packet, and the packets are of exchange x.
Told(s) == s # <<>> /\ Head(s).t = "update"
Bare(s) == \A i \in DOMAIN s : s[i].t = "update"
InOK(s, x) ==
    \A i \in DOMAIN s :
        \/ s[i].t = "update" /\ i = 1
        \/ s[i].t \in Answers(x) /\ s[i].x = x

\* The callback that getlocalstream() installs for exchange x.
Cb(x) == IF x.op = "request" \/ (x.op = "start" /\ x.c \notin NilCallback)
         THEN x ELSE Nil

\* syncRx() of the home knows the stream of x, unless the update that says
\* so is still in rxch or the stream has a nil callback.
Known(v, x) ==
    /\ v.cb = Cb(x)
    /\ v.live = IF Cb(x) # Nil /\ ~Told(v.in) THEN "local" ELSE "none"

\* Exactly one thing stands for the end that the other side owes x: the
\* packet that opens it, its application, or the packet that ends it.
Owed(v, x) ==
    /\ InOK(v.in, x)
    /\ \/ OneOpen(v.out, x) /\ v.srv = {} /\ Bare(v.in)
       \/ NoOpen(v.out) /\ v.srv = {x} /\ NoEnd(v.in)
       \/ NoOpen(v.out) /\ v.srv = {} /\ LastEnds(v.in)

\* Nobody owes anything.
Over(v) == NoOpen(v.out) /\ v.srv = {} /\ Bare(v.in)

\* A stream that its initiator has opened; if it has a nil callback, its
\* end goes unnoticed.
Opened(v, x) ==
    /\ Known(v, x)
    /\ Owed(v, x) \/ (Cb(x) = Nil /\ Over(v) /\ InOK(v.in, x))

\* Who has a stream object: its pool, ...
Free(v) ==
    /\ v.hold = {} /\ v.pool = 1 /\ v.live = "none"
    /\ v.in = <<>> /\ Over(v) /\ End(Cur(v), v.out) = Nil

\* ... routine h, at one of the places of Post(), Request() and Stream(), ...
Telling(v, h) ==
    /\ h.pc = "tell" /\ h.x.op # "post" /\ ~h.told /\ ~h.shut
    /\ v.cb = Cb(h.x) /\ v.live = "none"
    /\ v.in = <<>> /\ Over(v) /\ End(Cur(v), v.out) = Nil

Sending(v, h) ==
    /\ h.pc = "tx" /\ ~h.told /\ ~h.shut
    /\ h.x.op = "post" => v.in = <<>>
    /\ Known(v, h.x) /\ InOK(v.in, h.x)
    /\ Over(v) /\ End(Cur(v), v.out) = Nil

Waiting(v, h) ==
    /\ h.pc = "wait" /\ h.x.op = "request" /\ Known(v, h.x)
    /\ IF h.told THEN v.in = <<>> /\ Over(v) ELSE Owed(v, h.x)
    /\ End(Cur(v), v.out) = Nil

Owning(v, h) ==
    /\ h.pc = "own" /\ h.x.op = "start" /\ ~h.shut
    /\ Opened(v, h.x) /\ End(Cur(v), v.out) = h.x

Untelling(v, h) ==
    /\ h.pc = "untell" /\ h.x.op = "request"
    /\ v.cb = Nil /\ v.live = "local"
    /\ v.in = <<>> /\ Over(v) /\ End(Cur(v), v.out) = Nil

Held(p, v) ==
    /\ v.pool = 0
    /\ \E h \in v.hold :
        /\ v.hold = {h} /\ h.x \in Exch /\ h.x.c = h.c /\ Home[h.c] = p
        /\ \/ Telling(v, h) \/ Sending(v, h) \/ Waiting(v, h)
           \/ Owning(v, h) \/ Untelling(v, h)

\* ... an update that will make syncRx() give it back, ...
Returning(v) ==
    /\ v.hold = {} /\ v.pool = 0 /\ v.cb = Nil /\ v.live = "local"
    /\ Told(v.in) /\ Len(v.in) = 1 /\ Over(v) /\ End(Cur(v), v.out) = Nil

\* ... or an exchange whose initiator has closed it.
Left(p, v) ==
    /\ v.hold = {} /\ v.pool = 0 /\ End(Cur(v), v.out) = Nil
    /\ \E x \in Exch : /\ x.op = "start" /\ Home[x.c] = p
                       /\ Opened(v, x)
                       /\ Cb(x) = Nil \/ v.shut

\* The other end has the remote stream or nothing, and what is under way to
\* it are packets of exchanges begun at p.
OutOK(p, v) ==
    /\ v.there \in {"none", "remote"}
    /\ v.there = "remote" => v.rs \in Exch /\ v.rs.op = "start"
    /\ \A i \in DOMAIN v.out :
        /\ v.out[i].t \in FrameType /\ Home[v.out[i].x.c] = p
        /\ v.out[i].t = "start" => v.out[i].x.op = "start"
    /\ Chain(Cur(v), v.out)

Good(p, v) ==
    /\ OutOK(p, v)
    /\ Free(v) \/ Held(p, v) \/ Returning(v) \/ Left(p, v)

\* Exchanges are numbered: the next one is new to everybody.
Numbers ==
    /\ \A c \in Caller : cs[c].pc # "idle" =>
           cs[c].x.c = c /\ cs[c].x.n =< nexch
    /\ \A x \in done \cup closed : x.n =< nexch

\* Nothing is said of an opaque that no end has, and an application is given
\* streams of the other end.
Used == OpaqueOf[PeerA] \cup OpaqueOf[PeerB]
Elsewhere ==
    \A p \in Peer :
        /\ \A i \in DOMAIN rxch[p] : rxch[p][i].o \in Used
        /\ \A i \in DOMAIN wire[p] : wire[p][i].o \in Used
        /\ \A e \in serving[p] : e.o \in OpaqueOf[Other(p)]
        /\ \A o \in Opaque \ Used : live[p][o] = "none"
        /\ \A o \in Opaque \ OpaqueOf[p] : pStrms[p][o] = 0

Streams == \A p \in Peer : \A o \in OpaqueOf[p] : Good(p, View(p, o))

XInv == TypeOK /\ Numbers /\ Elsewhere /\ Streams

-----------------------------------------------------------------------------
(* What the steps do to the sequences. *)

\* Of() keeps the items of one opaque.
LEMMA OfKeep ==
    ASSUME NEW S, NEW s \in Seq(S), NEW o
    PROVE  Of(o, s) = Keep({k \in S : k.o = o}, s)
<1>1. \A i \in DOMAIN s : s[i] \in {k \in S : k.o = o} <=> s[i].o = o
    OBVIOUS
<1> DEFINE M == {k \in S : k.o = o}
<1> HIDE DEF M
<1>2. [i \in DOMAIN s |-> IF s[i].o = o THEN <<s[i]>> ELSE <<>>]
          = [i \in DOMAIN s |-> IF s[i] \in M THEN <<s[i]>> ELSE <<>>]
    BY <1>1 DEF M
<1> QED
    BY <1>2 DEF Of, Keep, M

\* An item appended is appended to the items of its opaque.
LEMMA OfAppend ==
    ASSUME NEW S, NEW s \in Seq(S), NEW k \in S, NEW o
    PROVE  /\ Of(o, s) \in Seq(S)
           /\ k.o = o => Of(o, Append(s, k)) = Append(Of(o, s), k)
           /\ k.o # o => Of(o, Append(s, k)) = Of(o, s)
<1> DEFINE M == {h \in S : h.o = o}
<1>1. k \in M <=> k.o = o
    OBVIOUS
<1>2. Append(s, k) \in Seq(S)
    OBVIOUS
<1>3. Of(o, s) = Keep(M, s) /\ Of(o, Append(s, k)) = Keep(M, Append(s, k))
    BY <1>2, OfKeep
<1> HIDE DEF M
<1>4. /\ Keep(M, s) \in Seq(S)
      /\ k \in M => Keep(M, Append(s, k)) = Append(Keep(M, s), k)
      /\ k \notin M => Keep(M, Append(s, k)) = Keep(M, s)
    BY KeepAppend
<1> QED
    BY <1>1, <1>3, <1>4, Zenon

\* The head of a sequence is the head of the items of its opaque.
LEMMA OfHead ==
    ASSUME NEW S, NEW s \in Seq(S), s # <<>>, NEW o
    PROVE  Of(o, s) = IF Head(s).o = o THEN <<Head(s)>> \o Of(o, Tail(s))
                      ELSE Of(o, Tail(s))
<1> DEFINE M == {h \in S : h.o = o}
<1>1. Head(s) \in M <=> Head(s).o = o
    OBVIOUS
<1>2. Tail(s) \in Seq(S)
    OBVIOUS
<1>3. Of(o, s) = Keep(M, s) /\ Of(o, Tail(s)) = Keep(M, Tail(s))
    BY <1>2, OfKeep
<1> HIDE DEF M
<1> QED
    BY <1>1, <1>3, KeepHead

\* No items, none of any opaque.
LEMMA OfEmpty == ASSUME NEW o PROVE Of(o, <<>>) = <<>>
<1>1. <<>> \in Seq({})
    OBVIOUS
<1>2. Of(o, <<>>) = Keep({k \in {} : k.o = o}, <<>>)
    BY <1>1, OfKeep
<1> QED
    BY <1>2, KeepEmpty

\* Two sequences one after the other, of which the second grows, ...
LEMMA CatPush ==
    ASSUME NEW S, NEW s \in Seq(S), NEW t \in Seq(S), NEW k \in S
    PROVE  s \o Append(t, k) = Append(s \o t, k)
<1>1. /\ s \o Append(t, k) \in Seq(S) /\ Append(s \o t, k) \in Seq(S)
      /\ Len(s \o Append(t, k)) = Len(Append(s \o t, k))
    OBVIOUS
<1>2. \A i \in 1..Len(s \o Append(t, k)) :
          (s \o Append(t, k))[i] = Append(s \o t, k)[i]
    OBVIOUS
<1> QED
    BY <1>1, <1>2, SeqEqual

\* ... the first loses its head, ...
LEMMA CatPop ==
    ASSUME NEW S, NEW s \in Seq(S), NEW t \in Seq(S), s # <<>>
    PROVE  /\ s \o t # <<>> /\ Head(s \o t) = Head(s)
           /\ Tail(s) \o t = Tail(s \o t)
<1>1. s \o t \in Seq(S) /\ s \o t # <<>> /\ Len(s) >= 1
    BY ConcatEqualIffEmpty
<1>2. Head(s \o t) = Head(s)
    BY <1>1
<1>3. /\ Tail(s) \o t \in Seq(S) /\ Tail(s \o t) \in Seq(S)
      /\ Len(Tail(s) \o t) = Len(Tail(s \o t))
    BY <1>1
<1>4. \A i \in 1..Len(Tail(s) \o t) : (Tail(s) \o t)[i] = Tail(s \o t)[i]
    BY <1>1
<1> QED
    BY <1>1, <1>2, <1>3, <1>4, SeqEqual

\* ... or takes over the head of the second.
LEMMA CatMove ==
    ASSUME NEW S, NEW s \in Seq(S), NEW t \in Seq(S), NEW k \in S
    PROVE  Append(s, k) \o t = s \o (<<k>> \o t)
<1>1. Append(s, k) = s \o <<k>> /\ <<k>> \in Seq(S)
    OBVIOUS
<1> QED
    BY <1>1, ConcatAssociative

\* There are two ends.
LEMMA Ends2 ==
    ASSUME NEW p \in Peer
    PROVE  /\ Other(p) \in Peer /\ Other(p) # p /\ Other(Other(p)) = p
           /\ \A r \in Peer : r = p \/ r = Other(p)
BY ExchangeAssumption DEF Peer, Other

\* What is under way are sequences of items.
LEMMA OfType ==
    ASSUME TypeOK, NEW r \in Peer, NEW u
    PROVE  /\ Of(u, rxch[r]) \in Seq(Item) /\ Of(u, wire[r]) \in Seq(Item)
           /\ In(r, u) \in Seq(Item) /\ Out(r, u) \in Seq(Item)
<1>1. ASSUME NEW S, NEW s \in Seq(S) PROVE Of(u, s) \in Seq(S)
  <2>1. CASE s = <<>>
    BY <2>1, OfEmpty
  <2>2. CASE s # <<>>
    <3>1. Head(s) \in S
      BY <2>2
    <3> QED
      BY <3>1, OfAppend
  <2> QED
    BY <2>1, <2>2
<1>2. ASSUME NEW q \in Peer
      PROVE  /\ rxch[q] \in Seq(Item) /\ wire[q] \in Seq(Item)
             /\ Of(u, rxch[q]) \in Seq(Item) /\ Of(u, wire[q]) \in Seq(Item)
  <2>1. rxch[q] \in Seq(Item) /\ wire[q] \in Seq(Packet)
    BY DEF TypeOK
  <2>2. wire[q] \in Seq(Item)
    BY <2>1, SeqMonotonic DEF Item
  <2> QED
    BY <1>1, <2>1, <2>2
<1>3. Other(r) \in Peer
    BY Ends2
<1> QED
    BY <1>2, <1>3 DEF In, Out

\* What a send does to the items of an opaque, ...
LEMMA SendOf ==
    ASSUME TypeOK, NEW p \in Peer, NEW t \in FrameType, NEW o \in Opaque,
           NEW x \in Exch, Send(p, t, o, x), NEW r \in Peer, NEW u
    PROVE  Of(u, wire'[r]) =
               IF r = p /\ u = o
               THEN Append(Of(u, wire[r]), [t |-> t, o |-> o, x |-> x])
               ELSE Of(u, wire[r])
<1> DEFINE k == [t |-> t, o |-> o, x |-> x]
<1>1. k \in Packet /\ k.o = o
    BY DEF Packet
<1>2. /\ wire[r] \in Seq(Packet)
      /\ wire'[r] = IF r = p THEN Append(wire[r], k) ELSE wire[r]
    BY DEF TypeOK, Send
<1> HIDE DEF k
<1>3. /\ k.o = u => Of(u, Append(wire[r], k)) = Append(Of(u, wire[r]), k)
      /\ k.o # u => Of(u, Append(wire[r], k)) = Of(u, wire[r])
  <2>1. wire[r] \in Seq(Packet) /\ k \in Packet
    BY <1>1, <1>2
  <2> QED
    BY <2>1, OfAppend
<1>4. Of(u, wire'[r]) = IF r = p /\ u = o THEN Append(Of(u, wire[r]), k)
                        ELSE Of(u, wire[r])
    BY <1>1, <1>2, <1>3, Zenon
<1> QED
    BY <1>4 DEF k

\* ... what a putch() does, ...
LEMMA PutOf ==
    ASSUME TypeOK, NEW p \in Peer, NEW k \in Item, putch(p, k),
           NEW r \in Peer, NEW u
    PROVE  Of(u, rxch'[r]) = IF r = p /\ u = k.o
                             THEN Append(Of(u, rxch[r]), k)
                             ELSE Of(u, rxch[r])
<1>1. /\ rxch[r] \in Seq(Item)
      /\ rxch'[r] = IF r = p THEN Append(rxch[r], k) ELSE rxch[r]
    BY DEF TypeOK, putch
<1>2. /\ k.o = u => Of(u, Append(rxch[r], k)) = Append(Of(u, rxch[r]), k)
      /\ k.o # u => Of(u, Append(rxch[r], k)) = Of(u, rxch[r])
  <2>1. rxch[r] \in Seq(Item)
    BY <1>1
  <2> QED
    BY <2>1, OfAppend
<1> QED
    BY <1>1, <1>2, Zenon

\* ... and what taking the next item does.
LEMMA TakeOf ==
    ASSUME TypeOK, NEW p \in Peer, NEW k, Next_rxpkt(p, k)
    PROVE  /\ Of(k.o, rxch[p]) # <<>> /\ Head(Of(k.o, rxch[p])) = k
           /\ \A r \in Peer : \A u :
                  Of(u, rxch'[r]) = IF r = p /\ u = k.o
                                    THEN Tail(Of(u, rxch[r]))
                                    ELSE Of(u, rxch[r])
<1>1. /\ rxch[p] \in Seq(Item) /\ rxch[p] # <<>> /\ k = Head(rxch[p])
      /\ rxch' = [rxch EXCEPT ![p] = Tail(@)]
    BY DEF TypeOK, Next_rxpkt
<1>2. k \in Item /\ Tail(rxch[p]) \in Seq(Item)
    BY <1>1
<1>3. ASSUME NEW u
      PROVE  Of(u, rxch[p]) = IF k.o = u THEN <<k>> \o Of(u, Tail(rxch[p]))
                              ELSE Of(u, Tail(rxch[p]))
    BY <1>1, OfHead
<1>4. Of(k.o, Tail(rxch[p])) \in Seq(Item)
    BY <1>2, OfAppend
<1>5. ASSUME NEW s \in Seq(Item)
      PROVE  /\ <<k>> \o s # <<>> /\ Head(<<k>> \o s) = k
             /\ Tail(<<k>> \o s) = s
  <2>1. <<k>> \in Seq(Item) /\ <<k>> # <<>> /\ Tail(<<k>>) = <<>>
        /\ Head(<<k>>) = k
    BY <1>2
  <2>2. <<>> \o s = s
    OBVIOUS
  <2> QED
    BY <2>1, <2>2, CatPop
<1>6. /\ Of(k.o, rxch[p]) # <<>> /\ Head(Of(k.o, rxch[p])) = k
      /\ Tail(Of(k.o, rxch[p])) = Of(k.o, Tail(rxch[p]))
    BY <1>3, <1>4, <1>5
<1>7. ASSUME NEW r \in Peer, NEW u
      PROVE  Of(u, rxch'[r]) = IF r = p /\ u = k.o
                               THEN Tail(Of(u, rxch[r])) ELSE Of(u, rxch[r])
  <2>1. rxch'[r] = IF r = p THEN Tail(rxch[r]) ELSE rxch[r]
    BY <1>1 DEF TypeOK
  <2> QED
    BY <1>3, <1>6, <2>1
<1> QED
    BY <1>6, <1>7

\* The two ends have different opaques.
Disjoint == OpaqueOf[PeerA] \cap OpaqueOf[PeerB] = {}

\* An opaque has one home.
LEMMA OneHome ==
    ASSUME Disjoint, NEW p \in Peer, NEW o \in OpaqueOf[p],
           NEW r \in Peer, o \in OpaqueOf[r]
    PROVE  r = p
BY DEF Disjoint, Peer

\* An opaque that some end has is one of this end or of the other.
LEMMA HomeOf ==
    ASSUME NEW p \in Peer, NEW o \in Used
    PROVE  /\ o \in OpaqueOf[p] \/ o \in OpaqueOf[Other(p)]
           /\ o \in Opaque
BY ExchangeAssumption DEF Used, Peer, Other

\* Packet k with opaque o is appended to what is under way from p.
Appends(p, o, k) ==
    \A r \in Peer : \A u :
        /\ r = Other(p) /\ u = o => In(r, u)' = Append(In(r, u), k)
        /\ r # Other(p) \/ u # o => In(r, u)' = In(r, u)
        /\ r = p /\ u = o => Out(r, u)' = Append(Out(r, u), k)
        /\ r # p \/ u # o => Out(r, u)' = Out(r, u)

\* A send appends to what is under way from its sender.
LEMMA SendInOut ==
    ASSUME TypeOK, NEW p \in Peer, NEW t \in FrameType, NEW o \in Opaque,
           NEW x \in Exch, Send(p, t, o, x), UNCHANGED rxch
    PROVE  Appends(p, o, [t |-> t, o |-> o, x |-> x])
<1> DEFINE k == [t |-> t, o |-> o, x |-> x]
<1> SUFFICES ASSUME NEW r \in Peer, NEW u
             PROVE  /\ r = Other(p) /\ u = o =>
                           In(r, u)' = Append(In(r, u), k)
                    /\ r # Other(p) \/ u # o => In(r, u)' = In(r, u)
                    /\ r = p /\ u = o => Out(r, u)' = Append(Out(r, u), k)
                    /\ r # p \/ u # o => Out(r, u)' = Out(r, u)
    BY DEF Appends
<1>1. k \in Item
    BY DEF Item, Packet
<1>2. Other(r) \in Peer /\ (Other(r) = p <=> r = Other(p))
    BY Ends2
<1>3. ASSUME NEW q \in Peer
      PROVE  /\ q = p /\ u = o => Of(u, wire'[q]) = Append(Of(u, wire[q]), k)
             /\ q # p \/ u # o => Of(u, wire'[q]) = Of(u, wire[q])
  <2>1. Of(u, wire'[q]) = IF q = p /\ u = o THEN Append(Of(u, wire[q]), k)
                          ELSE Of(u, wire[q])
    BY SendOf
  <2> QED
    BY <2>1, Zenon
<1>4. ASSUME NEW q \in Peer
      PROVE  Of(u, rxch[q]) \in Seq(Item) /\ Of(u, wire[q]) \in Seq(Item)
    BY OfType
<1> HIDE DEF k
<1>5. ASSUME NEW q \in Peer, NEW s \in Peer
      PROVE  Of(u, rxch[q]) \o Append(Of(u, wire[s]), k)
                 = Append(Of(u, rxch[q]) \o Of(u, wire[s]), k)
    BY <1>1, <1>4, CatPush
<1>6. /\ In(r, u)' = Of(u, rxch[r]) \o Of(u, wire'[Other(r)])
      /\ Out(r, u)' = Of(u, rxch[Other(r)]) \o Of(u, wire'[r])
    BY DEF In, Out
<1>7. /\ r = Other(p) /\ u = o => In(r, u)' = Append(In(r, u), k)
      /\ r # Other(p) \/ u # o => In(r, u)' = In(r, u)
    BY <1>2, <1>3, <1>5, <1>6 DEF In
<1>8. /\ r = p /\ u = o => Out(r, u)' = Append(Out(r, u), k)
      /\ r # p \/ u # o => Out(r, u)' = Out(r, u)
    BY <1>2, <1>3, <1>5, <1>6 DEF Out
<1> QED
    BY <1>7, <1>8 DEF k

\* Nothing but opaque o is concerned.
Flows(o) ==
    \A r \in Peer : \A u :
        u # o => In(r, u)' = In(r, u) /\ Out(r, u)' = Out(r, u)

\* Telling syncRx() of a stream with which nothing is under way.
LEMMA PutInOut ==
    ASSUME TypeOK, NEW p \in Peer, NEW o \in Opaque,
           putch(p, [t |-> "update", o |-> o]), UNCHANGED wire,
           In(p, o) = <<>>
    PROVE  /\ In(p, o)' = <<[t |-> "update", o |-> o]>>
           /\ Out(p, o)' = Out(p, o) /\ Flows(o)
<1> DEFINE k == [t |-> "update", o |-> o]
<1>1. k \in Item /\ k.o = o
    BY DEF Item, Update
<1>2. \A r \in Peer : Other(r) \in Peer /\ Other(r) # r
    BY Ends2
<1> HIDE DEF k
<1>3. ASSUME NEW q \in Peer, NEW u
      PROVE  /\ q = p /\ u = o => Of(u, rxch'[q]) = Append(Of(u, rxch[q]), k)
             /\ q # p \/ u # o => Of(u, rxch'[q]) = Of(u, rxch[q])
  <2>1. putch(p, k)
    BY DEF k
  <2>2. Of(u, rxch'[q]) = IF q = p /\ u = k.o THEN Append(Of(u, rxch[q]), k)
                          ELSE Of(u, rxch[q])
    BY <1>1, <2>1, PutOf
  <2> QED
    BY <1>1, <2>2, Zenon
<1>4. ASSUME NEW r \in Peer, NEW u
      PROVE  /\ In(r, u)' = Of(u, rxch'[r]) \o Of(u, wire[Other(r)])
             /\ Out(r, u)' = Of(u, rxch'[Other(r)]) \o Of(u, wire[r])
    BY DEF In, Out
<1>5. Of(o, rxch[p]) = <<>> /\ Of(o, wire[Other(p)]) = <<>>
  <2>1. Of(o, rxch[p]) \in Seq(Item) /\ Of(o, wire[Other(p)]) \in Seq(Item)
    BY <1>2, OfType
  <2> QED
    BY <2>1, ConcatEqualIffEmpty DEF In
<1>6. Append(<<>>, k) \o <<>> = <<k>>
    BY <1>1
<1>7. In(p, o)' = <<k>>
  <2>1. In(p, o)' = Append(Of(o, rxch[p]), k) \o Of(o, wire[Other(p)])
    BY <1>3, <1>4
  <2> QED
    BY <1>5, <1>6, <2>1
<1>8. Out(p, o)' = Out(p, o)
    BY <1>2, <1>3, <1>4 DEF Out
<1>9. ASSUME NEW r \in Peer, NEW u, u # o
      PROVE  In(r, u)' = In(r, u) /\ Out(r, u)' = Out(r, u)
    BY <1>2, <1>3, <1>4, <1>9 DEF In, Out
<1> QED
    BY <1>7, <1>8, <1>9 DEF k, Flows

\* The next item for syncRx() is the next item under way with its opaque.
LEMMA TakeInOut ==
    ASSUME TypeOK, NEW p \in Peer, NEW k, Next_rxpkt(p, k)
    PROVE  /\ In(p, k.o) # <<>> /\ Head(In(p, k.o)) = k
           /\ Out(Other(p), k.o) # <<>> /\ Head(Out(Other(p), k.o)) = k
           /\ UNCHANGED wire =>
                \A r \in Peer : \A u :
                  /\ r = p /\ u = k.o => In(r, u)' = Tail(In(r, u))
                  /\ r # p \/ u # k.o => In(r, u)' = In(r, u)
                  /\ r = Other(p) /\ u = k.o => Out(r, u)' = Tail(Out(r, u))
                  /\ r # Other(p) \/ u # k.o => Out(r, u)' = Out(r, u)
<1> DEFINE o == k.o
           R == Of(o, rxch[p])
<1>1. /\ R # <<>> /\ Head(R) = k
      /\ \A r \in Peer : \A u :
             /\ r = p /\ u = o => Of(u, rxch'[r]) = Tail(R)
             /\ r # p \/ u # o => Of(u, rxch'[r]) = Of(u, rxch[r])
  <2>1. /\ R # <<>> /\ Head(R) = k
        /\ \A r \in Peer : \A u :
               Of(u, rxch'[r]) = IF r = p /\ u = o
                                 THEN Tail(Of(u, rxch[r]))
                                 ELSE Of(u, rxch[r])
    BY TakeOf
  <2> QED
    BY <2>1, Zenon
<1>2. R \in Seq(Item) /\ \A r \in Peer : Of(o, wire[r]) \in Seq(Item)
    BY OfType
<1>3. ASSUME NEW r \in Peer
      PROVE  /\ R \o Of(o, wire[r]) # <<>> /\ Head(R \o Of(o, wire[r])) = k
             /\ Tail(R) \o Of(o, wire[r]) = Tail(R \o Of(o, wire[r]))
    BY <1>1, <1>2, CatPop
<1> HIDE DEF o
<1>4. Other(p) \in Peer /\ Other(Other(p)) = p
    BY Ends2
<1>5. /\ In(p, o) # <<>> /\ Head(In(p, o)) = k
      /\ Out(Other(p), o) # <<>> /\ Head(Out(Other(p), o)) = k
    BY <1>3, <1>4 DEF In, Out
<1>6. ASSUME UNCHANGED wire, NEW r \in Peer, NEW u
      PROVE  /\ r = p /\ u = o => In(r, u)' = Tail(In(r, u))
             /\ r # p \/ u # o => In(r, u)' = In(r, u)
             /\ r = Other(p) /\ u = o => Out(r, u)' = Tail(Out(r, u))
             /\ r # Other(p) \/ u # o => Out(r, u)' = Out(r, u)
  <2>1. /\ In(r, u)' = Of(u, rxch'[r]) \o Of(u, wire[Other(r)])
        /\ Out(r, u)' = Of(u, rxch'[Other(r)]) \o Of(u, wire[r])
    BY <1>6 DEF In, Out
  <2>2. Other(r) \in Peer /\ (Other(r) = p <=> r = Other(p))
    BY Ends2
  <2>3. /\ r = p /\ u = o => In(r, u)' = Tail(In(r, u))
        /\ r # p \/ u # o => In(r, u)' = In(r, u)
    BY <1>1, <1>3, <2>1, <2>2 DEF In
  <2>4. /\ r = Other(p) /\ u = o => Out(r, u)' = Tail(Out(r, u))
        /\ r # Other(p) \/ u # o => Out(r, u)' = Out(r, u)
    BY <1>1, <1>3, <2>1, <2>2 DEF Out
  <2> QED
    BY <2>3, <2>4
<1> QED
    BY <1>5, <1>6 DEF o

\* doRx() moves an item from one half of what is under way to the other.
LEMMA DoRxInOut ==
    ASSUME TypeOK, NEW p \in Peer, doRx(p), NEW r \in Peer, NEW u
    PROVE  In(r, u)' = In(r, u) /\ Out(r, u)' = Out(r, u)
<1> DEFINE q == Other(p)
           k == Head(wire[q])
<1>1. /\ q \in Peer /\ q # p /\ Other(q) = p /\ Other(p) = q
      /\ r = p \/ r = q
    BY Ends2
<1>2. /\ wire[q] \in Seq(Packet) /\ wire[q] # <<>>
      /\ putch(p, k) /\ wire' = [wire EXCEPT ![q] = Tail(@)]
    BY <1>1 DEF TypeOK, doRx
<1> HIDE DEF q
<1>3. k \in Packet /\ k \in Item /\ Tail(wire[q]) \in Seq(Packet)
    BY <1>2 DEF Item
<1>4. Of(u, wire[q]) = IF k.o = u THEN <<k>> \o Of(u, Tail(wire[q]))
                       ELSE Of(u, Tail(wire[q]))
    BY <1>2, OfHead
<1>5. Of(u, rxch[p]) \in Seq(Item) /\ Of(u, Tail(wire[q])) \in Seq(Item)
  <2>1. Of(u, rxch[p]) \in Seq(Item)
    BY OfType
  <2>2. Of(u, Tail(wire[q])) \in Seq(Packet)
    BY <1>3, OfAppend
  <2> QED
    BY <2>1, <2>2, SeqMonotonic DEF Item
<1>6. \A s \in Peer : Of(u, rxch'[s]) = IF s = p /\ u = k.o
                                        THEN Append(Of(u, rxch[s]), k)
                                        ELSE Of(u, rxch[s])
  <2> HIDE DEF k
  <2>1. putch(p, k) /\ k \in Item
    BY <1>2, <1>3
  <2> QED
    BY <2>1, PutOf
<1>7. \A s \in Peer : Of(u, wire'[s]) = IF s = q THEN Of(u, Tail(wire[q]))
                                        ELSE Of(u, wire[s])
  <2>1. \A s \in Peer : wire'[s] = IF s = q THEN Tail(wire[q]) ELSE wire[s]
    BY <1>1, <1>2 DEF TypeOK
  <2> QED
    BY <2>1, Zenon
<1> HIDE DEF k
<1>8. Append(Of(u, rxch[p]), k) \o Of(u, Tail(wire[q]))
          = Of(u, rxch[p]) \o (<<k>> \o Of(u, Tail(wire[q])))
    BY <1>3, <1>5, CatMove
<1>9. Of(u, rxch'[p]) \o Of(u, wire'[q]) = Of(u, rxch[p]) \o Of(u, wire[q])
  <2>1. Of(u, wire'[q]) = Of(u, Tail(wire[q]))
    BY <1>1, <1>7, Zenon
  <2>2. CASE u = k.o
    <3>1. Of(u, rxch'[p]) = Append(Of(u, rxch[p]), k)
      BY <1>6, <2>2, Zenon
    <3>2. Of(u, wire[q]) = <<k>> \o Of(u, Tail(wire[q]))
      BY <1>4, <2>2, Zenon
    <3> QED
      BY <1>8, <2>1, <3>1, <3>2, Zenon
  <2>3. CASE u # k.o
    <3>1. Of(u, rxch'[p]) = Of(u, rxch[p])
      BY <1>6, <2>3, Zenon
    <3>2. Of(u, wire[q]) = Of(u, Tail(wire[q]))
      BY <1>4, <2>3, Zenon
    <3> QED
      BY <2>1, <3>1, <3>2, Zenon
  <2> QED
    BY <2>2, <2>3
<1>10. Of(u, rxch'[q]) = Of(u, rxch[q]) /\ Of(u, wire'[p]) = Of(u, wire[p])
    BY <1>1, <1>6, <1>7, Zenon
<1>11. /\ In(r, u)' = Of(u, rxch'[r]) \o Of(u, wire'[Other(r)])
       /\ Out(r, u)' = Of(u, rxch'[Other(r)]) \o Of(u, wire'[r])
    BY DEF In, Out
<1>12. CASE r = p
  <2>1. /\ In(p, u)' = Of(u, rxch'[p]) \o Of(u, wire'[q])
        /\ Out(p, u)' = Of(u, rxch'[q]) \o Of(u, wire'[p])
    BY <1>1, <1>11, <1>12, Zenon
  <2> QED
    BY <1>1, <1>9, <1>10, <1>12, <2>1, Zenon DEF In, Out
<1>13. CASE r = q
  <2>1. /\ In(q, u)' = Of(u, rxch'[q]) \o Of(u, wire'[p])
        /\ Out(q, u)' = Of(u, rxch'[p]) \o Of(u, wire'[q])
    BY <1>1, <1>11, <1>13, Zenon
  <2> QED
    BY <1>1, <1>9, <1>10, <1>13, <2>1, Zenon DEF In, Out
<1> QED
    BY <1>1, <1>12, <1>13

\* Taking an item of a stream of p and answering it at once.
LEMMA TakeSendInOut ==
    ASSUME TypeOK, NEW p \in Peer, NEW k, Next_rxpkt(p, k), k.o \in Opaque,
           NEW t \in FrameType, NEW x \in Exch, Send(p, t, k.o, x)
    PROVE  /\ In(p, k.o)' = Tail(In(p, k.o))
           /\ Out(p, k.o)' = Append(Out(p, k.o),
                                    [t |-> t, o |-> k.o, x |-> x])
           /\ Flows(k.o)
<1> DEFINE o == k.o
           m == [t |-> t, o |-> o, x |-> x]
<1>1. m \in Item
    BY DEF Item, Packet
<1>2. \A r \in Peer : Other(r) \in Peer /\ Other(r) # r
    BY Ends2
<1>3. ASSUME NEW q \in Peer, NEW u
      PROVE  Of(u, wire'[q]) = IF q = p /\ u = o THEN Append(Of(u, wire[q]), m)
                               ELSE Of(u, wire[q])
  <2> HIDE DEF o
  <2>1. Send(p, t, o, x) /\ o \in Opaque
    BY DEF o
  <2> QED
    BY <2>1, SendOf
<1>4. /\ Of(o, rxch[p]) # <<>>
      /\ \A q \in Peer : \A u : Of(u, rxch'[q]) = IF q = p /\ u = o
                                                 THEN Tail(Of(u, rxch[q]))
                                                 ELSE Of(u, rxch[q])
    BY TakeOf
<1>5. \A q \in Peer : /\ Of(o, rxch[q]) \in Seq(Item)
                      /\ Of(o, wire[q]) \in Seq(Item)
    BY OfType
<1> HIDE DEF o, m
<1>6. ASSUME NEW r \in Peer, NEW u
      PROVE  /\ In(r, u)' = Of(u, rxch'[r]) \o Of(u, wire'[Other(r)])
             /\ Out(r, u)' = Of(u, rxch'[Other(r)]) \o Of(u, wire'[r])
    BY DEF In, Out
<1>7. /\ Tail(Of(o, rxch[p])) \o Of(o, wire[Other(p)])
             = Tail(Of(o, rxch[p]) \o Of(o, wire[Other(p)]))
      /\ Of(o, rxch[Other(p)]) \o Append(Of(o, wire[p]), m)
             = Append(Of(o, rxch[Other(p)]) \o Of(o, wire[p]), m)
  <2>1. /\ Of(o, rxch[p]) \in Seq(Item) /\ Of(o, rxch[p]) # <<>>
        /\ Of(o, wire[Other(p)]) \in Seq(Item)
        /\ Of(o, rxch[Other(p)]) \in Seq(Item) /\ Of(o, wire[p]) \in Seq(Item)
    BY <1>2, <1>4, <1>5, Zenon
  <2>2. Tail(Of(o, rxch[p])) \o Of(o, wire[Other(p)])
            = Tail(Of(o, rxch[p]) \o Of(o, wire[Other(p)]))
    BY <2>1, CatPop
  <2>3. Of(o, rxch[Other(p)]) \o Append(Of(o, wire[p]), m)
            = Append(Of(o, rxch[Other(p)]) \o Of(o, wire[p]), m)
    BY <1>1, <2>1, CatPush
  <2> QED
    BY <2>2, <2>3
<1>8. In(p, o)' = Tail(In(p, o)) /\ Out(p, o)' = Append(Out(p, o), m)
  <2>1. /\ Of(o, rxch'[p]) = Tail(Of(o, rxch[p]))
        /\ Of(o, wire'[p]) = Append(Of(o, wire[p]), m)
    BY <1>3, <1>4, Zenon
  <2>2. /\ Of(o, rxch'[Other(p)]) = Of(o, rxch[Other(p)])
        /\ Of(o, wire'[Other(p)]) = Of(o, wire[Other(p)])
    BY <1>2, <1>3, <1>4, Zenon
  <2> QED
    BY <1>6, <1>7, <2>1, <2>2, Zenon DEF In, Out
<1>9. ASSUME NEW r \in Peer, NEW u, u # o
      PROVE  In(r, u)' = In(r, u) /\ Out(r, u)' = Out(r, u)
  <2>1. /\ Of(u, rxch'[r]) = Of(u, rxch[r]) /\ Of(u, wire'[r]) = Of(u, wire[r])
        /\ Of(u, rxch'[Other(r)]) = Of(u, rxch[Other(r)])
        /\ Of(u, wire'[Other(r)]) = Of(u, wire[Other(r)])
    BY <1>2, <1>3, <1>4, <1>9, Zenon
  <2> QED
    BY <1>6, <2>1, Zenon DEF In, Out
<1> QED
    BY <1>8, <1>9, Zenon DEF o, m, Flows

-----------------------------------------------------------------------------
(* What the parts of the invariant say of a longer or a shorter sequence.  *)

\* A sequence and an item more.
LEMMA Longer ==
    ASSUME NEW s \in Seq(Item), NEW k \in Item
    PROVE  /\ Append(s, k) \in Seq(Item) /\ Append(s, k) # <<>>
           /\ Len(Append(s, k)) = Len(s) + 1 /\ Len(s) \in Nat
           /\ DOMAIN s = 1..Len(s) /\ DOMAIN Append(s, k) = 1..(Len(s) + 1)
           /\ Append(s, k)[Len(s) + 1] = k
           /\ \A i \in 1..Len(s) : Append(s, k)[i] = s[i]
           /\ s = <<>> <=> Len(s) = 0
OBVIOUS

\* A sequence without its head.
LEMMA Shorter ==
    ASSUME NEW s \in Seq(Item), s # <<>>
    PROVE  /\ Tail(s) \in Seq(Item) /\ Head(s) \in Item /\ Head(s) = s[1]
           /\ Len(Tail(s)) = Len(s) - 1 /\ Len(s) \in Nat \ {0}
           /\ DOMAIN s = 1..Len(s) /\ DOMAIN Tail(s) = 1..(Len(s) - 1)
           /\ \A i \in 1..(Len(s) - 1) : Tail(s)[i] = s[i + 1]
           /\ Tail(s) = <<>> <=> Len(s) = 1
<1>1. Tail(s) \in Seq(Item) /\ Len(Tail(s)) = Len(s) - 1
    BY HeadTailProperties
<1>2. Tail(s) = <<>> <=> Len(Tail(s)) = 0
    BY <1>1, EmptyLen
<1> QED
    BY <1>1, <1>2, HeadTailProperties

\* A packet that finds what the others leave may follow them.
LEMMA ChainPush ==
    ASSUME NEW r, NEW s \in Seq(Item), NEW k \in Item,
           Chain(r, s), Before(k) = End(r, s)
    PROVE  Chain(r, Append(s, k)) /\ End(r, Append(s, k)) = After(k)
<1> DEFINE t == Append(s, k)
           n == Len(s)
<1>1. /\ t # <<>> /\ Len(t) = n + 1 /\ n \in Nat
      /\ DOMAIN s = 1..n /\ DOMAIN t = 1..(n + 1) /\ t[n + 1] = k
      /\ \A i \in 1..n : t[i] = s[i]
      /\ s = <<>> <=> n = 0
    BY Longer
<1>2. Before(k) = IF n = 0 THEN r ELSE After(s[n])
    BY <1>1 DEF End
<1> HIDE DEF t, n
<1>3. ASSUME NEW i \in 1..(n + 1)
      PROVE  Before(t[i]) = IF i = 1 THEN r ELSE After(t[i - 1])
  <2>1. CASE i = n + 1
    <3>1. t[i] = k /\ (i = 1 <=> n = 0) /\ (n # 0 => t[i - 1] = s[n])
      BY <1>1, <2>1
    <3> QED
      BY <1>2, <3>1
  <2>2. CASE i # n + 1
    <3>1. i \in 1..n /\ (i # 1 => i - 1 \in 1..n)
      BY <1>1, <2>2
    <3>2. t[i] = s[i] /\ (i # 1 => t[i - 1] = s[i - 1])
      BY <1>1, <3>1
    <3> QED
      BY <1>1, <3>1, <3>2 DEF Chain
  <2> QED
    BY <2>1, <2>2
<1>4. Chain(r, t)
    BY <1>1, <1>3 DEF Chain
<1>5. End(r, t) = After(k)
    BY <1>1 DEF End
<1> QED
    BY <1>4, <1>5 DEF t

\* The first packet finds what is there; the others, what it leaves.
LEMMA ChainPop ==
    ASSUME NEW r, NEW s \in Seq(Item), s # <<>>, Chain(r, s)
    PROVE  /\ Before(Head(s)) = r
           /\ Chain(After(Head(s)), Tail(s))
           /\ End(After(Head(s)), Tail(s)) = End(r, s)
<1> DEFINE t == Tail(s)
           n == Len(s)
           k == Head(s)
<1>1. /\ k = s[1] /\ Len(t) = n - 1 /\ n \in Nat \ {0}
      /\ DOMAIN s = 1..n /\ DOMAIN t = 1..(n - 1)
      /\ \A i \in 1..(n - 1) : t[i] = s[i + 1]
      /\ t = <<>> <=> n = 1
    BY Shorter
<1> SUFFICES /\ Before(k) = r /\ Chain(After(k), t)
             /\ End(After(k), t) = End(r, s)
    OBVIOUS
<1> HIDE DEF t, k
<1>2. Before(k) = r
    BY <1>1 DEF Chain
<1>3. ASSUME NEW i \in 1..(n - 1)
      PROVE  Before(t[i]) = IF i = 1 THEN After(k) ELSE After(t[i - 1])
  <2>1. i + 1 \in 1..n /\ i + 1 # 1 /\ (i + 1) - 1 = i
    BY <1>1
  <2>2. Before(s[i + 1]) = After(s[i]) /\ t[i] = s[i + 1]
    BY <1>1, <2>1 DEF Chain
  <2>3. i # 1 => t[i - 1] = s[(i - 1) + 1] /\ (i - 1) + 1 = i
    BY <1>1
  <2> QED
    BY <1>1, <2>2, <2>3
<1>4. End(After(k), t) = End(r, s)
  <2>1. CASE n = 1
    BY <1>1, <2>1 DEF End
  <2>2. CASE n # 1
    <3>1. t # <<>> /\ t[Len(t)] = s[n]
      BY <1>1, <2>2
    <3> QED
      BY <3>1 DEF End
  <2> QED
    BY <2>1, <2>2
<1> QED
    BY <1>1, <1>2, <1>3, <1>4 DEF Chain

\* Packets that open an exchange, and one more packet.
LEMMA OpenPush ==
    ASSUME NEW s \in Seq(Item), NEW k \in Item
    PROVE  /\ NoOpen(s) /\ ~Opens(k) => NoOpen(Append(s, k))
           /\ NoOpen(s) /\ Opens(k) => OneOpen(Append(s, k), k.x)
           /\ \A x : OneOpen(s, x) /\ ~Opens(k) => OneOpen(Append(s, k), x)
<1> DEFINE t == Append(s, k)
           n == Len(s)
<1>1. /\ n \in Nat
      /\ DOMAIN s = 1..n /\ DOMAIN t = 1..(n + 1) /\ t[n + 1] = k
      /\ \A i \in 1..n : t[i] = s[i]
    BY Longer
<1> HIDE DEF t, n
<1>2. ASSUME NEW i \in 1..(n + 1), i # n + 1 PROVE i \in 1..n /\ t[i] = s[i]
    BY <1>1, <1>2
<1>3. NoOpen(s) /\ ~Opens(k) => NoOpen(t)
    BY <1>1, <1>2 DEF NoOpen
<1>4. ASSUME NoOpen(s), Opens(k) PROVE OneOpen(t, k.x)
  <2>1. n + 1 \in DOMAIN t /\ Opens(t[n + 1]) /\ t[n + 1].x = k.x
    BY <1>1, <1>4
  <2>2. \A i \in DOMAIN t : Opens(t[i]) => i = n + 1
    BY <1>1, <1>2, <1>4 DEF NoOpen
  <2> QED
    BY <2>1, <2>2 DEF OneOpen
<1>5. ASSUME NEW x, OneOpen(s, x), ~Opens(k) PROVE OneOpen(t, x)
  <2>1. PICK j \in 1..n : /\ Opens(s[j]) /\ s[j].x = x
                          /\ \A i \in 1..n : Opens(s[i]) => i = j
    BY <1>1, <1>5 DEF OneOpen
  <2>2. j \in DOMAIN t /\ Opens(t[j]) /\ t[j].x = x
    BY <1>1, <2>1
  <2>3. \A i \in DOMAIN t : Opens(t[i]) => i = j
    BY <1>1, <1>2, <1>5, <2>1
  <2> QED
    BY <2>2, <2>3 DEF OneOpen
<1> QED
    BY <1>3, <1>4, <1>5 DEF t

\* And one packet less.
LEMMA OpenPop ==
    ASSUME NEW s \in Seq(Item), s # <<>>
    PROVE  /\ NoOpen(s) => ~Opens(Head(s)) /\ NoOpen(Tail(s))
           /\ \A x : OneOpen(s, x) =>
                 /\ Opens(Head(s)) => Head(s).x = x /\ NoOpen(Tail(s))
                 /\ ~Opens(Head(s)) => OneOpen(Tail(s), x)
<1> DEFINE t == Tail(s)
           n == Len(s)
           k == Head(s)
<1>1. /\ k = s[1] /\ n \in Nat \ {0}
      /\ DOMAIN s = 1..n /\ DOMAIN t = 1..(n - 1)
      /\ \A i \in 1..(n - 1) : t[i] = s[i + 1]
    BY Shorter
<1> SUFFICES /\ NoOpen(s) => ~Opens(k) /\ NoOpen(t)
             /\ \A x : OneOpen(s, x) =>
                  /\ Opens(k) => k.x = x /\ NoOpen(t)
                  /\ ~Opens(k) => OneOpen(t, x)
    OBVIOUS
<1> HIDE DEF t, n, k
<1>2. \A i \in 1..(n - 1) : i + 1 \in 1..n /\ i + 1 # 1 /\ t[i] = s[i + 1]
    BY <1>1
<1>3. 1 \in 1..n
    BY <1>1
<1>4. NoOpen(s) => ~Opens(k) /\ NoOpen(t)
    BY <1>1, <1>2, <1>3 DEF NoOpen
<1>5. ASSUME NEW x, OneOpen(s, x)
      PROVE  /\ Opens(k) => k.x = x /\ NoOpen(t)
             /\ ~Opens(k) => OneOpen(t, x)
  <2>1. PICK j \in 1..n : /\ Opens(s[j]) /\ s[j].x = x
                          /\ \A i \in 1..n : Opens(s[i]) => i = j
    BY <1>1, <1>5 DEF OneOpen
  <2>2. ASSUME Opens(k) PROVE k.x = x /\ NoOpen(t)
    <3>1. j = 1
      BY <1>1, <1>3, <2>1, <2>2
    <3>2. k.x = x
      BY <1>1, <2>1, <3>1
    <3>3. \A i \in 1..(n - 1) : ~Opens(t[i])
      BY <1>2, <2>1, <3>1
    <3> QED
      BY <1>1, <3>2, <3>3 DEF NoOpen
  <2>3. ASSUME ~Opens(k) PROVE OneOpen(t, x)
    <3>1. j # 1
      BY <1>1, <2>1, <2>3
    <3>2. j - 1 \in 1..(n - 1) /\ (j - 1) + 1 = j
      BY <1>1, <3>1
    <3>3. t[j - 1] = s[j]
      BY <1>2, <3>2
    <3>4. \A i \in 1..(n - 1) : Opens(t[i]) => i = j - 1
      BY <1>2, <2>1
    <3> QED
      BY <1>1, <2>1, <3>2, <3>3, <3>4 DEF OneOpen
  <2> QED
    BY <2>2, <2>3
<1> QED
    BY <1>4, <1>5

\* What is under way to the home, and one more packet.
LEMMA InPush ==
    ASSUME NEW s \in Seq(Item), NEW k \in Item, k.t # "update"
    PROVE  /\ \A x : InOK(s, x) /\ k.x = x /\ k.t \in Answers(x)
                         => InOK(Append(s, k), x)
           /\ NoEnd(s) /\ ~Ends(k) => NoEnd(Append(s, k))
           /\ NoEnd(s) /\ Ends(k) => LastEnds(Append(s, k))
           /\ Told(Append(s, k)) <=> Told(s)
<1> DEFINE t == Append(s, k)
           n == Len(s)
<1>1. /\ n \in Nat /\ t # <<>> /\ Len(t) = n + 1
      /\ DOMAIN s = 1..n /\ DOMAIN t = 1..(n + 1) /\ t[n + 1] = k
      /\ \A i \in 1..n : t[i] = s[i]
      /\ s = <<>> <=> n = 0 /\ t \in Seq(Item)
    BY Longer
<1>2. t \in Seq(Item) /\ Head(t) = t[1] /\ (s # <<>> => Head(s) = s[1])
    BY Longer
<1> HIDE DEF t, n
<1>3. ASSUME NEW i \in 1..(n + 1), i # n + 1 PROVE i \in 1..n /\ t[i] = s[i]
    BY <1>1, <1>3
<1>4. ASSUME NEW x, InOK(s, x), k.x = x, k.t \in Answers(x) PROVE InOK(t, x)
  <2> SUFFICES ASSUME NEW i \in 1..(n + 1)
               PROVE  \/ t[i].t = "update" /\ i = 1
                      \/ t[i].t \in Answers(x) /\ t[i].x = x
    BY <1>1 DEF InOK
  <2>1. CASE i = n + 1
    BY <1>1, <1>4, <2>1
  <2>2. CASE i # n + 1
    <3>1. i \in 1..n /\ t[i] = s[i]
      BY <1>3, <2>2
    <3> QED
      BY <1>1, <1>4, <3>1 DEF InOK
  <2> QED
    BY <2>1, <2>2
<1>5. NoEnd(s) /\ ~Ends(k) => NoEnd(t)
    BY <1>1, <1>3 DEF NoEnd
<1>6. NoEnd(s) /\ Ends(k) => LastEnds(t)
    BY <1>1, <1>3 DEF NoEnd, LastEnds
<1>7. Told(t) <=> Told(s)
  <2>1. CASE s = <<>>
    BY <1>1, <1>2, <2>1 DEF Told
  <2>2. CASE s # <<>>
    <3>1. t[1] = s[1]
      BY <1>1, <2>2
    <3> QED
      BY <1>1, <1>2, <2>2, <3>1 DEF Told
  <2> QED
    BY <2>1, <2>2
<1> QED
    BY <1>4, <1>5, <1>6, <1>7 DEF t

\* And one item less.
LEMMA InPop ==
    ASSUME NEW s \in Seq(Item), s # <<>>
    PROVE  /\ \A x : InOK(s, x) =>
                 /\ InOK(Tail(s), x) /\ ~Told(Tail(s))
                 /\ Head(s).t # "update" =>
                        Head(s).x = x /\ Head(s).t \in Answers(x)
                 /\ Bare(s) => Tail(s) = <<>>
           /\ NoEnd(s) => NoEnd(Tail(s)) /\ ~Ends(Head(s))
           /\ LastEnds(s) => /\ Ends(Head(s)) => Tail(s) = <<>>
                             /\ ~Ends(Head(s)) => LastEnds(Tail(s))
           /\ Bare(s) => Bare(Tail(s)) /\ Head(s).t = "update"
<1> DEFINE t == Tail(s)
           n == Len(s)
           k == Head(s)
<1>1. /\ k = s[1] /\ n \in Nat \ {0} /\ Len(t) = n - 1
      /\ DOMAIN s = 1..n /\ DOMAIN t = 1..(n - 1)
      /\ \A i \in 1..(n - 1) : t[i] = s[i + 1]
      /\ t = <<>> <=> n = 1
    BY Shorter
<1>2. t # <<>> => Head(t) = t[1]
    BY Shorter
<1> SUFFICES /\ \A x : InOK(s, x) =>
                  /\ InOK(t, x) /\ ~Told(t)
                  /\ k.t # "update" => k.x = x /\ k.t \in Answers(x)
                  /\ Bare(s) => t = <<>>
             /\ NoEnd(s) => NoEnd(t) /\ ~Ends(k)
             /\ LastEnds(s) => /\ Ends(k) => t = <<>>
                               /\ ~Ends(k) => LastEnds(t)
             /\ Bare(s) => Bare(t) /\ k.t = "update"
    OBVIOUS
<1> HIDE DEF t, n, k
<1>3. \A i \in 1..(n - 1) : i + 1 \in 1..n /\ i + 1 # 1 /\ t[i] = s[i + 1]
    BY <1>1
<1>4. 1 \in 1..n
    BY <1>1
<1>5. ASSUME NEW x, InOK(s, x)
      PROVE  /\ InOK(t, x) /\ ~Told(t)
             /\ k.t # "update" => k.x = x /\ k.t \in Answers(x)
             /\ Bare(s) => t = <<>>
  <2>1. ASSUME NEW i \in 1..(n - 1)
        PROVE  t[i].t \in Answers(x) /\ t[i].x = x
    BY <1>1, <1>3, <1>5 DEF InOK
  <2>2. InOK(t, x)
    BY <1>1, <2>1 DEF InOK
  <2>3. t # <<>> => 1 \in 1..(n - 1)
    BY <1>1
  <2>4. ~Told(t)
    BY <1>2, <2>1, <2>3 DEF Told, Answers
  <2>5. k.t # "update" => k.x = x /\ k.t \in Answers(x)
    BY <1>1, <1>4, <1>5 DEF InOK, Answers
  <2>6. Bare(s) => t = <<>>
    BY <1>1, <1>3, <2>1, <2>3 DEF Bare, Answers
  <2> QED
    BY <2>2, <2>4, <2>5, <2>6
<1>6. NoEnd(s) => NoEnd(t) /\ ~Ends(k)
    BY <1>1, <1>3, <1>4 DEF NoEnd
<1>7. ASSUME LastEnds(s)
      PROVE  /\ Ends(k) => t = <<>>
             /\ ~Ends(k) => LastEnds(t)
  <2>1. \A i \in 1..n : Ends(s[i]) <=> i = n
    BY <1>1, <1>7 DEF LastEnds, n
  <2>2. Ends(k) => t = <<>>
    BY <1>1, <1>4, <2>1
  <2>3. ASSUME ~Ends(k) PROVE LastEnds(t)
    <3>1. n # 1
      BY <1>1, <1>4, <2>1, <2>3
    <3>2. \A i \in 1..(n - 1) : Ends(t[i]) <=> i = n - 1
      BY <1>1, <1>3, <2>1
    <3> QED
      BY <1>1, <3>1, <3>2 DEF LastEnds
  <2> QED
    BY <2>2, <2>3
<1>8. Bare(s) => Bare(t) /\ k.t = "update"
    BY <1>1, <1>3, <1>4 DEF Bare
<1> QED
    BY <1>5, <1>6, <1>7, <1>8

\* Nothing is no packet.
LEMMA BareEmpty == Bare(<<>>)
BY DEF Bare

\* Nothing under way, and an update alone.
LEMMA InFew ==
    ASSUME NEW o \in Opaque, NEW x
    PROVE  /\ NoOpen(<<>>) /\ NoEnd(<<>>) /\ Bare(<<>>) /\ InOK(<<>>, x)
           /\ ~Told(<<>>) /\ ~OneOpen(<<>>, x) /\ ~LastEnds(<<>>)
           /\ LET s == <<[t |-> "update", o |-> o]>>
              IN  /\ Bare(s) /\ InOK(s, x) /\ Told(s) /\ Len(s) = 1
                  /\ NoEnd(s)
<1>1. DOMAIN <<>> = {}
    OBVIOUS
<1>2. /\ NoOpen(<<>>) /\ NoEnd(<<>>) /\ Bare(<<>>) /\ InOK(<<>>, x)
      /\ ~Told(<<>>) /\ ~OneOpen(<<>>, x) /\ ~LastEnds(<<>>)
    BY <1>1 DEF NoOpen, NoEnd, Bare, InOK, Told, OneOpen, LastEnds
<1> DEFINE k == [t |-> "update", o |-> o]
           s == <<k>>
<1>3. k.t = "update" /\ ~Ends(k)
    BY DEF Ends
<1> HIDE DEF k
<1>4. DOMAIN s = {1} /\ s[1] = k /\ Head(s) = k /\ Len(s) = 1 /\ s # <<>>
    OBVIOUS
<1> HIDE DEF s
<1>5. Bare(s) /\ InOK(s, x) /\ Told(s) /\ NoEnd(s)
    BY <1>3, <1>4 DEF Bare, InOK, Told, NoEnd
<1> QED
    BY <1>2, <1>4, <1>5 DEF s, k

-----------------------------------------------------------------------------
(* What a step makes of the view v of a stream: it becomes w.              *)

\* No exchange is Nil.
LEMMA NilNoExch == ASSUME NEW x \in Exch PROVE x # Nil
BY DEF Exch, Nil

\* What v and w have in common when the home's side is left alone, ...
SameHome(v, w) ==
    /\ w.pool = v.pool /\ w.cb = v.cb /\ w.live = v.live /\ w.hold = v.hold
    /\ v.shut => w.shut

\* ... and when the other end and what is under way to it are.
SameThere(v, w) ==
    w.out = v.out /\ w.there = v.there /\ w.rs = v.rs /\ w.srv = v.srv

\* What is said of the other end depends on nothing else.
LEMMA ThereGood ==
    ASSUME NEW p, NEW v, NEW w, SameThere(v, w)
    PROVE  /\ OutOK(p, w) <=> OutOK(p, v)
           /\ Cur(w) = Cur(v) /\ End(Cur(w), w.out) = End(Cur(v), v.out)
           /\ v.in = w.in => (Over(w) <=> Over(v))
BY DEF SameThere, OutOK, Cur, Over

\* A stream that a routine holds is held by this one, and is not in the pool.
LEMMA HeldGood ==
    ASSUME NEW p, NEW v, Good(p, v), NEW h \in v.hold
    PROVE  /\ v.hold = {h} /\ v.pool = 0
           /\ h.x \in Exch /\ h.x.c = h.c /\ Home[h.c] = p
           /\ \/ Telling(v, h) \/ Sending(v, h) \/ Waiting(v, h)
              \/ Owning(v, h) \/ Untelling(v, h)
<1>1. Held(p, v)
    BY DEF Good, Free, Returning, Left
<1> QED
    BY <1>1 DEF Held

\* A stream in the pool is free.
LEMMA FreeGood ==
    ASSUME NEW p, NEW v, Good(p, v), v.pool # 0
    PROVE  Free(v)
BY DEF Good, Held, Returning, Left

\* getlocalstream().
LEMMA GetGood ==
    ASSUME NEW p, NEW v, NEW w, Good(p, v), v.pool # 0, SameThere(v, w),
           w.pool = v.pool - 1, w.live = v.live, w.in = v.in,
           NEW h, w.hold = {h}, h.x \in Exch, h.x.c = h.c, Home[h.c] = p,
           h.pc = IF h.x.op = "post" THEN "tx" ELSE "tell",
           ~h.told, ~h.shut, w.cb = Cb(h.x)
    PROVE  Good(p, w)
<1>1. Free(v) /\ OutOK(p, v)
    BY FreeGood DEF Good
<1>2. OutOK(p, w) /\ Over(w) /\ End(Cur(w), w.out) = Nil
    BY <1>1, ThereGood DEF Free
<1>3. w.pool = 0 /\ w.live = "none" /\ w.in = <<>>
    BY <1>1 DEF Free
<1>4. CASE h.x.op = "post"
  <2>1. Cb(h.x) = Nil
    BY <1>4 DEF Cb
  <2>2. InOK(w.in, h.x)
    BY <1>3 DEF InOK
  <2>3. Sending(w, h)
    BY <1>2, <1>3, <1>4, <2>1, <2>2 DEF Sending, Known
  <2> QED
    BY <1>2, <1>3, <2>3 DEF Good, Held
<1>5. CASE h.x.op # "post"
  <2>1. Telling(w, h)
    BY <1>2, <1>3, <1>5 DEF Telling
  <2> QED
    BY <1>2, <1>3, <2>1 DEF Good, Held
<1> QED
    BY <1>4, <1>5

\* Nothing is under way to a stream that syncRx() is going to be told of.
LEMMA QuietGood ==
    ASSUME NEW p, NEW v, Good(p, v), NEW h \in v.hold,
           h.pc \in {"tell", "untell"}
    PROVE  v.in = <<>>
BY HeldGood DEF Telling, Sending, Waiting, Owning, Untelling

\* TellRx().
LEMMA TellGood ==
    ASSUME NEW p, NEW v, NEW w, Good(p, v), SameThere(v, w),
           NEW h \in v.hold, h.pc = "tell",
           NEW o \in Opaque, w.in = <<[t |-> "update", o |-> o]>>,
           w.pool = v.pool, w.live = v.live, w.cb = v.cb,
           NEW g, w.hold = {g}, g.c = h.c, g.x = h.x, g.pc = "tx",
           g.told = h.told, g.shut = h.shut
    PROVE  Good(p, w)
<1>1. /\ Telling(v, h) /\ OutOK(p, v) /\ v.pool = 0
      /\ h.x \in Exch /\ h.x.c = h.c /\ Home[h.c] = p
    BY HeldGood DEF Good, Sending, Waiting, Owning, Untelling
<1>2. OutOK(p, w) /\ End(Cur(w), w.out) = Nil
    BY <1>1, ThereGood DEF Telling
<1>3. Bare(w.in) /\ InOK(w.in, g.x) /\ Told(w.in)
    BY InFew
<1>4. Over(w)
    BY <1>1, <1>3 DEF Telling, Over, SameThere
<1>5. Sending(w, g)
    BY <1>1, <1>2, <1>3, <1>4 DEF Sending, Telling, Known
<1> QED
    BY <1>1, <1>2, <1>5 DEF Good, Held

\* putstream() of a request.
LEMMA UntellGood ==
    ASSUME NEW p, NEW v, NEW w, Good(p, v), SameThere(v, w),
           NEW h \in v.hold, h.pc = "untell",
           NEW o \in Opaque, w.in = <<[t |-> "update", o |-> o]>>,
           w.pool = v.pool, w.live = v.live, w.cb = v.cb, w.hold = {}
    PROVE  Good(p, w)
<1>1. Untelling(v, h) /\ OutOK(p, v) /\ v.pool = 0
    BY HeldGood DEF Good, Telling, Sending, Waiting, Owning
<1>2. OutOK(p, w) /\ End(Cur(w), w.out) = Nil
    BY <1>1, ThereGood DEF Untelling
<1>3. Bare(w.in) /\ Told(w.in) /\ Len(w.in) = 1
    BY InFew
<1>4. Over(w)
    BY <1>1, <1>3 DEF Untelling, Over, SameThere
<1>5. Returning(w)
    BY <1>1, <1>2, <1>3, <1>4 DEF Returning, Untelling
<1> QED
    BY <1>2, <1>5 DEF Good

\* The end of a Request().
LEMMA DoneGood ==
    ASSUME NEW p, NEW v, NEW w, Good(p, v), SameThere(v, w), w.in = v.in,
           NEW h \in v.hold, h.pc = "wait", h.told,
           w.pool = v.pool, w.live = v.live, w.cb = Nil,
           NEW g, w.hold = {g}, g.c = h.c, g.x = h.x, g.pc = "untell"
    PROVE  Good(p, w)
<1>1. /\ Waiting(v, h) /\ OutOK(p, v) /\ v.pool = 0
      /\ h.x \in Exch /\ h.x.c = h.c /\ Home[h.c] = p
    BY HeldGood DEF Good, Telling, Sending, Owning, Untelling
<1>2. v.in = <<>> /\ Over(v)
    BY <1>1 DEF Waiting
<1>3. OutOK(p, w) /\ End(Cur(w), w.out) = Nil /\ Over(w)
    BY <1>1, <1>2, ThereGood DEF Waiting
<1>4. v.live = "local"
  <2>1. Cb(h.x) # Nil /\ ~Told(v.in)
    BY <1>1, <1>2, NilNoExch DEF Waiting, Cb, Told
  <2> QED
    BY <1>1, <2>1 DEF Waiting, Known
<1>5. Untelling(w, g)
    BY <1>1, <1>2, <1>3, <1>4 DEF Untelling, Waiting
<1> QED
    BY <1>1, <1>3, <1>5 DEF Good, Held

\* A packet that the home sends.
Sent(v, w, k) == w.out = Append(v.out, k) /\ w.there = v.there /\ w.rs = v.rs

\* It may follow the others if it finds what they leave.
Fits(p, v, k) ==
    /\ v.out \in Seq(Item) /\ k \in Packet
    /\ Home[k.x.c] = p /\ (k.t = "start" => k.x.op = "start")
    /\ Before(k) = End(Cur(v), v.out)

\* It then leaves what the next one has to find.
LEMMA OutPush ==
    ASSUME NEW p, NEW v, NEW w, NEW k, OutOK(p, v), Fits(p, v, k),
           Sent(v, w, k)
    PROVE  OutOK(p, w) /\ End(Cur(w), w.out) = After(k)
<1> USE DEF Sent, Fits
<1>1. k \in Item /\ k.t \in FrameType
    BY DEF Item, Packet
<1>2. Cur(w) = Cur(v) /\ Chain(Cur(v), v.out)
    BY DEF Cur, OutOK
<1>3. Chain(Cur(w), w.out) /\ End(Cur(w), w.out) = After(k)
    BY <1>1, <1>2, ChainPush
<1>4. ASSUME NEW i \in DOMAIN w.out
      PROVE  /\ w.out[i].t \in FrameType /\ Home[w.out[i].x.c] = p
             /\ w.out[i].t = "start" => w.out[i].x.op = "start"
  <2>1. \/ i \in DOMAIN v.out /\ w.out[i] = v.out[i]
        \/ w.out[i] = k
    BY <1>1, Longer
  <2> QED
    BY <1>1, <2>1 DEF OutOK
<1> QED
    BY <1>3, <1>4 DEF OutOK

\* Post().
LEMMA PostGood ==
    ASSUME NEW p, NEW v, NEW w, Good(p, v), v.out \in Seq(Item),
           NEW h \in v.hold, h.pc = "tx", h.x.op = "post",
           NEW k \in Packet, k.t = "post", k.x = h.x,
           Sent(v, w, k), w.srv = v.srv, w.in = v.in, w.live = v.live,
           w.pool = v.pool + 1,
           w.hold = {}
    PROVE  Good(p, w)
<1>1. /\ Sending(v, h) /\ OutOK(p, v) /\ v.pool = 0
      /\ h.x.c = h.c /\ Home[h.c] = p
    BY HeldGood DEF Good, Telling, Waiting, Owning, Untelling
<1>2. OutOK(p, w) /\ End(Cur(w), w.out) = Nil
  <2>1. Before(k) = End(Cur(v), v.out) /\ After(k) = Nil
    BY <1>1 DEF Before, After, Sending
  <2>2. Fits(p, v, k)
    BY <1>1, <2>1 DEF Fits
  <2>3. OutOK(p, w) /\ End(Cur(w), w.out) = After(k)
    BY <1>1, <2>2, OutPush
  <2> QED
    BY <2>1, <2>3
<1>3. NoOpen(w.out)
  <2>1. k \in Item /\ ~Opens(k)
    BY DEF Item, Opens
  <2> QED
    BY <1>1, <2>1, OpenPush DEF Sending, Over, Sent
<1>4. Over(w)
    BY <1>1, <1>3 DEF Sending, Over
<1>5. w.in = <<>> /\ w.live = "none"
    BY <1>1 DEF Sending, Known, Cb
<1> QED
    BY <1>1, <1>2, <1>4, <1>5 DEF Good, Free

\* Request() and Stream() send the packet that opens the exchange.
LEMMA OpenGood ==
    ASSUME NEW p, NEW v, NEW w, Good(p, v), v.out \in Seq(Item),
           NEW h \in v.hold, h.pc = "tx", h.x.op \in {"request", "start"},
           NEW k \in Packet, k.x = h.x,
           k.t = IF h.x.op = "request" THEN "0x81" ELSE "start",
           Sent(v, w, k), w.srv = v.srv, w.in = v.in, w.live = v.live,
           w.pool = v.pool,
           w.cb = v.cb, NEW g, w.hold = {g}, g.c = h.c, g.x = h.x,
           g.pc = IF h.x.op = "request" THEN "wait" ELSE "own",
           g.told = h.told, g.shut = h.shut
    PROVE  Good(p, w)
<1>1. /\ Sending(v, h) /\ OutOK(p, v) /\ v.pool = 0
      /\ h.x \in Exch /\ h.x.c = h.c /\ Home[h.c] = p
    BY HeldGood DEF Good, Telling, Waiting, Owning, Untelling
<1>2. /\ OutOK(p, w)
      /\ End(Cur(w), w.out) = IF h.x.op = "request" THEN Nil ELSE h.x
  <2>1. /\ Before(k) = End(Cur(v), v.out)
        /\ After(k) = IF h.x.op = "request" THEN Nil ELSE h.x
    BY <1>1 DEF Before, After, Sending
  <2>2. Fits(p, v, k)
    BY <1>1, <2>1 DEF Fits
  <2>3. OutOK(p, w) /\ End(Cur(w), w.out) = After(k)
    BY <1>1, <2>2, OutPush
  <2> QED
    BY <2>1, <2>3
<1>3. OneOpen(w.out, h.x)
  <2>1. k \in Item /\ Opens(k)
    BY DEF Item, Opens
  <2> QED
    BY <1>1, <2>1, OpenPush DEF Sending, Over, Sent
<1>4. Owed(w, g.x)
    BY <1>1, <1>3 DEF Sending, Over, Owed
<1>5. Known(w, g.x)
    BY <1>1 DEF Sending, Known
<1>6. CASE h.x.op = "request"
  <2>1. Waiting(w, g)
    BY <1>1, <1>2, <1>4, <1>5, <1>6 DEF Waiting, Sending
  <2> QED
    BY <1>1, <1>2, <2>1 DEF Good, Held
<1>7. CASE h.x.op = "start"
  <2>1. Owning(w, g)
    BY <1>1, <1>2, <1>4, <1>5, <1>7 DEF Owning, Sending, Opened
  <2> QED
    BY <1>1, <1>2, <2>1 DEF Good, Held
<1> QED
    BY <1>6, <1>7

\* A packet that opens nothing does not change who owes what.
LEMMA SentOwed ==
    ASSUME NEW v, NEW w, NEW k \in Packet, Sent(v, w, k),
           v.out \in Seq(Item), ~Opens(k), w.srv = v.srv, w.in = v.in,
           NEW x
    PROVE  /\ Owed(v, x) => Owed(w, x)
           /\ Over(v) => Over(w)
<1>1. k \in Item
    BY DEF Item
<1>2. /\ NoOpen(v.out) => NoOpen(w.out)
      /\ OneOpen(v.out, x) => OneOpen(w.out, x)
    BY <1>1, OpenPush DEF Sent
<1> QED
    BY <1>2 DEF Owed, Over

\* The initiator sends a message on its stream, ...
LEMMA MsgGood ==
    ASSUME NEW p, NEW v, NEW w, Good(p, v), v.out \in Seq(Item),
           NEW h \in v.hold, h.pc = "own",
           NEW k \in Packet, k.t = "stream", k.x = h.x, Sent(v, w, k),
           w.srv = v.srv, w.in = v.in, SameHome(v, w)
    PROVE  Good(p, w)
<1>1. /\ Owning(v, h) /\ OutOK(p, v) /\ v.pool = 0 /\ v.hold = {h}
      /\ h.x \in Exch /\ h.x.c = h.c /\ Home[h.c] = p
    BY HeldGood DEF Good, Telling, Sending, Waiting, Untelling
<1>2. OutOK(p, w) /\ End(Cur(w), w.out) = h.x
  <2>1. Before(k) = End(Cur(v), v.out) /\ After(k) = h.x
    BY <1>1 DEF Before, After, Owning
  <2>2. Fits(p, v, k)
    BY <1>1, <2>1 DEF Fits
  <2>3. OutOK(p, w) /\ End(Cur(w), w.out) = After(k)
    BY <1>1, <2>2, OutPush
  <2> QED
    BY <2>1, <2>3
<1>3. ~Opens(k)
    BY DEF Opens
<1>4. (Owed(v, h.x) => Owed(w, h.x)) /\ (Over(v) => Over(w))
    BY <1>3, SentOwed
<1>5. Opened(w, h.x)
    BY <1>1, <1>4 DEF Owning, Opened, Known, SameHome
<1>6. Owning(w, h)
    BY <1>1, <1>2, <1>5 DEF Owning
<1>7. w.hold = {h} /\ w.pool = 0
    BY <1>1 DEF SameHome
<1> QED
    BY <1>1, <1>2, <1>6, <1>7 DEF Good, Held

\* ... or closes it.
LEMMA CloseGood ==
    ASSUME NEW p, NEW v, NEW w, Good(p, v), v.out \in Seq(Item),
           NEW h \in v.hold, h.pc = "own",
           NEW k \in Packet, k.t = "finish", k.x = h.x, Sent(v, w, k),
           w.srv = v.srv, w.in = v.in, w.hold = {},
           w.pool = v.pool, w.cb = v.cb, w.live = v.live,
           v.cb = h.x => w.shut
    PROVE  Good(p, w)
<1>1. /\ Owning(v, h) /\ OutOK(p, v) /\ v.pool = 0 /\ v.hold = {h}
      /\ h.x \in Exch /\ h.x.c = h.c /\ Home[h.c] = p
    BY HeldGood DEF Good, Telling, Sending, Waiting, Untelling
<1>2. OutOK(p, w) /\ End(Cur(w), w.out) = Nil
  <2>1. Before(k) = End(Cur(v), v.out) /\ After(k) = Nil
    BY <1>1 DEF Before, After, Owning
  <2>2. Fits(p, v, k)
    BY <1>1, <2>1 DEF Fits
  <2>3. OutOK(p, w) /\ End(Cur(w), w.out) = After(k)
    BY <1>1, <2>2, OutPush
  <2> QED
    BY <2>1, <2>3
<1>3. ~Opens(k)
    BY DEF Opens
<1>4. (Owed(v, h.x) => Owed(w, h.x)) /\ (Over(v) => Over(w))
    BY <1>3, SentOwed
<1>5. Opened(w, h.x)
    BY <1>1, <1>4 DEF Owning, Opened, Known
<1>6. Cb(h.x) = Nil \/ w.shut
    BY <1>1 DEF Owning, Opened, Known, Cb
<1>7. Left(p, w)
    BY <1>1, <1>2, <1>5, <1>6 DEF Left, Owning
<1> QED
    BY <1>2, <1>7 DEF Good

\* The application of the other end answers.
LEMMA ServeGood ==
    ASSUME NEW p, NEW v, NEW w, Good(p, v), v.in \in Seq(Item),
           NEW x \in v.srv, NEW k \in Packet, k.x = x, k.t \in Answers(x),
           w.in = Append(v.in, k), w.out = v.out, w.there = v.there,
           w.rs = v.rs, w.srv = IF Ends(k) THEN v.srv \ {x} ELSE v.srv,
           SameHome(v, w)
    PROVE  Good(p, w)
<1>1. k \in Item /\ k.t # "update"
    BY DEF Item, Packet, FrameType
<1>2. OutOK(p, w) /\ End(Cur(w), w.out) = End(Cur(v), v.out)
    BY DEF Good, OutOK, Cur
<1>3. /\ InOK(v.in, x) => InOK(w.in, x)
      /\ NoEnd(v.in) /\ ~Ends(k) => NoEnd(w.in)
      /\ NoEnd(v.in) /\ Ends(k) => LastEnds(w.in)
      /\ Told(w.in) <=> Told(v.in)
    BY <1>1, InPush
<1>4. ~Over(v)
    BY DEF Over
<1>5. ASSUME NEW y, Owed(v, y) PROVE y = x /\ Owed(w, y)
  <2>1. y = x /\ NoOpen(v.out) /\ v.srv = {x} /\ NoEnd(v.in) /\ InOK(v.in, x)
    BY <1>5 DEF Owed
  <2> QED
    BY <1>3, <2>1 DEF Owed
<1>6. ASSUME NEW y, Known(v, y) PROVE Known(w, y)
    BY <1>3, <1>6 DEF Known, SameHome
<1>7. ASSUME NEW h, Waiting(v, h) PROVE Waiting(w, h)
    BY <1>2, <1>4, <1>5, <1>6, <1>7 DEF Waiting
<1>8. ASSUME NEW y, Opened(v, y) PROVE Opened(w, y)
    BY <1>4, <1>5, <1>6, <1>8 DEF Opened
<1>9. ASSUME NEW h, Owning(v, h) PROVE Owning(w, h)
    BY <1>2, <1>8, <1>9 DEF Owning
<1>10. CASE Held(p, v)
  <2>1. PICK h \in v.hold :
            /\ v.hold = {h} /\ h.x \in Exch /\ h.x.c = h.c /\ Home[h.c] = p
            /\ Waiting(v, h) \/ Owning(v, h)
    BY <1>4, <1>10 DEF Held, Telling, Sending, Untelling
  <2>2. w.hold = {h} /\ w.pool = 0
    BY <1>10, <2>1 DEF SameHome, Held
  <2> QED
    BY <1>2, <1>7, <1>9, <2>1, <2>2 DEF Good, Held
<1>11. CASE Left(p, v)
  <2>1. Left(p, w)
    BY <1>2, <1>8, <1>11 DEF Left, SameHome
  <2> QED
    BY <1>2, <2>1 DEF Good
<1> QED
    BY <1>4, <1>10, <1>11 DEF Good, Free, Returning

\* An update taken from what is under way changes nothing in who owes what.
LEMMA TakenUpdate ==
    ASSUME NEW v, NEW w, v.in \in Seq(Item), v.in # <<>>,
           Head(v.in).t = "update", w.in = Tail(v.in), SameThere(v, w), NEW x
    PROVE  /\ Owed(v, x) => Owed(w, x)
           /\ Over(v) => Over(w)
           /\ InOK(v.in, x) => InOK(w.in, x) /\ ~Told(w.in)
           /\ Told(v.in)
<1>1. ~Ends(Head(v.in))
    BY DEF Ends
<1>2. /\ InOK(v.in, x) => InOK(w.in, x) /\ ~Told(w.in)
      /\ NoEnd(v.in) => NoEnd(w.in)
      /\ LastEnds(v.in) => LastEnds(w.in)
      /\ Bare(v.in) => Bare(w.in)
    BY <1>1, InPop
<1> QED
    BY <1>2 DEF Owed, Over, SameThere, Told

\* streamupdate().
LEMMA UpdateGood ==
    ASSUME NEW p, NEW v, NEW w, Good(p, v), v.in \in Seq(Item), v.in # <<>>,
           Head(v.in).t = "update", w.in = Tail(v.in), SameThere(v, w),
           w.cb = v.cb, w.hold = v.hold, w.shut = v.shut,
           \/ v.cb # Nil /\ w.live = "local" /\ w.pool = v.pool
           \/ /\ v.cb = Nil /\ v.live # "none"
              /\ w.live = "none" /\ w.pool = v.pool + 1
           \/ /\ v.cb = Nil /\ v.live = "none"
              /\ w.live = "none" /\ w.pool = v.pool
    PROVE  Good(p, w)
<1>1. /\ OutOK(p, w) /\ End(Cur(w), w.out) = End(Cur(v), v.out)
    BY ThereGood DEF Good
<1>2. ASSUME NEW x
      PROVE  /\ Owed(v, x) => Owed(w, x)
             /\ Over(v) => Over(w)
             /\ InOK(v.in, x) => InOK(w.in, x) /\ ~Told(w.in)
             /\ Told(v.in)
    BY TakenUpdate
<1>3. ASSUME NEW x, Known(v, x), InOK(v.in, x)
      PROVE  Known(w, x) /\ w.pool = v.pool
  <2>1. v.cb = Cb(x) /\ v.live = "none"
    BY <1>2, <1>3 DEF Known
  <2> QED
    BY <1>2, <1>3, <2>1 DEF Known
<1>4. ASSUME NEW x, Owed(v, x) PROVE InOK(v.in, x)
    BY <1>4 DEF Owed
<1>5. ASSUME NEW x, Opened(v, x) PROVE Opened(w, x) /\ w.pool = v.pool
    BY <1>2, <1>3, <1>4, <1>5 DEF Opened
<1>6. CASE Held(p, v)
  <2>1. PICK h \in v.hold :
            /\ v.hold = {h} /\ h.x \in Exch /\ h.x.c = h.c /\ Home[h.c] = p
            /\ Sending(v, h) \/ Waiting(v, h) \/ Owning(v, h)
    BY <1>6 DEF Held, Telling, Untelling
  <2>2. CASE Sending(v, h)
    <3>1. h.x.op # "post"
      BY <2>2 DEF Sending
    <3>2. Sending(w, h) /\ w.pool = v.pool
      BY <1>1, <1>2, <1>3, <2>2, <3>1 DEF Sending
    <3> QED
      BY <1>1, <1>6, <2>1, <3>2 DEF Good, Held
  <2>3. CASE Waiting(v, h)
    <3>1. ~h.told /\ Owed(v, h.x)
      BY <2>3 DEF Waiting
    <3>2. Waiting(w, h) /\ w.pool = v.pool
      BY <1>1, <1>2, <1>3, <1>4, <2>3, <3>1 DEF Waiting
    <3> QED
      BY <1>1, <1>6, <2>1, <3>2 DEF Good, Held
  <2>4. CASE Owning(v, h)
    <3>1. Owning(w, h) /\ w.pool = v.pool
      BY <1>1, <1>5, <2>4 DEF Owning
    <3> QED
      BY <1>1, <1>6, <2>1, <3>1 DEF Good, Held
  <2> QED
    BY <2>1, <2>2, <2>3, <2>4
<1>7. CASE Returning(v)
  <2>1. w.live = "none" /\ w.pool = 1
    BY <1>7 DEF Returning
  <2>2. w.in = <<>>
    BY <1>7, Shorter DEF Returning
  <2>3. Free(w)
    BY <1>1, <1>2, <1>7, <2>1, <2>2 DEF Free, Returning
  <2> QED
    BY <1>1, <2>3 DEF Good
<1>8. CASE Left(p, v)
  <2>1. PICK x \in Exch : /\ x.op = "start" /\ Home[x.c] = p /\ Opened(v, x)
                          /\ Cb(x) = Nil \/ v.shut
    BY <1>8 DEF Left
  <2>2. Opened(w, x) /\ w.pool = v.pool
    BY <1>5, <2>1
  <2>3. Left(p, w)
    BY <1>1, <1>8, <2>1, <2>2 DEF Left
  <2> QED
    BY <1>1, <2>3 DEF Good
<1> QED
    BY <1>6, <1>7, <1>8 DEF Good, Free

\* A packet under way to the home belongs to an exchange that was begun there
\* and opened, and which syncRx() knows unless its callback is nil.
LEMMA ForHome ==
    ASSUME NEW p, NEW v, Good(p, v), v.in \in Seq(Item), v.in # <<>>,
           Head(v.in).t # "update"
    PROVE  LET x == Head(v.in).x IN
           /\ x \in Exch /\ Home[x.c] = p /\ x.op \in {"request", "start"}
           /\ Head(v.in).t \in Answers(x) /\ Owed(v, x) /\ v.pool = 0
           /\ v.cb = Cb(x)
           /\ v.live = IF Cb(x) # Nil THEN "local" ELSE "none"
           /\ \/ /\ v.hold = {} /\ Left(p, v)
                 /\ x.op = "start" /\ (Cb(x) = Nil \/ v.shut)
              \/ \E h \in v.hold :
                    /\ v.hold = {h} /\ h.x = x /\ h.x.c = h.c
                    /\ (Waiting(v, h) /\ ~h.told) \/ Owning(v, h)
<1> DEFINE k == Head(v.in)
<1>1. ~Bare(v.in) /\ ~Told(v.in)
    BY InPop DEF Told
<1>2. ~Over(v)
    BY <1>1 DEF Over
<1>3. ASSUME NEW x, InOK(v.in, x) PROVE k.x = x /\ k.t \in Answers(x)
    BY <1>3, InPop
<1>4. ASSUME NEW x, Owed(v, x) PROVE k.x = x /\ k.t \in Answers(x)
    BY <1>3, <1>4 DEF Owed
<1>5. ASSUME NEW x, Known(v, x)
      PROVE  /\ v.cb = Cb(x)
             /\ v.live = IF Cb(x) # Nil THEN "local" ELSE "none"
    BY <1>1, <1>5 DEF Known
<1> HIDE DEF k
<1>6. CASE Held(p, v)
  <2>1. PICK h \in v.hold :
            /\ v.hold = {h} /\ h.x \in Exch /\ h.x.c = h.c /\ Home[h.c] = p
            /\ Waiting(v, h) \/ Owning(v, h)
    BY <1>2, <1>6 DEF Held, Telling, Sending, Untelling
  <2>2. /\ Known(v, h.x) /\ Owed(v, h.x) /\ h.x.op \in {"request", "start"}
        /\ (Waiting(v, h) /\ ~h.told) \/ Owning(v, h)
    BY <1>2, <2>1 DEF Waiting, Owning, Opened
  <2>3. k.x = h.x /\ k.t \in Answers(h.x)
    BY <1>4, <2>2
  <2>4. v.pool = 0
    BY <1>6 DEF Held
  <2> QED
    BY <1>5, <2>1, <2>2, <2>3, <2>4 DEF k
<1>7. CASE Left(p, v)
  <2>1. PICK x \in Exch : /\ x.op = "start" /\ Home[x.c] = p /\ Opened(v, x)
                          /\ Cb(x) = Nil \/ v.shut
    BY <1>7 DEF Left
  <2>2. Known(v, x) /\ Owed(v, x)
    BY <1>2, <2>1 DEF Opened
  <2>3. k.x = x /\ k.t \in Answers(x)
    BY <1>4, <2>2
  <2>4. v.pool = 0 /\ v.hold = {}
    BY <1>7 DEF Left
  <2> QED
    BY <1>5, <1>7, <2>1, <2>2, <2>3, <2>4 DEF k
<1> QED
    BY <1>2, <1>6, <1>7 DEF Good, Free, Returning

\* A packet taken from what is under way: if it ends its exchange, nothing is
\* owed any more.
LEMMA TakenPacket ==
    ASSUME NEW v, NEW w, v.in \in Seq(Item), v.in # <<>>,
           Head(v.in).t # "update", w.in = Tail(v.in), SameThere(v, w), NEW x,
           Owed(v, x)
    PROVE  /\ InOK(w.in, x) /\ ~Told(w.in) /\ ~Told(v.in)
           /\ Ends(Head(v.in)) => w.in = <<>> /\ Over(w)
           /\ ~Ends(Head(v.in)) => Owed(w, x)
<1>1. /\ InOK(w.in, x) /\ ~Told(w.in) /\ ~Bare(v.in)
      /\ NoEnd(v.in) => NoEnd(w.in) /\ ~Ends(Head(v.in))
      /\ LastEnds(v.in) => /\ Ends(Head(v.in)) => w.in = <<>>
                           /\ ~Ends(Head(v.in)) => LastEnds(w.in)
  <2>1. InOK(v.in, x)
    BY DEF Owed
  <2> QED
    BY <2>1, InPop
<1>2. NoOpen(v.out) /\ Ends(Head(v.in)) => v.srv = {} /\ LastEnds(v.in)
    BY <1>1 DEF Owed
<1>3. NoOpen(v.out)
    BY <1>1 DEF Owed
<1>4. ASSUME Ends(Head(v.in)) PROVE w.in = <<>> /\ Over(w)
  <2>1. v.srv = {} /\ w.in = <<>>
    BY <1>1, <1>2, <1>3, <1>4
  <2>2. Bare(w.in)
    BY <2>1, BareEmpty
  <2> QED
    BY <1>3, <2>1, <2>2 DEF Over, SameThere
<1>5. ASSUME ~Ends(Head(v.in)) PROVE Owed(w, x)
    BY <1>1, <1>5 DEF Owed, SameThere
<1>6. ~Told(v.in)
    BY DEF Told
<1> QED
    BY <1>1, <1>4, <1>5, <1>6

\* handlepkt() of a response.
LEMMA ReplyGood ==
    ASSUME NEW p, NEW v, NEW w, Good(p, v), v.in \in Seq(Item), v.in # <<>>,
           Head(v.in).t = "0x81", w.in = Tail(v.in), SameThere(v, w),
           w.pool = v.pool, w.cb = v.cb, w.live = v.live,
           NEW h \in v.hold, NEW g, w.hold = {g}, g.c = h.c, g.x = h.x,
           g.pc = h.pc, g.told
    PROVE  Good(p, w)
<1> DEFINE x == Head(v.in).x
<1>1. /\ x \in Exch /\ Home[x.c] = p /\ Owed(v, x) /\ v.pool = 0
      /\ x.op = "request"
      /\ h.x = x /\ h.x.c = h.c
      /\ Waiting(v, h)
    BY ForHome DEF Answers, Owning
<1> HIDE DEF x
<1>2. Ends(Head(v.in))
    BY DEF Ends
<1>3. w.in = <<>> /\ Over(w) /\ ~Told(w.in) /\ ~Told(v.in)
    BY <1>1, <1>2, TakenPacket
<1>4. OutOK(p, w) /\ End(Cur(w), w.out) = Nil
    BY <1>1, ThereGood DEF Good, Waiting
<1>5. Known(w, g.x)
    BY <1>1, <1>3 DEF Waiting, Known
<1>6. Waiting(w, g)
    BY <1>1, <1>3, <1>4, <1>5 DEF Waiting
<1> QED
    BY <1>1, <1>4, <1>6 DEF Good, Held

\* handlepkt() of a message on a stream, or of anything on a stream with a
\* nil callback.
LEMMA MessageGood ==
    ASSUME NEW p, NEW v, NEW w, Good(p, v), v.in \in Seq(Item), v.in # <<>>,
           Head(v.in).t # "update", w.in = Tail(v.in), SameThere(v, w),
           SameHome(v, w), Head(v.in).t = "stream" \/ Cb(Head(v.in).x) = Nil
    PROVE  Good(p, w)
<1> DEFINE x == Head(v.in).x
<1>1. /\ x \in Exch /\ Home[x.c] = p /\ Head(v.in).t \in Answers(x)
      /\ Owed(v, x) /\ v.pool = 0
      /\ v.cb = Cb(x)
      /\ v.live = IF Cb(x) # Nil THEN "local" ELSE "none"
      /\ \/ /\ v.hold = {} /\ Left(p, v)
            /\ x.op = "start" /\ (Cb(x) = Nil \/ v.shut)
         \/ \E h \in v.hold : /\ v.hold = {h} /\ h.x = x /\ h.x.c = h.c
                              /\ (Waiting(v, h) /\ ~h.told) \/ Owning(v, h)
    BY ForHome
<1> HIDE DEF x
<1>2. /\ InOK(w.in, x) /\ ~Told(w.in)
      /\ Ends(Head(v.in)) => w.in = <<>> /\ Over(w)
      /\ ~Ends(Head(v.in)) => Owed(w, x)
    BY <1>1, TakenPacket
<1>3. Head(v.in).t = "stream" => ~Ends(Head(v.in))
    BY DEF Ends
<1>4. x.op # "request"
    BY <1>1, NilNoExch DEF Answers, Cb, x
<1>5. Opened(w, x)
  <2>1. Known(w, x)
    BY <1>1, <1>2 DEF Known, SameHome
  <2> QED
    BY <1>2, <1>3, <2>1 DEF Opened, x
<1>6. OutOK(p, w) /\ End(Cur(w), w.out) = End(Cur(v), v.out)
    BY ThereGood DEF Good
<1>7. CASE v.hold = {}
  <2>1. Left(p, w)
    BY <1>1, <1>5, <1>6, <1>7 DEF Left, SameHome
  <2> QED
    BY <1>6, <2>1 DEF Good
<1>8. CASE v.hold # {}
  <2>1. PICK h \in v.hold : /\ v.hold = {h} /\ h.x = x /\ h.x.c = h.c
                            /\ Owning(v, h)
    BY <1>1, <1>4, <1>8 DEF Waiting
  <2>2. Owning(w, h)
    BY <1>5, <1>6, <2>1 DEF Owning
  <2>3. w.hold = {h} /\ w.pool = 0
    BY <1>1, <2>1 DEF SameHome
  <2> QED
    BY <1>1, <1>6, <2>1, <2>2, <2>3 DEF Good, Held
<1> QED
    BY <1>7, <1>8

\* handlepkt() of a finish: the stream goes back to the pool, and its owner,
\* if it has one, answers.
LEMMA FinishGood ==
    ASSUME NEW p, NEW v, NEW w, Good(p, v), v.in \in Seq(Item), v.in # <<>>,
           v.out \in Seq(Item),
           Head(v.in).t = "finish", w.in = Tail(v.in), w.srv = v.srv,
           v.live # "none", w.live = "none", w.pool = v.pool + 1, w.hold = {},
           NEW k \in Packet, k.t = "finish", k.x = Head(v.in).x,
           \/ v.hold = {} /\ SameThere(v, w)
           \/ v.hold # {} /\ Sent(v, w, k)
    PROVE  Good(p, w)
<1> DEFINE x == Head(v.in).x
<1>1. /\ x \in Exch /\ Home[x.c] = p /\ Head(v.in).t \in Answers(x)
      /\ Owed(v, x) /\ v.pool = 0
      /\ \/ v.hold = {} /\ Left(p, v)
         \/ \E h \in v.hold : v.hold = {h} /\ h.x = x /\ Owning(v, h)
  <2>1. x.op # "request"
    BY ForHome DEF Answers
  <2> QED
    BY <2>1, ForHome DEF Waiting
<1> HIDE DEF x
<1>2. Ends(Head(v.in)) /\ ~Opens(k)
    BY DEF Ends, Opens
<1>3. NoOpen(v.out) /\ v.srv = {} /\ w.in = <<>>
  <2>1. ~Bare(v.in) /\ ~NoEnd(v.in)
    BY <1>2, InPop
  <2>2. NoOpen(v.out) /\ v.srv = {} /\ LastEnds(v.in)
    BY <1>1, <2>1 DEF Owed
  <2> QED
    BY <1>2, <2>2, InPop
<1>4. Bare(w.in) /\ w.pool = 1
    BY <1>1, <1>3, BareEmpty
<1>5. CASE v.hold = {}
  <2>1. SameThere(v, w) /\ Left(p, v)
    BY <1>1, <1>5
  <2>2. OutOK(p, w) /\ End(Cur(w), w.out) = Nil
    BY <2>1, ThereGood DEF Good, Left
  <2>3. Over(w)
    BY <1>3, <1>4, <2>1 DEF Over, SameThere
  <2>4. Free(w)
    BY <1>3, <1>4, <2>2, <2>3 DEF Free
  <2> QED
    BY <2>2, <2>4 DEF Good
<1>6. CASE v.hold # {}
  <2>1. Sent(v, w, k)
    BY <1>6
  <2>2. End(Cur(v), v.out) = x
    BY <1>1, <1>6 DEF Owning
  <2>3. Fits(p, v, k) /\ OutOK(p, v)
    BY <1>1, <2>2 DEF Fits, Before, Good, x
  <2>4. OutOK(p, w) /\ End(Cur(w), w.out) = After(k)
    BY <2>1, <2>3, OutPush
  <2>5. NoOpen(w.out)
    <3>1. k \in Item
      BY DEF Item
    <3> QED
      BY <1>2, <1>3, <2>1, <3>1, OpenPush DEF Sent
  <2>6. Over(w) /\ After(k) = Nil
    BY <1>3, <1>4, <2>5 DEF Over, After
  <2>7. Free(w)
    BY <1>3, <1>4, <2>4, <2>6 DEF Free
  <2> QED
    BY <2>4, <2>7 DEF Good
<1> QED
    BY <1>5, <1>6

\* A packet under way to the other end was sent by the home, and finds there
\* what it has to.
LEMMA ForOther ==
    ASSUME NEW p, NEW v, Good(p, v), v.out \in Seq(Item), v.out # <<>>
    PROVE  LET k == Head(v.out) IN
           /\ k \in Packet /\ k.t \in FrameType /\ Home[k.x.c] = p
           /\ k.t = "start" => k.x.op = "start"
           /\ k.t \in {"post", "0x81", "start"} => v.there = "none"
           /\ k.t \in {"stream", "finish"} => /\ v.there = "remote"
                                              /\ v.rs = k.x
                                              /\ k.x.op = "start"
<1> DEFINE k == Head(v.out)
<1>1. k = v.out[1] /\ 1 \in DOMAIN v.out /\ k \in Item
    BY Shorter
<1>2. /\ OutOK(p, v) /\ k.t \in FrameType /\ Home[k.x.c] = p
      /\ k.t = "start" => k.x.op = "start"
    BY <1>1 DEF Good, OutOK
<1>3. k \in Packet /\ k.x \in Exch
    BY <1>1, <1>2 DEF Item, Packet, Update, FrameType
<1>4. Before(k) = Cur(v)
    BY <1>2, ChainPop DEF OutOK
<1> HIDE DEF k
<1>5. k.t \in {"post", "0x81", "start"} => v.there = "none"
  <2>1. k.t \in {"post", "0x81", "start"} => Cur(v) = Nil
    BY <1>4 DEF Before
  <2>2. v.there \in {"none", "remote"} /\ (v.there = "remote" => Cur(v) # Nil)
    BY <1>2, NilNoExch DEF OutOK, Cur
  <2> QED
    BY <2>1, <2>2
<1>6. ASSUME k.t \in {"stream", "finish"}
      PROVE  v.there = "remote" /\ v.rs = k.x /\ k.x.op = "start"
  <2>1. Cur(v) = k.x /\ k.x # Nil
    BY <1>3, <1>4, <1>6, NilNoExch DEF Before
  <2>2. v.there = "remote" /\ v.rs = k.x
    BY <2>1 DEF Cur
  <2> QED
    BY <1>2, <2>2 DEF OutOK
<1> QED
    BY <1>2, <1>3, <1>5, <1>6 DEF k

\* The other end handles a packet: if it opens an exchange, the application
\* there owes an end.
LEMMA OutGood ==
    ASSUME NEW p, NEW v, NEW w, Good(p, v), v.out \in Seq(Item), v.out # <<>>,
           w.out = Tail(v.out), w.in = v.in, SameHome(v, w),
           w.there \in {"none", "remote"},
           w.there = "remote" => w.rs \in Exch /\ w.rs.op = "start",
           Cur(w) = After(Head(v.out)),
           w.srv = IF Opens(Head(v.out)) THEN v.srv \cup {Head(v.out).x}
                   ELSE v.srv
    PROVE  Good(p, w)
<1> DEFINE k == Head(v.out)
<1>1. OutOK(p, v) /\ Chain(Cur(v), v.out)
    BY DEF Good, OutOK
<1>2. Chain(Cur(w), w.out) /\ End(Cur(w), w.out) = End(Cur(v), v.out)
    BY <1>1, ChainPop
<1>3. ASSUME NEW i \in DOMAIN w.out
      PROVE  /\ w.out[i].t \in FrameType /\ Home[w.out[i].x.c] = p
             /\ w.out[i].t = "start" => w.out[i].x.op = "start"
  <2>1. i + 1 \in DOMAIN v.out /\ w.out[i] = v.out[i + 1]
    BY Shorter
  <2> QED
    BY <1>1, <2>1 DEF OutOK
<1>4. OutOK(p, w)
    BY <1>2, <1>3 DEF OutOK
<1>5. /\ NoOpen(v.out) => ~Opens(k) /\ NoOpen(w.out)
      /\ \A x : OneOpen(v.out, x) =>
            /\ Opens(k) => k.x = x /\ NoOpen(w.out)
            /\ ~Opens(k) => OneOpen(w.out, x)
    BY OpenPop
<1> HIDE DEF k
<1>6. Over(v) => Over(w)
    BY <1>5 DEF Over, k
<1>7. ASSUME NEW x, Owed(v, x) PROVE Owed(w, x)
  <2>1. CASE NoOpen(v.out)
    <3>1. w.srv = v.srv /\ NoOpen(w.out) /\ ~OneOpen(v.out, x)
      BY <1>5, <2>1 DEF k, NoOpen, OneOpen
    <3> QED
      BY <1>7, <2>1, <3>1 DEF Owed
  <2>2. CASE ~NoOpen(v.out)
    <3>1. OneOpen(v.out, x) /\ v.srv = {} /\ Bare(v.in) /\ InOK(v.in, x)
      BY <1>7, <2>2 DEF Owed
    <3>2. CASE Opens(k)
      <4>1. w.srv = {x} /\ NoOpen(w.out)
        BY <1>5, <3>1, <3>2 DEF k
      <4>2. NoEnd(w.in)
        BY <3>1 DEF NoEnd, Bare, Ends
      <4> QED
        BY <3>1, <4>1, <4>2 DEF Owed
    <3>3. CASE ~Opens(k)
      <4>1. w.srv = {} /\ OneOpen(w.out, x)
        BY <1>5, <3>1, <3>3 DEF k
      <4> QED
        BY <3>1, <4>1 DEF Owed
    <3> QED
      BY <3>2, <3>3
  <2> QED
    BY <2>1, <2>2
<1>8. ASSUME NEW x, Known(v, x) PROVE Known(w, x)
    BY <1>8 DEF Known, SameHome
<1>9. ASSUME NEW x, Opened(v, x) PROVE Opened(w, x)
    BY <1>6, <1>7, <1>8, <1>9 DEF Opened
<1>10. CASE Free(v)
  <2>1. Free(w)
    BY <1>2, <1>6, <1>10 DEF Free, SameHome
  <2> QED
    BY <1>4, <2>1 DEF Good
<1>11. CASE Held(p, v)
  <2>1. PICK h \in v.hold :
            /\ v.hold = {h} /\ h.x \in Exch /\ h.x.c = h.c /\ Home[h.c] = p
            /\ \/ Telling(v, h) \/ Sending(v, h) \/ Waiting(v, h)
               \/ Owning(v, h) \/ Untelling(v, h)
    BY <1>11 DEF Held
  <2>2. w.hold = {h} /\ w.pool = 0
    BY <1>11, <2>1 DEF Held, SameHome
  <2>3. Telling(v, h) => Telling(w, h)
    BY <1>2, <1>6 DEF Telling, SameHome
  <2>4. Sending(v, h) => Sending(w, h)
    BY <1>2, <1>6, <1>8 DEF Sending
  <2>5. Waiting(v, h) => Waiting(w, h)
    BY <1>2, <1>6, <1>7, <1>8 DEF Waiting
  <2>6. Owning(v, h) => Owning(w, h)
    BY <1>2, <1>9 DEF Owning
  <2>7. Untelling(v, h) => Untelling(w, h)
    BY <1>2, <1>6 DEF Untelling, SameHome
  <2> QED
    BY <1>4, <2>1, <2>2, <2>3, <2>4, <2>5, <2>6, <2>7 DEF Good, Held
<1>12. CASE Returning(v)
  <2>1. Returning(w)
    BY <1>2, <1>6, <1>12 DEF Returning, SameHome
  <2> QED
    BY <1>4, <2>1 DEF Good
<1>13. CASE Left(p, v)
  <2>1. Left(p, w)
    BY <1>2, <1>9, <1>13 DEF Left, SameHome
  <2> QED
    BY <1>4, <2>1 DEF Good
<1> QED
    BY <1>10, <1>11, <1>12, <1>13 DEF Good

\* A step that leaves a stream alone, or that only closes more exchanges.
LEMMA SameGood ==
    ASSUME NEW p, NEW v, NEW w, Good(p, v), w.in = v.in, SameThere(v, w),
           SameHome(v, w)
    PROVE  Good(p, w)
<1>1. /\ OutOK(p, w) /\ End(Cur(w), w.out) = End(Cur(v), v.out)
      /\ Over(v) => Over(w)
    BY ThereGood DEF Good
<1>2. ASSUME NEW x
      PROVE  /\ Owed(v, x) => Owed(w, x)
             /\ Known(v, x) => Known(w, x)
    BY DEF Owed, Known, SameThere, SameHome
<1>3. ASSUME NEW x, Opened(v, x) PROVE Opened(w, x)
    BY <1>1, <1>2, <1>3 DEF Opened
<1>4. CASE Free(v)
  <2>1. Free(w)
    BY <1>1, <1>4 DEF Free, SameHome
  <2> QED
    BY <1>1, <2>1 DEF Good
<1>5. CASE Held(p, v)
  <2>1. PICK h \in v.hold :
            /\ v.hold = {h} /\ h.x \in Exch /\ h.x.c = h.c /\ Home[h.c] = p
            /\ \/ Telling(v, h) \/ Sending(v, h) \/ Waiting(v, h)
               \/ Owning(v, h) \/ Untelling(v, h)
    BY <1>5 DEF Held
  <2>2. w.hold = {h} /\ w.pool = 0
    BY <1>5, <2>1 DEF Held, SameHome
  <2>3. Telling(v, h) => Telling(w, h)
    BY <1>1 DEF Telling, SameHome
  <2>4. Sending(v, h) => Sending(w, h)
    BY <1>1, <1>2 DEF Sending
  <2>5. Waiting(v, h) => Waiting(w, h)
    BY <1>1, <1>2 DEF Waiting
  <2>6. Owning(v, h) => Owning(w, h)
    BY <1>1, <1>3 DEF Owning
  <2>7. Untelling(v, h) => Untelling(w, h)
    BY <1>1 DEF Untelling, SameHome
  <2> QED
    BY <1>1, <2>1, <2>2, <2>3, <2>4, <2>5, <2>6, <2>7 DEF Good, Held
<1>6. CASE Returning(v)
  <2>1. Returning(w)
    BY <1>1, <1>6 DEF Returning, SameHome
  <2> QED
    BY <1>1, <2>1 DEF Good
<1>7. CASE Left(p, v)
  <2>1. Left(p, w)
    BY <1>1, <1>3, <1>7 DEF Left, SameHome
  <2> QED
    BY <1>1, <2>1 DEF Good
<1> QED
    BY <1>4, <1>5, <1>6, <1>7 DEF Good

-----------------------------------------------------------------------------
(* What the invariant implies. *)

\* The fields of a view.
LEMMA ViewIs ==
    ASSUME NEW p, NEW o
    PROVE  /\ View(p, o).pool = pStrms[p][o] /\ View(p, o).cb = rxcallb[p][o]
           /\ View(p, o).shut = (rxcallb[p][o] \in closed)
           /\ View(p, o).live = live[p][o]
           /\ View(p, o).in = In(p, o) /\ View(p, o).out = Out(p, o)
           /\ View(p, o).there = live[Other(p)][o]
           /\ View(p, o).rs = rstrm[Other(p)][o]
           /\ View(p, o).srv = Srv(p, o) /\ View(p, o).hold = Hold(p, o)
BY DEF View

\* The next item for syncRx() is the first one under way with its opaque.
LEMMA HeadInOut ==
    ASSUME TypeOK, NEW p \in Peer, rxch[p] # <<>>
    PROVE  LET k == Head(rxch[p]) IN
           /\ In(p, k.o) # <<>> /\ Head(In(p, k.o)) = k
           /\ Out(Other(p), k.o) # <<>> /\ Head(Out(Other(p), k.o)) = k
<1> DEFINE k == Head(rxch[p])
           o == k.o
           R == Of(o, rxch[p])
           T == Of(o, Tail(rxch[p]))
<1>1. rxch[p] \in Seq(Item) /\ k \in Item /\ Tail(rxch[p]) \in Seq(Item)
    BY DEF TypeOK
<1>2. R = <<k>> \o T
    BY <1>1, OfHead
<1>3. T \in Seq(Item)
    BY <1>1, OfAppend
<1>4. R # <<>> /\ Head(R) = k /\ R \in Seq(Item)
  <2>1. <<k>> \in Seq(Item) /\ <<k>> # <<>> /\ Head(<<k>>) = k
    BY <1>1
  <2> HIDE DEF k, T, R
  <2>2. <<k>> \o T # <<>> /\ Head(<<k>> \o T) = k /\ <<k>> \o T \in Seq(Item)
    BY <1>3, <2>1, CatPop
  <2> QED
    BY <1>2, <2>2
<1>5. Other(p) \in Peer /\ Other(Other(p)) = p
    BY Ends2
<1>6. Of(o, wire[Other(p)]) \in Seq(Item)
    BY <1>5, OfType
<1> HIDE DEF R, k
<1>7. /\ R \o Of(o, wire[Other(p)]) # <<>>
      /\ Head(R \o Of(o, wire[Other(p)])) = k
    BY <1>4, <1>6, CatPop
<1>8. /\ In(p, o) = R \o Of(o, wire[Other(p)])
      /\ Out(Other(p), o) = R \o Of(o, wire[Other(p)])
    BY <1>5, Zenon DEF In, Out, R
<1> QED
    BY <1>7, <1>8 DEF k

\* A packet is dispatched to the exchange for which it was sent.
LEMMA XRouted == ASSUME XInv PROVE RoutedRight
<1> SUFFICES ASSUME NEW p \in Peer, rxch[p] # <<>>,
                    Head(rxch[p]).t # "update"
             PROVE  FindsItsStream(p, Head(rxch[p]))
    BY DEF RoutedRight
<1> DEFINE k == Head(rxch[p])
           q == Other(p)
<1>1. TypeOK
    BY DEF XInv
<1>2. /\ In(p, k.o) # <<>> /\ Head(In(p, k.o)) = k
      /\ Out(q, k.o) # <<>> /\ Head(Out(q, k.o)) = k
    BY <1>1, HeadInOut
<1>3. k.o \in Used
    BY <1>1 DEF XInv, Elsewhere, TypeOK
<1>4. q \in Peer /\ q # p /\ Other(q) = p
    BY Ends2
<1> HIDE DEF k, q
<1>5. CASE k.o \in OpaqueOf[p]
  <2> DEFINE v == View(p, k.o)
  <2>1. Good(p, v)
    BY <1>5 DEF XInv, Streams
  <2>2. v.in = In(p, k.o) /\ v.cb = rxcallb[p][k.o] /\ v.live = live[p][k.o]
    BY ViewIs
  <2>3. v.in \in Seq(Item) /\ v.in # <<>> /\ Head(v.in) = k /\ k.t # "update"
    BY <1>1, <1>2, <2>2, OfType DEF k
  <2> HIDE DEF v
  <2>4. /\ k.x \in Exch /\ Home[k.x.c] = p /\ k.x.op \in {"request", "start"}
        /\ v.cb = Cb(k.x)
        /\ v.live = IF Cb(k.x) # Nil THEN "local" ELSE "none"
    <3>1. LET x == Head(v.in).x IN
          /\ x \in Exch /\ Home[x.c] = p /\ x.op \in {"request", "start"}
          /\ v.cb = Cb(x)
          /\ v.live = IF Cb(x) # Nil THEN "local" ELSE "none"
      BY <2>1, <2>3, ForHome
    <3> QED
      BY <2>3, <3>1
  <2>5. ~FromInitiator(p, k)
    BY <2>4 DEF FromInitiator
  <2>6. IF k.x.op = "start" /\ k.x.c \in NilCallback THEN v.live = "none"
        ELSE v.live = "local" /\ v.cb = k.x
    BY <2>4, NilNoExch DEF Cb
  <2> QED
    BY <2>2, <2>5, <2>6 DEF FindsItsStream, k
<1>6. CASE k.o \in OpaqueOf[q]
  <2> DEFINE v == View(q, k.o)
  <2>1. Good(q, v)
    BY <1>4, <1>6 DEF XInv, Streams
  <2>2. v.out = Out(q, k.o) /\ v.there = live[p][k.o] /\ v.rs = rstrm[p][k.o]
    BY <1>4, ViewIs
  <2>3. v.out \in Seq(Item) /\ v.out # <<>> /\ Head(v.out) = k
    BY <1>1, <1>2, <1>4, <2>2, OfType
  <2> HIDE DEF v
  <2>4. /\ k.t \in FrameType /\ Home[k.x.c] = q
        /\ k.t \in {"post", "0x81", "start"} => v.there = "none"
        /\ k.t \in {"stream", "finish"} => v.there = "remote" /\ v.rs = k.x
    <3>1. LET m == Head(v.out) IN
          /\ m.t \in FrameType /\ Home[m.x.c] = q
          /\ m.t \in {"post", "0x81", "start"} => v.there = "none"
          /\ m.t \in {"stream", "finish"} => v.there = "remote" /\ v.rs = m.x
      BY <2>1, <2>3, ForOther
    <3> QED
      BY <2>3, <3>1
  <2>5. FromInitiator(p, k)
    BY <1>4, <2>4 DEF FromInitiator
  <2> QED
    BY <2>2, <2>4, <2>5 DEF FindsItsStream, FrameType, k
<1> QED
    BY <1>3, <1>5, <1>6, HomeOf DEF q

\* A stream object has one user.
LEMMA XExclusive == ASSUME XInv PROVE PoolExclusive
<1> SUFFICES ASSUME NEW p \in Peer, NEW o \in Opaque
             PROVE  /\ pStrms[p][o] =< 1
                    /\ pStrms[p][o] = 1 =>
                           /\ live[p][o] # "local"
                           /\ \A c \in Caller : ~Holds(c, p, o)
                    /\ \A c, d \in Caller :
                           Holds(c, p, o) /\ Holds(d, p, o) => c = d
    BY DEF PoolExclusive
<1>1. CASE o \notin OpaqueOf[p]
  <2>1. pStrms[p][o] = 0
    BY <1>1 DEF XInv, Elsewhere
  <2>2. \A c \in Caller : ~Holds(c, p, o)
    BY <1>1 DEF XInv, TypeOK, Holds
  <2> QED
    BY <2>1, <2>2
<1>2. CASE o \in OpaqueOf[p]
  <2> DEFINE v == View(p, o)
  <2>1. Good(p, v)
    BY <1>2 DEF XInv, Streams
  <2>2. /\ v.pool = pStrms[p][o] /\ v.live = live[p][o]
        /\ v.hold = Hold(p, o)
    BY ViewIs
  <2>3. ASSUME NEW c \in Caller, Holds(c, p, o)
        PROVE  \E h \in v.hold : h.c = c
    <3>1. Holder(c) \in v.hold
      BY <2>2, <2>3 DEF Hold
    <3>2. Holder(c).c = c
      BY DEF Holder
    <3> QED
      BY <3>1, <3>2
  <2> HIDE DEF v
  <2>4. v.pool \in {0, 1}
    BY <2>1 DEF Good, Free, Held, Returning, Left
  <2>5. v.pool = 1 => v.live = "none" /\ v.hold = {}
    BY <2>1, FreeGood DEF Free
  <2>6. \A h, g \in v.hold : h = g
    BY <2>1, HeldGood
  <2>7. ASSUME NEW c \in Caller, NEW d \in Caller,
               Holds(c, p, o), Holds(d, p, o)
        PROVE  c = d
    BY <2>3, <2>6, <2>7
  <2> QED
    BY <2>2, <2>3, <2>4, <2>5, <2>7
<1> QED
    BY <1>1, <1>2

\* When everything is over, nothing is left behind.
LEMMA XClean == ASSUME XInv PROVE QuiescentClean
<1> SUFFICES ASSUME Quiescent, NEW p \in Peer, NEW o \in Opaque
             PROVE  /\ live[p][o] = "none"
                    /\ o \in OpaqueOf[p] /\ pStrms[p][o] = 0 =>
                           \E c \in NilCallback : Home[c] = p
    BY DEF QuiescentClean
<1>1. ASSUME NEW q \in Peer, o \in OpaqueOf[q]
      PROVE  /\ live[q][o] = "none" /\ live[Other(q)][o] = "none"
             /\ pStrms[q][o] = 0 => \E c \in NilCallback : Home[c] = q
  <2> DEFINE v == View(q, o)
  <2>1. Good(q, v)
    BY <1>1 DEF XInv, Streams
  <2>2. Other(q) \in Peer
    BY Ends2
  <2>3. v.in = <<>> /\ v.out = <<>>
    <3>1. \A r \in Peer : rxch[r] = <<>> /\ wire[r] = <<>>
      BY DEF Quiescent
    <3>2. Of(o, <<>>) = <<>>
      BY OfEmpty
    <3>3. In(q, o) = <<>> \o <<>> /\ Out(q, o) = <<>> \o <<>>
      BY <2>2, <3>1, <3>2, Zenon DEF In, Out
    <3>4. <<>> \o <<>> = <<>>
      OBVIOUS
    <3> QED
      BY <3>3, <3>4, ViewIs
  <2>4. v.hold = {} /\ v.srv = {}
    <3>1. Hold(q, o) = {}
      BY DEF Hold, Holds, Quiescent
    <3>2. Srv(q, o) = {}
      BY <2>2 DEF Srv, Quiescent
    <3> QED
      BY <3>1, <3>2, ViewIs
  <2>5. /\ v.live = live[q][o] /\ v.there = live[Other(q)][o]
        /\ v.pool = pStrms[q][o]
    BY ViewIs
  <2> HIDE DEF v
  <2>6. ~Told(v.in) /\ ~Held(q, v) /\ ~Returning(v)
    BY <2>3, <2>4 DEF Told, Held, Returning
  <2>7. Free(v) \/ Left(q, v)
    BY <2>1, <2>6 DEF Good
  <2>8. v.there = "none"
    <3>1. End(Cur(v), v.out) = Nil
      BY <2>7 DEF Free, Left
    <3>2. Cur(v) = Nil
      BY <2>3, <3>1 DEF End
    <3> QED
      BY <2>1, <3>2, NilNoExch DEF Cur, Good, OutOK
  <2>9. ASSUME Left(q, v)
        PROVE  v.live = "none" /\ \E c \in NilCallback : Home[c] = q
    <3>1. PICK x \in Exch : x.op = "start" /\ Home[x.c] = q /\ Opened(v, x)
      BY <2>9 DEF Left
    <3>2. ~Owed(v, x)
      <4>1. ~OneOpen(v.out, x) /\ ~LastEnds(v.in)
        BY <2>3, InFew
      <4> QED
        BY <2>4, <4>1 DEF Owed
    <3>3. Cb(x) = Nil /\ Known(v, x)
      BY <3>1, <3>2 DEF Opened
    <3>4. x.c \in NilCallback
      BY <3>1, <3>3, NilNoExch DEF Cb
    <3> QED
      BY <3>1, <3>3, <3>4 DEF Known
  <2>10. Free(v) => v.live = "none" /\ v.pool = 1
    BY DEF Free
  <2> QED
    BY <2>5, <2>7, <2>8, <2>9, <2>10
<1>2. CASE o \in OpaqueOf[p]
    BY <1>1, <1>2
<1>3. CASE o \in OpaqueOf[Other(p)]
  <2>1. Other(p) \in Peer /\ Other(Other(p)) = p
    BY Ends2
  <2>2. live[Other(Other(p))][o] = "none"
    BY <1>1, <1>3, <2>1
  <2> QED
    BY <1>1, <2>1, <2>2
<1>4. CASE o \notin Used
  <2>1. live[p][o] = "none"
    BY <1>4 DEF XInv, Elsewhere
  <2>2. o \notin OpaqueOf[p]
    BY <1>4 DEF Used, Peer
  <2> QED
    BY <2>1, <2>2
<1> QED
    BY <1>2, <1>3, <1>4, HomeOf

-----------------------------------------------------------------------------
(* What the steps do to the views. *)

\* The fields of a view after a step.
LEMMA NextViewIs ==
    ASSUME NEW p, NEW o
    PROVE  /\ View(p, o)'.pool = pStrms'[p][o]
           /\ View(p, o)'.cb = rxcallb'[p][o]
           /\ View(p, o)'.shut = (rxcallb'[p][o] \in closed')
           /\ View(p, o)'.live = live'[p][o]
           /\ View(p, o)'.in = In(p, o)' /\ View(p, o)'.out = Out(p, o)'
           /\ View(p, o)'.there = live'[Other(p)][o]
           /\ View(p, o)'.rs = rstrm'[Other(p)][o]
           /\ View(p, o)'.srv = Srv(p, o)' /\ View(p, o)'.hold = Hold(p, o)'
BY DEF View

\* The parts of stream o of p that are not sequences stay as they are.
Alone(p, o) ==
    /\ pStrms'[p][o] = pStrms[p][o] /\ rxcallb'[p][o] = rxcallb[p][o]
    /\ live'[p][o] = live[p][o] /\ live'[Other(p)][o] = live[Other(p)][o]
    /\ rstrm'[Other(p)][o] = rstrm[Other(p)][o]
    /\ Srv(p, o)' = Srv(p, o) /\ Hold(p, o)' = Hold(p, o)
    /\ closed \subseteq closed'

\* A stream that a step leaves alone stays as it has to be.
LEMMA AloneGood ==
    ASSUME NEW p, NEW o, Good(p, View(p, o)), Alone(p, o),
           In(p, o)' = In(p, o), Out(p, o)' = Out(p, o)
    PROVE  Good(p, View(p, o)')
<1> DEFINE v == View(p, o)
           w == View(p, o)'
<1>1. SameThere(v, w) /\ w.in = v.in
    BY ViewIs, NextViewIs DEF SameThere, Alone
<1>2. SameHome(v, w)
  <2>1. v.shut => w.shut
    <3>1. v.shut = (rxcallb[p][o] \in closed)
      BY ViewIs
    <3>2. w.shut = (rxcallb'[p][o] \in closed')
      BY NextViewIs
    <3>3. rxcallb[p][o] \in closed => rxcallb'[p][o] \in closed'
      BY DEF Alone
    <3> HIDE DEF v, w
    <3> QED
      BY <3>1, <3>2, <3>3, Zenon
  <2>2. w.pool = v.pool /\ w.cb = v.cb /\ w.live = v.live /\ w.hold = v.hold
    BY ViewIs, NextViewIs DEF Alone
  <2> QED
    BY <2>1, <2>2 DEF SameHome
<1> HIDE DEF v, w
<1>3. Good(p, v)
    BY DEF v
<1>4. Good(p, w)
    BY <1>1, <1>2, <1>3, SameGood
<1> QED
    BY <1>4 DEF w

\* A routine that holds a stream is one of its holders.
LEMMA HolderIn ==
    ASSUME TypeOK, NEW c \in Caller, cs[c].pc # "idle"
    PROVE  /\ Holder(c) \in Hold(Home[c], cs[c].o)
           /\ \A p, o : Holder(c) \in Hold(p, o) => p = Home[c] /\ o = cs[c].o
<1>1. Holder(c) \in Hold(Home[c], cs[c].o)
    BY DEF Hold, Holds
<1>2. ASSUME NEW p, NEW o, Holder(c) \in Hold(p, o)
      PROVE  p = Home[c] /\ o = cs[c].o
  <2>1. PICK d \in Caller : Holds(d, p, o) /\ Holder(c) = Holder(d)
    BY <1>2 DEF Hold
  <2>2. c = d
    BY <2>1 DEF Holder
  <2> QED
    BY <2>1, <2>2 DEF Holds
<1> QED
    BY <1>1, <1>2

\* A routine moves on, and perhaps its exchange is done or closed: the others
\* hold what they held.
LEMMA HoldMove ==
    ASSUME TypeOK, Numbers, NEW c \in Caller, cs[c].pc # "idle",
           NEW l \in Pc, Goto(c, l), NEW o, o = cs[c].o,
           done' = done \/ done' = done \cup {cs[c].x},
           closed' = closed \/ closed' = closed \cup {cs[c].x}
    PROVE  /\ \A r, u : r # Home[c] \/ u # o => Hold(r, u)' = Hold(r, u)
           /\ Hold(Home[c], o) = {Holder(c)} =>
                  Hold(Home[c], o)' = IF l = "idle" THEN {} ELSE {Holder(c)'}
           /\ LET g == Holder(c)' IN
              /\ g.c = c /\ g.pc = l /\ g.x = cs[c].x
              /\ g.told = (cs[c].x \in done') /\ g.shut = (cs[c].x \in closed')
<1>1. /\ cs'[c].pc = l /\ cs'[c].x = cs[c].x /\ cs'[c].o = cs[c].o
      /\ \A d \in Caller : d # c => cs'[d] = cs[d]
    BY DEF Goto, TypeOK
<1>2. ASSUME NEW d \in Caller, d # c, cs[d].pc # "idle"
      PROVE  Holder(d)' = Holder(d)
  <2>1. cs[d].x # cs[c].x
    BY <1>2 DEF Numbers
  <2>2. (cs[d].x \in done') = (cs[d].x \in done)
    BY <2>1
  <2>3. (cs[d].x \in closed') = (cs[d].x \in closed)
    BY <2>1
  <2>4. cs'[d] = cs[d]
    BY <1>1, <1>2
  <2> QED
    BY <2>2, <2>3, <2>4 DEF Holder
<1>3. ASSUME NEW d \in Caller, d # c, NEW r, NEW u
      PROVE  Holds(d, r, u)' <=> Holds(d, r, u)
    BY <1>1, <1>3 DEF Holds
<1>4. ASSUME NEW r, NEW u, r # Home[c] \/ u # o
      PROVE  Hold(r, u)' = Hold(r, u)
  <2>1. ~Holds(c, r, u) /\ ~Holds(c, r, u)'
    BY <1>1, <1>4 DEF Holds
  <2>2. \A d \in Caller : Holds(d, r, u)' <=> Holds(d, r, u)
    BY <1>3, <2>1
  <2>3. \A d \in Caller : Holds(d, r, u) => Holder(d)' = Holder(d)
    BY <1>2, <2>1 DEF Holds
  <2>4. Hold(r, u)' = {Holder(d)' : d \in {e \in Caller : Holds(e, r, u)'}}
    BY DEF Hold
  <2> QED
    BY <2>2, <2>3, <2>4 DEF Hold
<1>5. ASSUME Hold(Home[c], o) = {Holder(c)}
      PROVE  Hold(Home[c], o)' = IF l = "idle" THEN {} ELSE {Holder(c)'}
  <2> DEFINE p == Home[c]
  <2>1. ASSUME NEW d \in Caller, d # c PROVE ~Holds(d, p, o)'
    <3>1. ASSUME Holds(d, p, o) PROVE FALSE
      <4>1. Holder(d) \in Hold(p, o)
        BY <3>1 DEF Hold
      <4>2. Holder(d) = Holder(c)
        BY <1>5, <4>1
      <4> QED
        BY <2>1, <4>2 DEF Holder
    <3>2. Holds(d, p, o)' <=> Holds(d, p, o)
      BY <1>1, <2>1 DEF Holds
    <3> QED
      BY <3>1, <3>2
  <2>2. Holds(c, p, o)' <=> l # "idle"
    BY <1>1 DEF Holds
  <2>3. Hold(p, o)' = {Holder(d)' : d \in {e \in Caller : Holds(e, p, o)'}}
    BY DEF Hold
  <2> QED
    BY <2>1, <2>2, <2>3
<1>6. Holder(c)' = [c |-> c, pc |-> l, x |-> cs[c].x,
                    told |-> cs[c].x \in done', shut |-> cs[c].x \in closed']
    BY <1>1 DEF Holder
<1> QED
    BY <1>4, <1>5, <1>6

\* A table g of p and o is f but for opaque u.
But(u, f, g) == \A p \in Peer : \A o \in Opaque \ {u} : g[p][o] = f[p][o]

\* A step concerns nothing but opaque o.
Concerns(o) ==
    /\ But(o, pStrms, pStrms') /\ But(o, rxcallb, rxcallb')
    /\ But(o, live, live') /\ But(o, rstrm, rstrm')
    /\ \A r, u : r \in Peer /\ u # o =>
           Srv(r, u)' = Srv(r, u) /\ Hold(r, u)' = Hold(r, u)
    /\ Flows(o) /\ closed \subseteq closed'

\* An entry of a table is set.
LEMMA TableSet ==
    ASSUME NEW S, NEW f \in [Peer -> [Opaque -> S]],
           NEW p \in Peer, NEW o \in Opaque, NEW a, NEW g,
           g = [f EXCEPT ![p][o] = a]
    PROVE  /\ g[p][o] = a /\ g[Other(p)][o] = f[Other(p)][o]
           /\ But(o, f, g)
<1>1. Other(p) # p /\ Other(p) \in Peer
    BY Ends2
<1> QED
    BY <1>1 DEF But

\* Or no entry is.
LEMMA TableSame == ASSUME NEW f, NEW o PROVE But(o, f, f)
BY DEF But

\* Then the streams stay as they have to be if stream o does.
LEMMA StreamsNext ==
    ASSUME Streams, Disjoint, NEW p \in Peer, NEW o \in OpaqueOf[p],
           Good(p, View(p, o)'), Concerns(o)
    PROVE  Streams'
<1> SUFFICES ASSUME NEW r \in Peer, NEW u \in OpaqueOf[r]
             PROVE  Good(r, View(r, u)')
    BY DEF Streams
<1>1. CASE u = o
    BY <1>1, OneHome
<1>2. CASE u # o
  <2>1. u \in Opaque \ {o} /\ Other(r) \in Peer
    BY <1>2, ExchangeAssumption, Ends2
  <2>2. /\ pStrms'[r][u] = pStrms[r][u] /\ rxcallb'[r][u] = rxcallb[r][u]
        /\ live'[r][u] = live[r][u] /\ live'[Other(r)][u] = live[Other(r)][u]
        /\ rstrm'[Other(r)][u] = rstrm[Other(r)][u]
    BY <2>1 DEF Concerns, But
  <2>3. /\ Srv(r, u)' = Srv(r, u) /\ Hold(r, u)' = Hold(r, u)
        /\ In(r, u)' = In(r, u) /\ Out(r, u)' = Out(r, u)
        /\ closed \subseteq closed'
    BY <2>1 DEF Concerns, Flows
  <2>4. Alone(r, u)
    BY <2>2, <2>3 DEF Alone
  <2>5. Good(r, View(r, u))
    BY DEF Streams
  <2> QED
    BY <2>3, <2>4, <2>5, AloneGood
<1> QED
    BY <1>1, <1>2

\* What is known of the stream that routine c holds.
LEMMA CallerView ==
    ASSUME XInv, NEW c \in Caller, cs[c].pc # "idle", NEW o, o = cs[c].o
    PROVE  LET p == Home[c]
               v == View(p, o)
               h == Holder(c)
           IN  /\ p \in Peer /\ o \in OpaqueOf[p] /\ o \in Opaque
               /\ Good(p, v) /\ h \in v.hold /\ Hold(p, o) = {h}
               /\ v.in \in Seq(Item) /\ v.out \in Seq(Item)
               /\ h.c = c /\ h.pc = cs[c].pc /\ h.x = cs[c].x
               /\ h.x \in Exch /\ h.x.c = c
               /\ h.told = (h.x \in done) /\ h.shut = (h.x \in closed)
<1> DEFINE p == Home[c]
           v == View(p, o)
           h == Holder(c)
<1>1. TypeOK /\ Numbers /\ Streams
    BY DEF XInv
<1>2. /\ p \in Peer /\ o \in OpaqueOf[p] /\ o \in Opaque
      /\ cs[c].x \in Exch
    BY <1>1, CallerType
<1>3. h \in Hold(p, o)
    BY <1>1, HolderIn
<1>4. /\ h.c = c /\ h.pc = cs[c].pc /\ h.x = cs[c].x /\ h.x.c = c
      /\ h.told = (h.x \in done) /\ h.shut = (h.x \in closed)
    BY <1>1 DEF Holder, Numbers
<1>5. v.hold = Hold(p, o) /\ v.in = In(p, o) /\ v.out = Out(p, o)
    BY ViewIs
<1>6. Good(p, v)
    BY <1>1, <1>2 DEF Streams
<1>7. v.hold = {h}
  <2> HIDE DEF v, h
  <2> QED
    BY <1>3, <1>5, <1>6, HeldGood
<1>8. v.in \in Seq(Item) /\ v.out \in Seq(Item)
    BY <1>1, <1>2, <1>5, OfType
<1> QED
    BY <1>2, <1>3, <1>4, <1>5, <1>6, <1>7, <1>8

\* The routine goes on to l: what that says of the stream it holds.
LEMMA CallerMoves ==
    ASSUME XInv, NEW c \in Caller, cs[c].pc # "idle", NEW o, o = cs[c].o,
           NEW l \in Pc, Goto(c, l),
           done' = done \/ done' = done \cup {cs[c].x},
           closed' = closed \/ closed' = closed \cup {cs[c].x}
    PROVE  LET p == Home[c]
               h == Holder(c)
               g == Holder(c)'
           IN  /\ View(p, o)'.hold = IF l = "idle" THEN {} ELSE {g}
               /\ g.c = h.c /\ g.pc = l /\ g.x = h.x
               /\ done' = done => g.told = h.told
               /\ h.x \in done' => g.told
               /\ closed' = closed => g.shut = h.shut
               /\ \A r, u : u # o => Hold(r, u)' = Hold(r, u)
<1>1. TypeOK /\ Numbers
    BY DEF XInv
<1> DEFINE p == Home[c]
           h == Holder(c)
           g == Holder(c)'
<1>2. Hold(p, o) = {h} /\ h.c = c /\ h.x = cs[c].x
      /\ h.told = (h.x \in done) /\ h.shut = (h.x \in closed)
    BY CallerView
<1>3. /\ \A r, u : r # Home[c] \/ u # o => Hold(r, u)' = Hold(r, u)
      /\ Hold(p, o) = {h} => Hold(p, o)' = IF l = "idle" THEN {} ELSE {g}
      /\ g.c = c /\ g.pc = l /\ g.x = cs[c].x
      /\ g.told = (cs[c].x \in done') /\ g.shut = (cs[c].x \in closed')
    BY <1>1, HoldMove
<1>4. View(p, o)'.hold = Hold(p, o)'
    BY NextViewIs
<1> HIDE DEF h, g, p
<1>5. /\ done' = done => g.told = h.told
      /\ h.x \in done' => g.told
    BY <1>2, <1>3, Zenon
<1>6. closed' = closed => g.shut = h.shut
    BY <1>2, <1>3, Zenon
<1>7. \A r, u : u # o => Hold(r, u)' = Hold(r, u)
    BY <1>3
<1> QED
    BY <1>2, <1>3, <1>4, <1>5, <1>6, <1>7 DEF h, g, p

\* The routines of an end do not touch livestreams, nor what the other
\* application has to do.
LEMMA TableAlone ==
    ASSUME NEW p, NEW o, UNCHANGED <<live, rstrm, serving>>
    PROVE  /\ View(p, o)'.live = View(p, o).live
           /\ View(p, o)'.there = View(p, o).there
           /\ View(p, o)'.rs = View(p, o).rs
           /\ View(p, o)'.srv = View(p, o).srv
           /\ But(o, live, live') /\ But(o, rstrm, rstrm')
           /\ \A r, u : Srv(r, u)' = Srv(r, u)
<1>1. \A r, u : Srv(r, u)' = Srv(r, u)
    BY DEF Srv
<1>2. But(o, live, live') /\ But(o, rstrm, rstrm')
    BY TableSame
<1> QED
    BY <1>1, <1>2, ViewIs, NextViewIs

\* TellRx() and putstream() tell syncRx() of the stream.
LEMMA PutStreams ==
    ASSUME XInv, Disjoint, NEW c \in Caller, TellRx(c) \/ putstream(c)
    PROVE  Streams'
<1> DEFINE p == Home[c]
           h == Holder(c)
           g == Holder(c)'
           l == IF cs[c].pc = "tell" THEN "tx" ELSE "idle"
<1>1. PICK o : o = cs[c].o
    OBVIOUS
<1> DEFINE v == View(p, o)
           w == View(p, o)'
           k == [t |-> "update", o |-> o]
<1>2. TypeOK /\ Streams
    BY DEF XInv
<1>3. /\ cs[c].pc \in {"tell", "untell"} /\ cs[c].pc # "idle" /\ l \in Pc
      /\ Goto(c, l) /\ putch(p, k)
      /\ UNCHANGED <<live, rstrm, serving>>
      /\ UNCHANGED <<pStrms, rxcallb>> /\ UNCHANGED wire
      /\ done' = done /\ closed' = closed
    BY <1>1 DEF TellRx, putstream, Pc
<1>4. /\ p \in Peer /\ o \in OpaqueOf[p] /\ o \in Opaque
      /\ Good(p, v) /\ h \in v.hold /\ h.pc = cs[c].pc
    BY <1>1, <1>3, CallerView
<1>5. /\ w.hold = IF l = "idle" THEN {} ELSE {g}
      /\ g.c = h.c /\ g.pc = l /\ g.x = h.x
      /\ done' = done => g.told = h.told
      /\ closed' = closed => g.shut = h.shut
      /\ \A r, u : u # o => Hold(r, u)' = Hold(r, u)
    BY <1>1, <1>3, CallerMoves
<1>6. /\ w.live = v.live /\ w.there = v.there /\ w.rs = v.rs
      /\ w.srv = v.srv /\ But(o, live, live') /\ But(o, rstrm, rstrm')
      /\ \A r, u : Srv(r, u)' = Srv(r, u)
    BY <1>3, TableAlone
<1>7. w.pool = v.pool /\ w.cb = v.cb
    BY <1>3, ViewIs, NextViewIs
<1>8. v.in = In(p, o) /\ v.out = Out(p, o)
      /\ w.in = In(p, o)' /\ w.out = Out(p, o)'
    BY ViewIs, NextViewIs
<1> HIDE DEF v, w, h, g
<1>9. v.in = <<>>
    BY <1>3, <1>4, QuietGood
<1>10. In(p, o)' = <<k>> /\ Out(p, o)' = Out(p, o) /\ Flows(o)
    BY <1>2, <1>3, <1>4, <1>8, <1>9, PutInOut
<1>11. SameThere(v, w) /\ w.in = <<k>>
    BY <1>6, <1>8, <1>10 DEF SameThere
<1>12. Good(p, w)
  <2>1. CASE cs[c].pc = "tell"
    BY <1>3, <1>4, <1>5, <1>6, <1>7, <1>11, <2>1, TellGood
  <2>2. CASE cs[c].pc = "untell"
    BY <1>3, <1>4, <1>5, <1>6, <1>7, <1>11, <2>2, UntellGood
  <2> QED
    BY <1>3, <2>1, <2>2
<1>13. But(o, pStrms, pStrms') /\ But(o, rxcallb, rxcallb')
    BY <1>3, TableSame
<1>14. Concerns(o)
    BY <1>3, <1>5, <1>6, <1>10, <1>13 DEF Concerns
<1> QED
    BY <1>2, <1>4, <1>12, <1>14, StreamsNext DEF w

\* Request() returns from waiting.
LEMMA DoneStreams ==
    ASSUME XInv, Disjoint, NEW c \in Caller, RequestDone(c)
    PROVE  Streams'
<1> DEFINE p == Home[c]
           h == Holder(c)
           g == Holder(c)'
           l == "untell"
<1>1. PICK o : o = cs[c].o
    OBVIOUS
<1> DEFINE v == View(p, o)
           w == View(p, o)'
<1>2. TypeOK /\ Streams
    BY DEF XInv
<1>3. /\ cs[c].pc = "wait" /\ l \in Pc /\ cs[c].x \in done
      /\ Goto(c, l) /\ UNCHANGED <<live, rstrm, serving>>
      /\ UNCHANGED <<rxch, wire>> /\ done' = done /\ closed' = closed
      /\ UNCHANGED pStrms /\ rxcallb' = [rxcallb EXCEPT ![p][o] = Nil]
    BY <1>1 DEF RequestDone, Pc
<1>4. /\ p \in Peer /\ o \in OpaqueOf[p] /\ o \in Opaque
      /\ Good(p, v) /\ h \in v.hold /\ h.pc = cs[c].pc /\ h.x = cs[c].x
      /\ h.told = (h.x \in done)
    BY <1>1, <1>3, CallerView
<1> HIDE DEF l
<1>5. /\ w.hold = IF l = "idle" THEN {} ELSE {g}
      /\ g.c = h.c /\ g.pc = l /\ g.x = h.x
      /\ \A r, u : u # o => Hold(r, u)' = Hold(r, u)
  <2>1. cs[c].pc # "idle" /\ l \in Pc /\ Goto(c, l)
        /\ done' = done /\ closed' = closed
    BY <1>3
  <2> QED
    BY <1>1, <2>1, CallerMoves
<1>6. /\ w.live = v.live /\ w.there = v.there /\ w.rs = v.rs
      /\ w.srv = v.srv /\ But(o, live, live') /\ But(o, rstrm, rstrm')
      /\ \A r, u : Srv(r, u)' = Srv(r, u)
    BY <1>3, TableAlone
<1>7. rxcallb'[p][o] = Nil /\ But(o, rxcallb, rxcallb')
    BY <1>2, <1>3, <1>4, TableSet DEF TypeOK
<1>8. \A r, u : In(r, u)' = In(r, u) /\ Out(r, u)' = Out(r, u)
    BY <1>3 DEF In, Out
<1>9. w.pool = v.pool /\ w.cb = Nil /\ w.in = v.in /\ w.out = v.out
    BY <1>3, <1>7, <1>8, ViewIs, NextViewIs
<1> HIDE DEF v, w, h, g
<1>10. Good(p, w)
  <2>1. SameThere(v, w)
    BY <1>6, <1>9 DEF SameThere
  <2>2. h.told
    BY <1>3, <1>4, Zenon
  <2> QED
    BY <1>3, <1>4, <1>5, <1>6, <1>9, <2>1, <2>2, DoneGood DEF l
<1>11. But(o, pStrms, pStrms')
    BY <1>3, TableSame
<1>12. Concerns(o)
    BY <1>3, <1>5, <1>6, <1>7, <1>8, <1>11 DEF Concerns, Flows
<1> QED
    BY <1>2, <1>4, <1>10, <1>12, StreamsNext DEF w

\* A packet that the home of its opaque sends.
LEMMA HomeSends ==
    ASSUME TypeOK, NEW p \in Peer, NEW o \in Opaque,
           NEW t \in FrameType, NEW x \in Exch, Send(p, t, o, x),
           UNCHANGED rxch, UNCHANGED <<live, rstrm, serving>>
    PROVE  LET v == View(p, o)
               w == View(p, o)'
               k == [t |-> t, o |-> o, x |-> x]
           IN  /\ k \in Packet /\ Sent(v, w, k) /\ w.in = v.in
               /\ Flows(o)
<1> DEFINE v == View(p, o)
           w == View(p, o)'
           k == [t |-> t, o |-> o, x |-> x]
<1>1. k \in Packet /\ p # Other(p)
    BY Ends2 DEF Packet
<1>2. Appends(p, o, k)
    BY <1>1, SendInOut
<1> HIDE DEF k
<1>3. Out(p, o)' = Append(Out(p, o), k) /\ In(p, o)' = In(p, o)
    BY <1>1, <1>2 DEF Appends
<1>4. Flows(o)
    BY <1>2 DEF Appends, Flows
<1>5. w.there = v.there /\ w.rs = v.rs
    BY TableAlone
<1>6. /\ v.in = In(p, o) /\ v.out = Out(p, o)
      /\ w.in = In(p, o)' /\ w.out = Out(p, o)'
    BY ViewIs, NextViewIs
<1> HIDE DEF v, w
<1>7. Sent(v, w, k) /\ w.in = v.in
    BY <1>3, <1>5, <1>6 DEF Sent
<1> QED
    BY <1>1, <1>4, <1>7 DEF k, v, w

\* Post(), Request() and Stream() of Transport send the first packet.
LEMMA OpenStreams ==
    ASSUME XInv, Disjoint, NEW c \in Caller,
           Post(c) \/ Request(c) \/ Stream(c)
    PROVE  Streams'
<1> DEFINE p == Home[c]
           h == Holder(c)
           g == Holder(c)'
<1>1. PICK o, x : o = cs[c].o /\ x = cs[c].x
    OBVIOUS
<1> DEFINE v == View(p, o)
           w == View(p, o)'
           t == IF x.op = "post" THEN "post"
                ELSE IF x.op = "request" THEN "0x81" ELSE "start"
           l == IF x.op = "post" THEN "idle"
                ELSE IF x.op = "request" THEN "wait" ELSE "own"
           k == [t |-> t, o |-> o, x |-> x]
<1>2. TypeOK /\ Streams
    BY DEF XInv
<1>3. /\ cs[c].pc = "tx" /\ x.op \in {"post", "request", "start"}
      /\ Send(p, t, o, x) /\ Goto(c, l) /\ UNCHANGED <<live, rstrm, serving>>
      /\ UNCHANGED rxch /\ done' = done /\ closed' = closed
      /\ UNCHANGED rxcallb
      /\ pStrms' = IF x.op = "post" THEN [pStrms EXCEPT ![p][o] = @ + 1]
                   ELSE pStrms
      /\ t \in FrameType /\ l \in Pc /\ (x.op = "post" <=> l = "idle")
    BY <1>1 DEF Post, Request, Stream, ToPool, FrameType, Pc
<1>4. /\ p \in Peer /\ o \in OpaqueOf[p] /\ o \in Opaque
      /\ Good(p, v) /\ h \in v.hold /\ h.pc = "tx" /\ h.x = x
      /\ x \in Exch /\ v.out \in Seq(Item)
    BY <1>1, <1>3, CallerView
<1> HIDE DEF l
<1>5. /\ w.hold = IF l = "idle" THEN {} ELSE {g}
      /\ g.c = h.c /\ g.pc = l /\ g.x = h.x
      /\ done' = done => g.told = h.told
      /\ closed' = closed => g.shut = h.shut
      /\ \A r, u : u # o => Hold(r, u)' = Hold(r, u)
    BY <1>1, <1>3, CallerMoves
<1>6. /\ w.live = v.live /\ w.srv = v.srv
      /\ But(o, live, live') /\ But(o, rstrm, rstrm')
      /\ \A r, u : Srv(r, u)' = Srv(r, u)
    BY <1>3, TableAlone
<1>7. k \in Packet /\ Sent(v, w, k) /\ w.in = v.in /\ Flows(o)
    BY <1>2, <1>3, <1>4, HomeSends
<1>8. /\ x.op = "post" => pStrms'[p][o] = pStrms[p][o] + 1
      /\ x.op # "post" => pStrms'[p][o] = pStrms[p][o]
      /\ But(o, pStrms, pStrms')
    BY <1>2, <1>3, <1>4 DEF TypeOK, But
<1>9. But(o, rxcallb, rxcallb')
    BY <1>3, TableSame
<1>10. /\ x.op = "post" => w.pool = v.pool + 1
       /\ x.op # "post" => w.pool = v.pool
       /\ w.cb = v.cb
    BY <1>3, <1>8, ViewIs, NextViewIs
<1>11. k.t = t /\ k.x = h.x
    BY <1>4
<1> HIDE DEF v, w, h, g, k
<1>12. ASSUME x.op = "post" PROVE Good(p, w)
    BY <1>3, <1>4, <1>5, <1>6, <1>7, <1>10, <1>11, <1>12, PostGood
<1>13. ASSUME x.op \in {"request", "start"} PROVE Good(p, w)
  <2>1. /\ h.x.op \in {"request", "start"}
        /\ k.t = IF h.x.op = "request" THEN "0x81" ELSE "start"
        /\ g.pc = IF h.x.op = "request" THEN "wait" ELSE "own"
        /\ w.hold = {g} /\ w.pool = v.pool
    BY <1>4, <1>5, <1>10, <1>11, <1>13 DEF l
  <2>2. g.told = h.told /\ g.shut = h.shut /\ g.c = h.c /\ g.x = h.x
    BY <1>3, <1>5
  <2> HIDE DEF t
  <2> QED
    BY <1>4, <1>6, <1>7, <1>10, <1>11, <2>1, <2>2, OpenGood
<1>14. Concerns(o)
    BY <1>3, <1>5, <1>6, <1>7, <1>8, <1>9 DEF Concerns
<1> QED
    BY <1>2, <1>3, <1>4, <1>12, <1>13, <1>14, StreamsNext DEF w

\* Nobody moves: everybody holds what they held.
LEMMA HoldSame ==
    ASSUME UNCHANGED <<cs, done, closed>>
    PROVE  \A r, u : Hold(r, u)' = Hold(r, u)
BY DEF Hold, Holds, Holder

\* The initiator of a stream sends a message.
LEMMA MsgStreams ==
    ASSUME XInv, Disjoint, NEW c \in Caller, StreamMsg(c)
    PROVE  Streams'
<1> DEFINE p == Home[c]
           h == Holder(c)
<1>1. PICK o, x : o = cs[c].o /\ x = cs[c].x
    OBVIOUS
<1> DEFINE v == View(p, o)
           w == View(p, o)'
           k == [t |-> "stream", o |-> o, x |-> x]
<1>2. TypeOK /\ Streams
    BY DEF XInv
<1>3. /\ cs[c].pc = "own" /\ Send(p, "stream", o, x) /\ "stream" \in FrameType
      /\ UNCHANGED <<live, rstrm, serving>> /\ UNCHANGED rxch
      /\ UNCHANGED <<cs, done, closed>> /\ UNCHANGED <<pStrms, rxcallb>>
    BY <1>1 DEF StreamMsg, FrameType
<1>4. /\ p \in Peer /\ o \in OpaqueOf[p] /\ o \in Opaque
      /\ Good(p, v) /\ h \in v.hold /\ h.pc = "own" /\ h.x = x
      /\ x \in Exch /\ v.out \in Seq(Item)
    BY <1>1, <1>3, CallerView
<1>5. \A r, u : Hold(r, u)' = Hold(r, u)
    BY <1>3, HoldSame
<1>6. /\ w.live = v.live /\ w.srv = v.srv
      /\ But(o, live, live') /\ But(o, rstrm, rstrm')
      /\ \A r, u : Srv(r, u)' = Srv(r, u)
    BY <1>3, TableAlone
<1>7. k \in Packet /\ Sent(v, w, k) /\ w.in = v.in /\ Flows(o)
    BY <1>2, <1>3, <1>4, HomeSends
<1>8. But(o, pStrms, pStrms') /\ But(o, rxcallb, rxcallb')
    BY <1>3, TableSame
<1>9. /\ w.pool = v.pool /\ w.cb = v.cb /\ w.hold = v.hold
      /\ w.shut = v.shut
    BY <1>3, <1>5, ViewIs, NextViewIs
<1>10. k.t = "stream" /\ k.x = h.x
    BY <1>4
<1> HIDE DEF v, w, h, k
<1>11. Good(p, w)
  <2>1. SameHome(v, w)
    BY <1>6, <1>9 DEF SameHome
  <2> QED
    BY <1>4, <1>6, <1>7, <1>10, <2>1, MsgGood
<1>12. Concerns(o)
    BY <1>3, <1>5, <1>6, <1>7, <1>8 DEF Concerns
<1> QED
    BY <1>2, <1>4, <1>11, <1>12, StreamsNext DEF w

\* The initiator of a stream closes it.
LEMMA CloseStreams ==
    ASSUME XInv, Disjoint, NEW c \in Caller, StreamClose(c)
    PROVE  Streams'
<1> DEFINE p == Home[c]
           h == Holder(c)
           l == "idle"
<1>1. PICK o, x : o = cs[c].o /\ x = cs[c].x
    OBVIOUS
<1> DEFINE v == View(p, o)
           w == View(p, o)'
           k == [t |-> "finish", o |-> o, x |-> x]
<1>2. TypeOK /\ Streams
    BY DEF XInv
<1>3. /\ cs[c].pc = "own" /\ cs[c].pc # "idle"
      /\ Send(p, "finish", o, x) /\ "finish" \in FrameType
      /\ Goto(c, l) /\ l \in Pc
      /\ UNCHANGED <<live, rstrm, serving>> /\ UNCHANGED rxch
      /\ done' = done /\ closed' = closed \cup {x}
      /\ UNCHANGED <<pStrms, rxcallb>>
    BY <1>1 DEF StreamClose, FrameType, Pc
<1>4. /\ p \in Peer /\ o \in OpaqueOf[p] /\ o \in Opaque
      /\ Good(p, v) /\ h \in v.hold /\ h.pc = "own" /\ h.x = x
      /\ x \in Exch /\ v.out \in Seq(Item)
    BY <1>1, <1>3, CallerView
<1> HIDE DEF l
<1>5. /\ w.hold = IF l = "idle" THEN {} ELSE {Holder(c)'}
      /\ \A r, u : u # o => Hold(r, u)' = Hold(r, u)
  <2>1. cs[c].pc # "idle" /\ l \in Pc /\ Goto(c, l)
        /\ done' = done /\ closed' = closed \cup {cs[c].x}
    BY <1>1, <1>3
  <2> QED
    BY <1>1, <2>1, CallerMoves
<1>6. /\ w.live = v.live /\ w.srv = v.srv
      /\ But(o, live, live') /\ But(o, rstrm, rstrm')
      /\ \A r, u : Srv(r, u)' = Srv(r, u)
    BY <1>3, TableAlone
<1>7. k \in Packet /\ Sent(v, w, k) /\ w.in = v.in /\ Flows(o)
    BY <1>2, <1>3, <1>4, HomeSends
<1>8. But(o, pStrms, pStrms') /\ But(o, rxcallb, rxcallb')
    BY <1>3, TableSame
<1>9. w.pool = v.pool /\ w.cb = v.cb
    BY <1>3, ViewIs, NextViewIs
<1>10. v.cb = h.x => w.shut
  <2>1. w.shut = (rxcallb[p][o] \in closed') /\ v.cb = rxcallb[p][o]
    BY <1>3, ViewIs, NextViewIs
  <2>2. rxcallb[p][o] = x => rxcallb[p][o] \in closed'
    BY <1>3
  <2> HIDE DEF v, w, h
  <2> QED
    BY <1>4, <2>1, <2>2, Zenon
<1>11. k.t = "finish" /\ k.x = h.x
    BY <1>4
<1> HIDE DEF v, w, h, k
<1>12. Good(p, w)
  <2>1. w.hold = {}
    BY <1>5 DEF l
  <2> QED
    BY <1>4, <1>6, <1>7, <1>9, <1>10, <1>11, <2>1, CloseGood
<1>13. Concerns(o)
    BY <1>3, <1>5, <1>6, <1>7, <1>8 DEF Concerns
<1> QED
    BY <1>2, <1>4, <1>12, <1>13, StreamsNext DEF w

\* An idle routine takes a stream that nobody holds.
LEMMA HoldTake ==
    ASSUME TypeOK, NEW c \in Caller, cs[c].pc = "idle", NEW o, NEW x,
           NEW l \in Pc, l # "idle",
           cs' = [cs EXCEPT ![c] = [pc |-> l, o |-> o, x |-> x]],
           UNCHANGED <<done, closed>>
    PROVE  /\ \A r, u : u # o => Hold(r, u)' = Hold(r, u)
           /\ Hold(Home[c], o) = {} => Hold(Home[c], o)' = {Holder(c)'}
           /\ LET g == Holder(c)' IN
              /\ g.c = c /\ g.pc = l /\ g.x = x
              /\ g.told = (x \in done) /\ g.shut = (x \in closed)
<1>1. /\ cs'[c].pc = l /\ cs'[c].o = o /\ cs'[c].x = x
      /\ \A d \in Caller : d # c => cs'[d] = cs[d]
    BY DEF TypeOK
<1>2. ASSUME NEW d \in Caller, d # c
      PROVE  /\ Holder(d)' = Holder(d)
             /\ \A r, u : Holds(d, r, u)' <=> Holds(d, r, u)
    BY <1>1, <1>2 DEF Holder, Holds
<1>3. ASSUME NEW r, NEW u, u # o PROVE Hold(r, u)' = Hold(r, u)
  <2>1. ~Holds(c, r, u) /\ ~Holds(c, r, u)'
    BY <1>1, <1>3 DEF Holds
  <2>2. \A d \in Caller : Holds(d, r, u)' <=> Holds(d, r, u)
    BY <1>2, <2>1
  <2>3. \A d \in Caller : Holds(d, r, u) => Holder(d)' = Holder(d)
    BY <1>2, <2>1
  <2>4. Hold(r, u)' = {Holder(d)' : d \in {e \in Caller : Holds(e, r, u)'}}
    BY DEF Hold
  <2> QED
    BY <2>2, <2>3, <2>4 DEF Hold
<1>4. ASSUME Hold(Home[c], o) = {} PROVE Hold(Home[c], o)' = {Holder(c)'}
  <2> DEFINE p == Home[c]
  <2>1. ASSUME NEW d \in Caller, d # c PROVE ~Holds(d, p, o)'
    <3>1. ~Holds(d, p, o)
      BY <1>4 DEF Hold
    <3> QED
      BY <1>2, <2>1, <3>1
  <2>2. Holds(c, p, o)'
    BY <1>1 DEF Holds
  <2>3. Hold(p, o)' = {Holder(d)' : d \in {e \in Caller : Holds(e, p, o)'}}
    BY DEF Hold
  <2> QED
    BY <2>1, <2>2, <2>3
<1>5. Holder(c)' = [c |-> c, pc |-> l, x |-> x,
                    told |-> x \in done, shut |-> x \in closed]
    BY <1>1 DEF Holder
<1> QED
    BY <1>3, <1>4, <1>5

\* getlocalstream() takes a stream from the pool.
LEMMA GetStreams ==
    ASSUME XInv, Disjoint, NEW c \in Caller, NEW op \in Op,
           getlocalstream(c, op)
    PROVE  Streams'
<1> DEFINE p == Home[c]
           g == Holder(c)'
           l == IF op = "post" THEN "tx" ELSE "tell"
<1>1. PICK x : x = [n |-> nexch + 1, c |-> c, op |-> op]
    OBVIOUS
<1>2. PICK o \in OpaqueOf[p] :
        /\ pStrms[p][o] > 0
        /\ pStrms' = [pStrms EXCEPT ![p][o] = @ - 1]
        /\ rxcallb' = [rxcallb EXCEPT ![p][o] = Cb(x)]
        /\ cs' = [cs EXCEPT ![c] = [pc |-> l, o |-> o, x |-> x]]
  <2>1. Cb(x) = IF op = "request" \/ (op = "start" /\ c \notin NilCallback)
                THEN x ELSE Nil
    BY <1>1 DEF Cb
  <2> QED
    BY <1>1, <2>1, Zenon DEF getlocalstream
<1> DEFINE v == View(p, o)
           w == View(p, o)'
<1>3. TypeOK /\ Streams /\ Numbers
    BY DEF XInv
<1>4. /\ cs[c].pc = "idle" /\ nexch < MaxExch
      /\ UNCHANGED <<live, rstrm, serving>> /\ UNCHANGED <<rxch, wire>>
      /\ UNCHANGED <<done, closed>> /\ l \in Pc /\ l # "idle"
    BY DEF getlocalstream, Pc
<1>5. /\ p \in Peer /\ o \in Opaque /\ x \in Exch /\ x.c = c /\ x.op = op
      /\ x \notin done /\ x \notin closed
  <2>1. p \in Peer /\ o \in Opaque
    BY ExchangeAssumption
  <2>2. x \in Exch /\ x.n = nexch + 1 /\ x.c = c /\ x.op = op /\ nexch \in Nat
    BY <1>1, <1>3, <1>4, ExchangeAssumption DEF TypeOK, Exch
  <2>3. x \notin done /\ x \notin closed
    BY <1>3, <2>2 DEF Numbers
  <2> QED
    BY <2>1, <2>2, <2>3
<1>6. Good(p, v) /\ v.pool = pStrms[p][o] /\ pStrms[p][o] \in Nat
    BY <1>3, <1>5, ViewIs DEF Streams, TypeOK
<1>7. /\ pStrms'[p][o] = pStrms[p][o] - 1 /\ But(o, pStrms, pStrms')
      /\ rxcallb'[p][o] = Cb(x) /\ But(o, rxcallb, rxcallb')
  <2>1. /\ pStrms \in [Peer -> [Opaque -> Nat]]
        /\ rxcallb \in [Peer -> [Opaque -> Exch \cup {Nil}]]
    BY <1>3 DEF TypeOK
  <2>2. pStrms'[p][o] = pStrms[p][o] - 1 /\ But(o, pStrms, pStrms')
    BY <1>2, <1>5, <2>1 DEF But
  <2>3. rxcallb'[p][o] = Cb(x) /\ But(o, rxcallb, rxcallb')
    BY <1>2, <1>5, <2>1, TableSet
  <2> QED
    BY <2>2, <2>3
<1>8. /\ w.live = v.live /\ w.there = v.there /\ w.rs = v.rs
      /\ w.srv = v.srv /\ But(o, live, live') /\ But(o, rstrm, rstrm')
      /\ \A r, u : Srv(r, u)' = Srv(r, u)
    BY <1>4, TableAlone
<1>9. \A r, u : In(r, u)' = In(r, u) /\ Out(r, u)' = Out(r, u)
    BY <1>4 DEF In, Out
<1>10. w.pool = v.pool - 1 /\ w.cb = Cb(x) /\ w.in = v.in /\ w.out = v.out
    BY <1>7, <1>9, ViewIs, NextViewIs
<1>11. v.hold = Hold(p, o) /\ w.hold = Hold(p, o)'
    BY ViewIs, NextViewIs
<1> HIDE DEF v, w
<1>12. v.pool # 0 /\ Hold(p, o) = {}
    BY <1>2, <1>6, <1>11, FreeGood DEF Free
<1> HIDE DEF l
<1>13. /\ \A r, u : u # o => Hold(r, u)' = Hold(r, u)
       /\ Hold(p, o) = {} => Hold(p, o)' = {g}
       /\ g.c = c /\ g.pc = l /\ g.x = x
       /\ g.told = (x \in done) /\ g.shut = (x \in closed)
    BY <1>2, <1>3, <1>4, HoldTake
<1> HIDE DEF g
<1>14. Good(p, w)
  <2>1. ~g.told /\ ~g.shut
    BY <1>5, <1>13, Zenon
  <2>2. SameThere(v, w)
    BY <1>8, <1>10 DEF SameThere
  <2>3. /\ w.hold = {g} /\ g.x \in Exch /\ g.x.c = g.c /\ Home[g.c] = p
        /\ g.pc = (IF g.x.op = "post" THEN "tx" ELSE "tell")
        /\ w.cb = Cb(g.x)
    BY <1>5, <1>10, <1>11, <1>12, <1>13 DEF l
  <2> QED
    BY <1>6, <1>8, <1>10, <1>12, <2>1, <2>2, <2>3, GetGood
<1>15. Concerns(o)
  <2>1. closed' = closed
    BY <1>4
  <2> QED
    BY <1>7, <1>8, <1>9, <1>13, <2>1 DEF Concerns, Flows
<1> QED
    BY <1>3, <1>5, <1>14, <1>15, StreamsNext DEF w

\* What an application has to do, but for one end that it sends.
LEMMA ServedSrv ==
    ASSUME TypeOK, NEW p \in Peer, NEW e \in serving[p],
           NEW b \in BOOLEAN, NEW q, q = Other(p), NEW o, o = e.o,
           serving' = IF b THEN [serving EXCEPT ![p] = @ \ {e}] ELSE serving
    PROVE  /\ e.x \in Srv(q, o)
           /\ b => Srv(q, o)' = Srv(q, o) \ {e.x}
           /\ ~b => Srv(q, o)' = Srv(q, o)
           /\ \A r, u : r \in Peer /\ u # o => Srv(r, u)' = Srv(r, u)
<1>1. /\ serving[p] \in SUBSET [o : Opaque, x : Exch] /\ Other(q) = p
      /\ \A r \in Peer : Other(r) \in Peer
    BY Ends2 DEF TypeOK
<1>2. \A f \in serving[p] : f.o = e.o /\ f.x = e.x => f = e
    BY <1>1
<1>3. e.x \in Srv(q, o)
    BY <1>1 DEF Srv
<1>4. ASSUME b PROVE Srv(q, o)' = Srv(q, o) \ {e.x}
  <2>1. serving'[p] = serving[p] \ {e}
    BY <1>4 DEF TypeOK
  <2>2. Srv(q, o)' = {f.x : f \in {g \in serving[p] \ {e} : g.o = o}}
    BY <1>1, <2>1 DEF Srv
  <2>3. Srv(q, o) = {f.x : f \in {g \in serving[p] : g.o = o}}
    BY <1>1 DEF Srv
  <2> QED
    BY <1>2, <2>2, <2>3
<1>5. ASSUME ~b PROVE Srv(q, o)' = Srv(q, o)
    BY <1>5 DEF Srv
<1>6. ASSUME NEW r \in Peer, NEW u, u # o PROVE Srv(r, u)' = Srv(r, u)
  <2>1. {f \in serving'[Other(r)] : f.o = u}
            = {f \in serving[Other(r)] : f.o = u}
    <3>1. CASE ~b
      BY <3>1
    <3>2. CASE b
      BY <1>1, <1>6, <3>2 DEF TypeOK
    <3> QED
      BY <3>1, <3>2
  <2>2. Srv(r, u)' = {f.x : f \in {g \in serving'[Other(r)] : g.o = u}}
    BY DEF Srv
  <2> QED
    BY <2>1, <2>2, Zenon DEF Srv
<1> QED
    BY <1>3, <1>4, <1>5, <1>6

\* A packet that the other end sends.
LEMMA OtherSends ==
    ASSUME TypeOK, NEW p \in Peer, NEW o \in Opaque, NEW t \in FrameType,
           NEW x \in Exch, Send(p, t, o, x), UNCHANGED rxch
    PROVE  LET q == Other(p)
               k == [t |-> t, o |-> o, x |-> x]
           IN  /\ k \in Packet /\ In(q, o)' = Append(In(q, o), k)
               /\ Out(q, o)' = Out(q, o) /\ Flows(o)
<1> DEFINE q == Other(p)
           k == [t |-> t, o |-> o, x |-> x]
<1>1. k \in Packet /\ q \in Peer /\ q # p
    BY Ends2 DEF Packet
<1>2. Appends(p, o, k)
    BY <1>1, SendInOut
<1> HIDE DEF k
<1>3. In(q, o)' = Append(In(q, o), k) /\ Out(q, o)' = Out(q, o)
    BY <1>1, <1>2 DEF Appends
<1>4. Flows(o)
    BY <1>2 DEF Appends, Flows
<1> QED
    BY <1>1, <1>3, <1>4 DEF k

\* Response(), and Stream() and Close() on a stream opened by the remote.
LEMMA ServeStreams ==
    ASSUME XInv, Disjoint, NEW p \in Peer, NEW e \in serving[p],
           Response(p, e) \/ RemoteMsg(p, e) \/ RemoteClose(p, e)
    PROVE  Streams'
<1>1. PICK t \in {"0x81", "stream", "finish"} :
        /\ Send(p, t, e.o, e.x)
        /\ serving' = IF t # "stream" THEN [serving EXCEPT ![p] = @ \ {e}]
                      ELSE serving
        /\ t \in Answers(e.x)
    BY DEF Response, RemoteMsg, RemoteClose, Answers
<1> DEFINE o == e.o
           x == e.x
           q == Other(p)
           v == View(q, o)
           w == View(q, o)'
           k == [t |-> t, o |-> o, x |-> x]
<1>2. TypeOK /\ Streams /\ Elsewhere
    BY DEF XInv
<1>3. /\ UNCHANGED <<live, rstrm>> /\ UNCHANGED rxch
      /\ UNCHANGED <<cs, done, closed>> /\ UNCHANGED <<pStrms, rxcallb>>
    BY DEF Response, RemoteMsg, RemoteClose
<1>4. /\ q \in Peer /\ Other(q) = p /\ o \in OpaqueOf[q] /\ o \in Opaque
      /\ x \in Exch /\ t \in FrameType
    BY <1>2, Ends2, ExchangeAssumption DEF Elsewhere, TypeOK, FrameType
<1>5. Good(q, v)
    BY <1>2, <1>4 DEF Streams
<1>6. /\ k \in Packet /\ In(q, o)' = Append(In(q, o), k)
      /\ Out(q, o)' = Out(q, o) /\ Flows(o)
  <2>1. Send(p, t, o, x)
    BY <1>1
  <2> HIDE DEF o, x
  <2> QED
    BY <1>2, <1>3, <1>4, <2>1, OtherSends
<1>7. /\ x \in Srv(q, o)
      /\ t # "stream" => Srv(q, o)' = Srv(q, o) \ {x}
      /\ ~(t # "stream") => Srv(q, o)' = Srv(q, o)
      /\ \A r, u : r \in Peer /\ u # o => Srv(r, u)' = Srv(r, u)
  <2> DEFINE b == t # "stream"
  <2>1. /\ b \in BOOLEAN
        /\ serving' = IF b THEN [serving EXCEPT ![p] = @ \ {e}] ELSE serving
    BY <1>1
  <2> HIDE DEF b
  <2>2. /\ x \in Srv(q, o)
        /\ b => Srv(q, o)' = Srv(q, o) \ {x}
        /\ ~b => Srv(q, o)' = Srv(q, o)
        /\ \A r, u : r \in Peer /\ u # o => Srv(r, u)' = Srv(r, u)
    BY <1>2, <2>1, ServedSrv
  <2> QED
    BY <2>2 DEF b
<1>8. \A r, u : Hold(r, u)' = Hold(r, u)
    BY <1>3, HoldSame
<1>9. /\ w.pool = v.pool /\ w.cb = v.cb /\ w.hold = v.hold
      /\ w.shut = v.shut /\ w.live = v.live /\ w.there = v.there
      /\ w.rs = v.rs
    BY <1>3, <1>8, ViewIs, NextViewIs
<1>10. /\ w.in = In(q, o)' /\ v.in = In(q, o)
       /\ w.out = Out(q, o)' /\ v.out = Out(q, o)
       /\ w.srv = Srv(q, o)' /\ v.srv = Srv(q, o)
    BY ViewIs, NextViewIs
<1>11. v.in \in Seq(Item)
    BY <1>2, <1>4, <1>10, OfType
<1>12. k.x = x /\ k.t = t
    OBVIOUS
<1>13. /\ But(o, pStrms, pStrms') /\ But(o, rxcallb, rxcallb')
       /\ But(o, live, live') /\ But(o, rstrm, rstrm')
    BY <1>3, TableSame
<1> HIDE DEF v, w, k, o, x
<1>14. Good(q, w)
  <2>1. SameHome(v, w)
    BY <1>9 DEF SameHome
  <2>2. Ends(k) <=> t # "stream"
    BY <1>12 DEF Ends
  <2>3. w.srv = IF Ends(k) THEN v.srv \ {x} ELSE v.srv
    BY <1>7, <1>10, <2>2
  <2>4. /\ w.in = Append(v.in, k) /\ w.out = v.out /\ x \in v.srv
        /\ k.x = x /\ k.t \in Answers(x)
    BY <1>1, <1>6, <1>7, <1>10, <1>12 DEF x
  <2> QED
    BY <1>5, <1>6, <1>9, <1>11, <2>1, <2>3, <2>4, ServeGood
<1>15. Concerns(o)
    BY <1>3, <1>6, <1>7, <1>8, <1>13 DEF Concerns
<1> QED
    BY <1>2, <1>4, <1>14, <1>15, StreamsNext DEF w

\* doRx() leaves every stream alone.
LEMMA DoRxStreams ==
    ASSUME XInv, NEW p \in Peer, doRx(p)
    PROVE  Streams'
<1>1. TypeOK /\ Streams
    BY DEF XInv
<1> SUFFICES ASSUME NEW r \in Peer, NEW u \in OpaqueOf[r]
             PROVE  Good(r, View(r, u)')
    BY DEF Streams
<1>2. /\ UNCHANGED <<pStrms, rxcallb>> /\ UNCHANGED <<live, rstrm, serving>>
      /\ UNCHANGED <<cs, done, closed>>
    BY DEF doRx
<1>3. Hold(r, u)' = Hold(r, u) /\ Srv(r, u)' = Srv(r, u)
    BY <1>2, HoldSame, TableAlone
<1>4. In(r, u)' = In(r, u) /\ Out(r, u)' = Out(r, u)
    BY <1>1, DoRxInOut
<1>5. Alone(r, u)
    BY <1>2, <1>3 DEF Alone
<1>6. Good(r, View(r, u))
    BY <1>1 DEF Streams
<1> QED
    BY <1>4, <1>5, <1>6, AloneGood

\* The next item for syncRx(): its opaque has a home, at this end or at the
\* other.
LEMMA TakenView ==
    ASSUME XInv, NEW p \in Peer, NEW k, Next_rxpkt(p, k),
           NEW q, q = Other(p), NEW o, o = k.o
    PROVE  /\ k \in Item /\ o \in Opaque /\ q \in Peer /\ Other(q) = p /\ q # p
           /\ o \in OpaqueOf[p] \/ o \in OpaqueOf[q]
           /\ LET v == View(p, o)
              IN  /\ v.in \in Seq(Item) /\ v.out \in Seq(Item)
                  /\ v.in # <<>> /\ Head(v.in) = k
                  /\ o \in OpaqueOf[p] => Good(p, v)
           /\ LET v == View(q, o)
              IN  /\ v.in \in Seq(Item) /\ v.out \in Seq(Item)
                  /\ v.out # <<>> /\ Head(v.out) = k
                  /\ o \in OpaqueOf[q] => Good(q, v)
<1>1. TypeOK /\ Elsewhere /\ Streams
    BY DEF XInv
<1>2. q \in Peer /\ Other(q) = p /\ q # p
    BY Ends2
<1>3. /\ In(p, o) # <<>> /\ Head(In(p, o)) = k
      /\ Out(q, o) # <<>> /\ Head(Out(q, o)) = k
    BY <1>1, TakeInOut
<1>4. o \in Used /\ k \in Item
  <2>1. rxch[p] \in Seq(Item) /\ rxch[p] # <<>> /\ k = rxch[p][1]
    BY <1>1 DEF TypeOK, Next_rxpkt
  <2>2. 1 \in DOMAIN rxch[p] /\ k \in Item
    BY <2>1
  <2> QED
    BY <1>1, <2>1, <2>2 DEF Elsewhere
<1>5. o \in Opaque /\ (o \in OpaqueOf[p] \/ o \in OpaqueOf[q])
    BY <1>4, HomeOf
<1>6. ASSUME NEW r \in Peer
      PROVE  /\ View(r, o).in = In(r, o) /\ View(r, o).out = Out(r, o)
             /\ View(r, o).in \in Seq(Item) /\ View(r, o).out \in Seq(Item)
             /\ o \in OpaqueOf[r] => Good(r, View(r, o))
    BY <1>1, <1>5, ViewIs, OfType DEF Streams
<1> QED
    BY <1>2, <1>3, <1>4, <1>5, <1>6

\* It is taken, and nothing is sent.
LEMMA TakenNext ==
    ASSUME TypeOK, NEW p \in Peer, NEW k, Next_rxpkt(p, k), UNCHANGED wire,
           NEW q, q = Other(p), NEW o, o = k.o
    PROVE  /\ View(p, o)'.in = Tail(View(p, o).in)
           /\ View(p, o)'.out = View(p, o).out
           /\ View(q, o)'.out = Tail(View(q, o).out)
           /\ View(q, o)'.in = View(q, o).in
           /\ Flows(o)
<1>1. q \in Peer /\ q # p
    BY Ends2
<1>2. \A r \in Peer : \A u :
        /\ r = p /\ u = k.o => In(r, u)' = Tail(In(r, u))
        /\ r # p \/ u # k.o => In(r, u)' = In(r, u)
        /\ r = Other(p) /\ u = k.o => Out(r, u)' = Tail(Out(r, u))
        /\ r # Other(p) \/ u # k.o => Out(r, u)' = Out(r, u)
    BY TakeInOut
<1>3. /\ In(p, o)' = Tail(In(p, o)) /\ Out(p, o)' = Out(p, o)
      /\ In(q, o)' = In(q, o) /\ Out(q, o)' = Tail(Out(q, o))
    BY <1>1, <1>2
<1>4. Flows(o)
    BY <1>2 DEF Flows
<1>5. ASSUME NEW r
      PROVE  /\ View(r, o).in = In(r, o) /\ View(r, o).out = Out(r, o)
             /\ View(r, o)'.in = In(r, o)' /\ View(r, o)'.out = Out(r, o)'
    BY ViewIs, NextViewIs
<1> QED
    BY <1>3, <1>4, <1>5

\* The exchanges that a step ends are those of routines that hold a stream.
EndsHeld ==
    \A x \in done' \cup closed' :
        x \in done \cup closed \/ \E c \in Caller : /\ cs[c].pc # "idle"
                                                    /\ cs[c].x = x

\* What syncRx() may do at end p with an item on its own stream o.
HandledHome(p, o) ==
    /\ serving' = serving /\ EndsHeld
    /\ live' = live \/ \E a : live' = [live EXCEPT ![p][o] = a]
    /\ pStrms' = pStrms \/ ToPool(p, o)
    /\ wire' = wire \/ \E x \in Exch : Send(p, "finish", o, x)
    /\ cs' = cs \/ \E c \in Caller : Goto(c, "idle")

\* streamupdate().
LEMMA UpdateStreams ==
    ASSUME XInv, Disjoint, NEW p \in Peer, streamupdate(p)
    PROVE  Streams' /\ \E o \in OpaqueOf[p] : HandledHome(p, o)
<1>1. PICK k \in Update :
        /\ Next_rxpkt(p, k)
        /\ \/ /\ rxcallb[p][k.o] # Nil
              /\ live' = [live EXCEPT ![p][k.o] = "local"]
              /\ pStrms' = pStrms
           \/ /\ rxcallb[p][k.o] = Nil
              /\ live[p][k.o] # "none"
              /\ live' = [live EXCEPT ![p][k.o] = "none"]
              /\ ToPool(p, k.o)
           \/ /\ rxcallb[p][k.o] = Nil
              /\ live[p][k.o] = "none"
              /\ live' = live /\ pStrms' = pStrms
    BY DEF streamupdate
<1> DEFINE o == k.o
           q == Other(p)
           v == View(p, o)
           w == View(p, o)'
<1>2. TypeOK /\ Streams
    BY DEF XInv
<1>3. /\ UNCHANGED <<rxcallb, rstrm, serving>> /\ UNCHANGED wire
      /\ UNCHANGED <<cs, done, closed>>
    BY DEF streamupdate
<1>4. /\ o \in Opaque /\ q \in Peer /\ q # p
      /\ o \in OpaqueOf[p] \/ o \in OpaqueOf[q]
      /\ v.in \in Seq(Item) /\ v.in # <<>> /\ Head(v.in) = k
      /\ o \in OpaqueOf[p] => Good(p, v)
    BY <1>1, TakenView
<1>5. o \in OpaqueOf[p]
  <2> SUFFICES ASSUME o \in OpaqueOf[q] PROVE FALSE
    BY <1>4
  <2> DEFINE z == View(q, o)
  <2>1. /\ z.out \in Seq(Item) /\ z.out # <<>> /\ Head(z.out) = k
        /\ Good(q, z)
    BY <1>1, TakenView
  <2> HIDE DEF z
  <2>2. Head(z.out).t \in FrameType
    BY <2>1, ForOther
  <2> QED
    BY <2>1, <2>2 DEF Update, FrameType
<1>6. w.in = Tail(v.in) /\ w.out = v.out /\ Flows(o)
    BY <1>1, <1>2, <1>3, TakenNext
<1>7. \A r, u : Hold(r, u)' = Hold(r, u) /\ Srv(r, u)' = Srv(r, u)
  <2>1. \A r, u : Srv(r, u)' = Srv(r, u)
    BY <1>3 DEF Srv
  <2> QED
    BY <1>3, <2>1, HoldSame
<1>8. /\ live'[q][o] = live[q][o]
      /\ But(o, live, live') /\ But(o, pStrms, pStrms')
      /\ But(o, rxcallb, rxcallb') /\ But(o, rstrm, rstrm')
  <2>1. live \in [Peer -> [Opaque -> {"none", "local", "remote"}]]
    BY <1>2 DEF TypeOK
  <2>2. live'[q][o] = live[q][o] /\ But(o, live, live')
    BY <1>1, <1>4, <2>1 DEF But
  <2>3. pStrms \in [Peer -> [Opaque -> Nat]]
    BY <1>2 DEF TypeOK
  <2>4. But(o, pStrms, pStrms')
    BY <1>1, <1>4, <2>3 DEF But, ToPool
  <2> QED
    BY <1>3, <2>2, <2>4, TableSame
<1>9. \/ /\ rxcallb[p][o] # Nil
         /\ live'[p][o] = "local" /\ pStrms'[p][o] = pStrms[p][o]
      \/ /\ rxcallb[p][o] = Nil /\ live[p][o] # "none"
         /\ live'[p][o] = "none" /\ pStrms'[p][o] = pStrms[p][o] + 1
      \/ /\ rxcallb[p][o] = Nil /\ live[p][o] = "none"
         /\ live'[p][o] = "none" /\ pStrms'[p][o] = pStrms[p][o]
    BY <1>1, <1>2, <1>4 DEF TypeOK, ToPool
<1>10. /\ w.cb = v.cb /\ w.hold = v.hold /\ w.shut = v.shut
       /\ w.there = v.there /\ w.rs = v.rs /\ w.srv = v.srv
    BY <1>3, <1>7, <1>8, ViewIs, NextViewIs
<1>11. /\ v.cb = rxcallb[p][o] /\ v.live = live[p][o]
       /\ w.live = live'[p][o] /\ v.pool = pStrms[p][o]
       /\ w.pool = pStrms'[p][o]
    BY ViewIs, NextViewIs
<1>12. k.t = "update"
    BY DEF Update
<1> HIDE DEF v, w, o
<1>13. Good(p, w)
  <2>1. SameThere(v, w)
    BY <1>6, <1>10 DEF SameThere
  <2>2. \/ v.cb # Nil /\ w.live = "local" /\ w.pool = v.pool
        \/ /\ v.cb = Nil /\ v.live # "none"
           /\ w.live = "none" /\ w.pool = v.pool + 1
        \/ /\ v.cb = Nil /\ v.live = "none"
           /\ w.live = "none" /\ w.pool = v.pool
    BY <1>9, <1>11
  <2> QED
    BY <1>4, <1>5, <1>6, <1>10, <1>12, <2>1, <2>2, UpdateGood
<1>14. Concerns(o)
    BY <1>3, <1>6, <1>7, <1>8 DEF Concerns
<1>15. HandledHome(p, o)
  <2>1. /\ live' = live \/ \E a : live' = [live EXCEPT ![p][o] = a]
        /\ pStrms' = pStrms \/ ToPool(p, o)
    BY <1>1 DEF o
  <2> QED
    BY <1>3, <2>1 DEF HandledHome, EndsHeld
<1>16. Streams'
    BY <1>2, <1>4, <1>5, <1>13, <1>14, StreamsNext DEF w
<1> QED
    BY <1>5, <1>15, <1>16

\* The application of end p is given stream o of the other end, for x, if b.
Gives(p, o, x, b) ==
    serving' = IF b THEN [serving EXCEPT ![p] = @ \cup {[o |-> o, x |-> x]}]
               ELSE serving

\* What that adds to what the application has to do.
LEMMA GivenSrv ==
    ASSUME TypeOK, NEW p \in Peer, NEW b \in BOOLEAN, NEW q, q = Other(p),
           NEW o, NEW x, Gives(p, o, x, b)
    PROVE  /\ b => Srv(q, o)' = Srv(q, o) \cup {x}
           /\ ~b => Srv(q, o)' = Srv(q, o)
           /\ \A r, u : r \in Peer /\ u # o => Srv(r, u)' = Srv(r, u)
<1> DEFINE e == [o |-> o, x |-> x]
<1>1. Other(q) = p /\ \A r \in Peer : Other(r) \in Peer
    BY Ends2
<1>2. e.o = o /\ e.x = x
    OBVIOUS
<1>3. serving' = IF b THEN [serving EXCEPT ![p] = @ \cup {e}] ELSE serving
    BY DEF Gives
<1> HIDE DEF e
<1>4. ASSUME b PROVE Srv(q, o)' = Srv(q, o) \cup {x}
  <2>1. serving'[p] = serving[p] \cup {e}
    BY <1>3, <1>4 DEF TypeOK
  <2>2. Srv(q, o)' = {f.x : f \in {g \in serving[p] \cup {e} : g.o = o}}
    BY <1>1, <2>1 DEF Srv
  <2>3. Srv(q, o) = {f.x : f \in {g \in serving[p] : g.o = o}}
    BY <1>1 DEF Srv
  <2> QED
    BY <1>2, <2>2, <2>3
<1>5. ASSUME ~b PROVE Srv(q, o)' = Srv(q, o)
    BY <1>3, <1>5 DEF Srv
<1>6. ASSUME NEW r \in Peer, NEW u, u # o PROVE Srv(r, u)' = Srv(r, u)
  <2>1. {f \in serving'[Other(r)] : f.o = u}
            = {f \in serving[Other(r)] : f.o = u}
    <3>1. CASE ~b
      BY <1>3, <3>1
    <3>2. CASE b
      BY <1>1, <1>2, <1>3, <1>6, <3>2 DEF TypeOK
    <3> QED
      BY <3>1, <3>2
  <2>2. Srv(r, u)' = {f.x : f \in {g \in serving'[Other(r)] : g.o = u}}
    BY DEF Srv
  <2> QED
    BY <2>1, <2>2, Zenon DEF Srv
<1> QED
    BY <1>4, <1>5, <1>6

\* handlepkt().
Handles(p) ==
    \/ handleFinish(p) \/ handleOpen(p) \/ handleLive(p) \/ handleDrop(p)

\* What it does at end p with packet k on a stream of the other end: the
\* remote stream in livestreams becomes what k leaves, and the application is
\* given what k opens.
HandledThere(p, o, k) ==
    /\ UNCHANGED <<pStrms, rxcallb>> /\ UNCHANGED <<cs, done, closed>>
    /\ UNCHANGED wire
    /\ But(o, live, live') /\ But(o, rstrm, rstrm')
    /\ live'[Other(p)][o] = live[Other(p)][o]
    /\ \/ After(k) = Nil /\ live'[p][o] = "none"
       \/ /\ After(k) = k.x /\ k.x \in Exch /\ k.x.op = "start"
          /\ live'[p][o] = "remote" /\ rstrm'[p][o] = k.x
    /\ Gives(p, o, k.x, Opens(k))

\* That is what each part of handlepkt() does with a packet that finds what
\* its sender believes to be there.
LEMMA ThereHandled ==
    ASSUME TypeOK, NEW p \in Peer, Handles(p), NEW k, k = Head(rxch[p]),
           NEW o \in Opaque, o = k.o, k \in Packet,
           k.t = "start" => k.x.op = "start",
           k.t \in {"post", "0x81", "start"} => live[p][o] = "none",
           k.t \in {"stream", "finish"} => /\ live[p][o] = "remote"
                                           /\ rstrm[p][o] = k.x
                                           /\ k.x.op = "start"
    PROVE  HandledThere(p, o, k)
<1>1. /\ live \in [Peer -> [Opaque -> {"none", "local", "remote"}]]
      /\ rstrm \in [Peer -> [Opaque -> Exch \cup {Nil}]]
    BY DEF TypeOK
<1>2. Other(p) \in Peer /\ Other(p) # p
    BY Ends2
<1>3. k.t \in FrameType /\ k.x \in Exch /\ k.x # Nil
    BY NilNoExch DEF Packet
<1>4. ASSUME live[p][o] = "remote", rstrm[p][o] = k.x, k.x.op = "start"
      PROVE  Callback(p, o) = k.x
    BY <1>4 DEF Callback
<1>5. CASE handleFinish(p)
  <2>1. /\ k.t = "finish" /\ live[p][o] = "remote" /\ rstrm[p][o] = k.x
        /\ k.x.op = "start"
    BY <1>5 DEF handleFinish
  <2>2. Callback(p, Head(rxch[p]).o) = k.x
    BY <1>4, <2>1
  <2>3. /\ UNCHANGED <<pStrms, rxcallb>> /\ UNCHANGED <<cs, done, closed>>
        /\ UNCHANGED <<wire, rstrm, serving>>
        /\ live' = [live EXCEPT ![p][o] = "none"]
    BY <1>5, <2>1, <2>2 DEF handleFinish
  <2>4. After(k) = Nil /\ ~Opens(k)
    BY <2>1 DEF After, Opens
  <2>5. But(o, rstrm, rstrm')
    BY <2>3, TableSame
  <2>6. /\ live'[p][o] = "none" /\ live'[Other(p)][o] = live[Other(p)][o]
        /\ But(o, live, live')
    BY <1>1, <1>2, <2>3 DEF But
  <2> QED
    BY <2>3, <2>4, <2>5, <2>6 DEF HandledThere, Gives
<1>6. CASE handleOpen(p)
  <2>1. /\ UNCHANGED <<pStrms, rxcallb>> /\ UNCHANGED <<cs, done, closed>>
        /\ UNCHANGED wire /\ live[p][o] = "none"
        /\ k.t \in {"post", "0x81", "start"}
        /\ serving' =
               IF k.t = "post" THEN serving
               ELSE [serving EXCEPT ![p] = @ \cup {[o |-> o, x |-> k.x]}]
    BY <1>6 DEF handleOpen
  <2>2. Gives(p, o, k.x, Opens(k))
    BY <2>1 DEF Opens, Gives
  <2>3. CASE k.t = "start"
    <3>1. /\ live' = [live EXCEPT ![p][o] = "remote"]
          /\ rstrm' = [rstrm EXCEPT ![p][o] = k.x]
      BY <1>6, <2>3 DEF handleOpen
    <3>2. /\ live'[p][o] = "remote" /\ live'[Other(p)][o] = live[Other(p)][o]
          /\ But(o, live, live')
      BY <1>1, <1>2, <3>1 DEF But
    <3>3. rstrm'[p][o] = k.x /\ But(o, rstrm, rstrm')
      BY <1>1, <1>2, <3>1 DEF But
    <3>4. After(k) = k.x
      BY <2>3 DEF After
    <3> QED
      BY <1>3, <2>1, <2>2, <2>3, <3>2, <3>3, <3>4 DEF HandledThere
  <2>4. CASE k.t # "start"
    <3>1. UNCHANGED <<live, rstrm>>
      BY <1>6, <2>4 DEF handleOpen
    <3>2. After(k) = Nil
      BY <2>1, <2>4 DEF After
    <3>3. But(o, live, live') /\ But(o, rstrm, rstrm')
      BY <3>1, TableSame
    <3> QED
      BY <2>1, <2>2, <3>1, <3>2, <3>3 DEF HandledThere
  <2> QED
    BY <2>3, <2>4
<1>7. CASE handleLive(p)
  <2>1. /\ k.t = "stream" /\ live[p][o] = "remote" /\ rstrm[p][o] = k.x
        /\ k.x.op = "start"
    BY <1>7 DEF handleLive, FrameType
  <2>2. Callback(p, Head(rxch[p]).o) = k.x
    BY <1>4, <2>1
  <2>3. /\ UNCHANGED <<pStrms, rxcallb>> /\ UNCHANGED <<cs, done, closed>>
        /\ UNCHANGED <<wire, serving>> /\ UNCHANGED <<live, rstrm>>
    BY <1>7, <2>1, <2>2 DEF handleLive
  <2>4. After(k) = k.x /\ ~Opens(k)
    BY <2>1 DEF After, Opens
  <2>5. But(o, live, live') /\ But(o, rstrm, rstrm')
    BY <2>3, TableSame
  <2> QED
    BY <1>3, <2>1, <2>3, <2>4, <2>5 DEF HandledThere, Gives
<1>8. ~handleDrop(p)
    BY DEF handleDrop
<1> QED
    BY <1>5, <1>6, <1>7, <1>8 DEF Handles

\* Then the stream stays as it has to be, and so do the others.
LEMMA ThereStreams ==
    ASSUME XInv, Disjoint, NEW p \in Peer, Handles(p), NEW k,
           k = Head(rxch[p]), NEW o, o = k.o, o \in OpaqueOf[Other(p)]
    PROVE  Streams' /\ HandledThere(p, o, k)
<1> DEFINE q == Other(p)
           v == View(q, o)
           w == View(q, o)'
<1>1. TypeOK /\ Streams /\ Next_rxpkt(p, k)
    BY DEF XInv, Handles, handleFinish, handleOpen, handleLive, handleDrop
<1>2. /\ o \in Opaque /\ q \in Peer /\ q # p /\ Other(q) = p
      /\ v.in \in Seq(Item) /\ v.out \in Seq(Item)
      /\ v.out # <<>> /\ Head(v.out) = k /\ Good(q, v)
    BY <1>1, TakenView
<1>3. v.there = live[p][o] /\ v.rs = rstrm[p][o]
    BY <1>2, ViewIs
<1> HIDE DEF v, w
<1>4. /\ k \in Packet
      /\ k.t = "start" => k.x.op = "start"
      /\ k.t \in {"post", "0x81", "start"} => v.there = "none"
      /\ k.t \in {"stream", "finish"} => /\ v.there = "remote"
                                         /\ v.rs = k.x
                                         /\ k.x.op = "start"
  <2>1. LET m == Head(v.out) IN
        /\ m \in Packet
        /\ m.t = "start" => m.x.op = "start"
        /\ m.t \in {"post", "0x81", "start"} => v.there = "none"
        /\ m.t \in {"stream", "finish"} => /\ v.there = "remote"
                                           /\ v.rs = m.x
                                           /\ m.x.op = "start"
    BY <1>2, ForOther
  <2> QED
    BY <1>2, <2>1
<1>5. HandledThere(p, o, k)
    BY <1>1, <1>2, <1>3, <1>4, ThereHandled
<1>6. /\ UNCHANGED <<pStrms, rxcallb>> /\ UNCHANGED <<cs, done, closed>>
      /\ UNCHANGED wire
      /\ But(o, live, live') /\ But(o, rstrm, rstrm')
      /\ live'[q][o] = live[q][o]
    BY <1>5 DEF HandledThere
<1>7. /\ Opens(k) => Srv(q, o)' = Srv(q, o) \cup {k.x}
      /\ ~Opens(k) => Srv(q, o)' = Srv(q, o)
      /\ \A r, u : r \in Peer /\ u # o => Srv(r, u)' = Srv(r, u)
  <2> DEFINE b == Opens(k)
             x == k.x
  <2>1. b \in BOOLEAN /\ Gives(p, o, x, b) /\ q = Other(p)
    BY <1>5 DEF HandledThere, Opens
  <2> HIDE DEF b, x, q
  <2>2. /\ b => Srv(q, o)' = Srv(q, o) \cup {x}
        /\ ~b => Srv(q, o)' = Srv(q, o)
        /\ \A r, u : r \in Peer /\ u # o => Srv(r, u)' = Srv(r, u)
    BY <1>1, <2>1, GivenSrv
  <2> QED
    BY <2>2 DEF b, x
<1>8. \A r, u : Hold(r, u)' = Hold(r, u)
    BY <1>6, HoldSame
<1>9. w.out = Tail(v.out) /\ w.in = v.in /\ Flows(o)
    BY <1>1, <1>6, TakenNext DEF v, w
<1>10. /\ w.pool = v.pool /\ w.cb = v.cb /\ w.hold = v.hold
       /\ w.shut = v.shut /\ w.live = v.live
    BY <1>6, <1>8, ViewIs, NextViewIs DEF v, w
<1>11. /\ w.there = live'[p][o] /\ w.rs = rstrm'[p][o]
       /\ v.srv = Srv(q, o) /\ w.srv = Srv(q, o)'
    BY <1>2, ViewIs, NextViewIs DEF v, w
<1>12. Good(q, w)
  <2>1. SameHome(v, w)
    BY <1>10 DEF SameHome
  <2>2. \/ After(k) = Nil /\ w.there = "none"
        \/ /\ After(k) = k.x /\ k.x \in Exch /\ k.x.op = "start"
           /\ w.there = "remote" /\ w.rs = k.x
    BY <1>5, <1>11 DEF HandledThere
  <2>3. /\ w.there \in {"none", "remote"}
        /\ w.there = "remote" => w.rs \in Exch /\ w.rs.op = "start"
        /\ Cur(w) = After(Head(v.out))
    BY <1>2, <2>2 DEF Cur
  <2>4. w.srv = IF Opens(Head(v.out)) THEN v.srv \cup {Head(v.out).x}
                ELSE v.srv
    BY <1>2, <1>7, <1>11
  <2> QED
    BY <1>2, <1>9, <2>1, <2>3, <2>4, OutGood
<1>13. But(o, pStrms, pStrms') /\ But(o, rxcallb, rxcallb')
    BY <1>6, TableSame
<1>14. Concerns(o)
    BY <1>6, <1>7, <1>8, <1>9, <1>13 DEF Concerns
<1> QED
    BY <1>1, <1>2, <1>5, <1>12, <1>14, StreamsNext DEF w

\* A packet for the home of its opaque: which exchange it belongs to, what
\* livestreams has for it, and who holds the stream.
LEMMA HomePacket ==
    ASSUME XInv, NEW p \in Peer, NEW k, Next_rxpkt(p, k), k.t # "update",
           NEW o, o = k.o, o \in OpaqueOf[p], NEW x, x = k.x
    PROVE  /\ x \in Exch /\ x.op \in {"request", "start"}
           /\ k.t \in Answers(x) /\ rxcallb[p][o] = Cb(x)
           /\ live[p][o] = IF Cb(x) # Nil THEN "local" ELSE "none"
           /\ \/ /\ Hold(p, o) = {} /\ x.op = "start"
                 /\ Cb(x) = Nil \/ x \in closed
              \/ \E c \in Caller :
                    /\ cs[c].pc # "idle" /\ cs[c].o = o /\ Home[c] = p
                    /\ cs[c].x = x /\ x.c = c
                    /\ x.op = "request" => cs[c].pc = "wait"
                    /\ x.op = "start" => x \notin closed
<1> DEFINE v == View(p, o)
<1>1. /\ v.in \in Seq(Item) /\ v.in # <<>> /\ Head(v.in) = k /\ Good(p, v)
    BY TakenView
<1>2. /\ v.cb = rxcallb[p][o] /\ v.live = live[p][o] /\ v.hold = Hold(p, o)
    BY ViewIs
<1>3. v.shut = (rxcallb[p][o] \in closed)
    BY ViewIs
<1> HIDE DEF v
<1>4. /\ x \in Exch /\ Home[x.c] = p /\ x.op \in {"request", "start"}
      /\ k.t \in Answers(x) /\ Owed(v, x) /\ v.pool = 0
      /\ v.cb = Cb(x)
      /\ v.live = IF Cb(x) # Nil THEN "local" ELSE "none"
      /\ \/ /\ v.hold = {} /\ Left(p, v)
            /\ x.op = "start" /\ (Cb(x) = Nil \/ v.shut)
         \/ \E h \in v.hold :
               /\ v.hold = {h} /\ h.x = x /\ h.x.c = h.c
               /\ (Waiting(v, h) /\ ~h.told) \/ Owning(v, h)
    BY <1>1, ForHome
<1>5. /\ x \in Exch /\ x.op \in {"request", "start"}
      /\ k.t \in Answers(x) /\ rxcallb[p][o] = Cb(x)
      /\ live[p][o] = IF Cb(x) # Nil THEN "local" ELSE "none"
    BY <1>2, <1>4
<1>6. CASE v.hold = {} /\ x.op = "start" /\ (Cb(x) = Nil \/ v.shut)
  <2>1. Cb(x) = Nil \/ x \in closed
    <3>1. Cb(x) = Nil \/ Cb(x) = x
      BY DEF Cb
    <3>2. v.shut => rxcallb[p][o] \in closed
      BY <1>3, Zenon
    <3> QED
      BY <1>5, <1>6, <3>1, <3>2
  <2> QED
    BY <1>2, <1>5, <1>6, <2>1
<1>7. CASE \E h \in v.hold :
             /\ v.hold = {h} /\ h.x = x /\ h.x.c = h.c
             /\ (Waiting(v, h) /\ ~h.told) \/ Owning(v, h)
  <2>1. PICK h \in v.hold :
             /\ v.hold = {h} /\ h.x = x /\ h.x.c = h.c
             /\ (Waiting(v, h) /\ ~h.told) \/ Owning(v, h)
    BY <1>7
  <2>2. PICK c \in Caller : Holds(c, p, o) /\ h = Holder(c)
    BY <1>2, <2>1 DEF Hold
  <2>3. /\ cs[c].pc # "idle" /\ cs[c].o = o /\ Home[c] = p
    BY <2>2 DEF Holds
  <2>4. /\ h.c = c /\ h.pc = cs[c].pc /\ h.x = cs[c].x
        /\ h.shut = (cs[c].x \in closed)
    BY <2>2 DEF Holder
  <2>5. /\ x.op = "request" => h.pc = "wait"
        /\ x.op = "start" => ~h.shut
    BY <2>1 DEF Waiting, Owning
  <2>6. cs[c].x = x /\ x.c = c
    BY <2>1, <2>4
  <2>7. x.op = "start" => x \notin closed
    BY <2>4, <2>5, <2>6, Zenon
  <2>8. x.op = "request" => cs[c].pc = "wait"
    BY <2>4, <2>5
  <2> QED
    BY <1>5, <2>3, <2>6, <2>7, <2>8
<1> QED
    BY <1>4, <1>6, <1>7

\* handlepkt() of a packet that changes nothing: one on a stream with a nil
\* callback, or a message on a stream.
LEMMA NothingStreams ==
    ASSUME XInv, Disjoint, NEW p \in Peer, NEW k, Next_rxpkt(p, k),
           k.t # "update", NEW o, o = k.o, o \in OpaqueOf[p],
           k.t = "stream" \/ Cb(k.x) = Nil,
           UNCHANGED wire, UNCHANGED <<live, rstrm, serving>>,
           UNCHANGED <<pStrms, rxcallb>>, UNCHANGED <<cs, done, closed>>
    PROVE  Streams'
<1> DEFINE v == View(p, o)
           w == View(p, o)'
<1>1. TypeOK /\ Streams /\ o \in Opaque
    BY ExchangeAssumption DEF XInv
<1>2. /\ v.in \in Seq(Item) /\ v.in # <<>> /\ Head(v.in) = k /\ Good(p, v)
    BY TakenView
<1>3. w.in = Tail(v.in) /\ w.out = v.out /\ Flows(o)
    BY <1>1, TakenNext
<1>4. \A r, u : Hold(r, u)' = Hold(r, u)
    BY HoldSame
<1>5. /\ w.live = v.live /\ w.there = v.there /\ w.rs = v.rs
      /\ w.srv = v.srv /\ But(o, live, live') /\ But(o, rstrm, rstrm')
      /\ \A r, u : Srv(r, u)' = Srv(r, u)
    BY TableAlone
<1>6. /\ w.pool = v.pool /\ w.cb = v.cb /\ w.hold = v.hold
      /\ w.shut = v.shut
    BY <1>4, ViewIs, NextViewIs
<1>7. But(o, pStrms, pStrms') /\ But(o, rxcallb, rxcallb')
    BY TableSame
<1> HIDE DEF v, w
<1>8. SameThere(v, w) /\ SameHome(v, w)
    BY <1>3, <1>5, <1>6 DEF SameThere, SameHome
<1>9. Good(p, w)
    BY <1>2, <1>3, <1>8, MessageGood
<1>10. Concerns(o)
    BY <1>3, <1>4, <1>5, <1>7 DEF Concerns
<1> QED
    BY <1>1, <1>9, <1>10, StreamsNext DEF w

\* handlepkt() of a response.
LEMMA ReplyStreams ==
    ASSUME XInv, Disjoint, NEW p \in Peer, NEW k, Next_rxpkt(p, k),
           k.t = "0x81", NEW o, o = k.o, o \in OpaqueOf[p],
           NEW c \in Caller, cs[c].pc = "wait", cs[c].o = o, Home[c] = p,
           done' = done \cup {cs[c].x},
           UNCHANGED wire, UNCHANGED <<live, rstrm, serving>>,
           UNCHANGED <<pStrms, rxcallb>>, UNCHANGED <<cs, closed>>
    PROVE  Streams'
<1> DEFINE v == View(p, o)
           w == View(p, o)'
           h == Holder(c)
           g == Holder(c)'
           l == "wait"
<1>1. TypeOK /\ Streams /\ o \in Opaque
    BY ExchangeAssumption DEF XInv
<1>2. /\ v.in \in Seq(Item) /\ v.in # <<>> /\ Head(v.in) = k /\ Good(p, v)
  <2>1. PICK q : q = Other(p)
    OBVIOUS
  <2> QED
    BY <2>1, TakenView
<1>3. w.in = Tail(v.in) /\ w.out = v.out /\ Flows(o)
    BY <1>1, TakenNext
<1>4. Goto(c, l) /\ l \in Pc /\ cs[c].pc # "idle" /\ closed' = closed
    BY <1>1 DEF Goto, TypeOK, Pc
<1>5. h \in v.hold /\ h.pc = cs[c].pc /\ h.x = cs[c].x
    BY <1>4, CallerView
<1> HIDE DEF l
<1>6. /\ w.hold = IF l = "idle" THEN {} ELSE {g}
      /\ g.c = h.c /\ g.pc = l /\ g.x = h.x
      /\ h.x \in done' => g.told
      /\ \A r, u : u # o => Hold(r, u)' = Hold(r, u)
  <2>1. /\ done' = done \cup {cs[c].x} /\ closed' = closed
        /\ Goto(c, l) /\ l \in Pc /\ cs[c].pc # "idle" /\ o = cs[c].o
    BY <1>4
  <2> QED
    BY <2>1, CallerMoves
<1>7. /\ w.live = v.live /\ w.there = v.there /\ w.rs = v.rs
      /\ w.srv = v.srv /\ But(o, live, live') /\ But(o, rstrm, rstrm')
      /\ \A r, u : Srv(r, u)' = Srv(r, u)
    BY TableAlone
<1>8. w.pool = v.pool /\ w.cb = v.cb
    BY ViewIs, NextViewIs
<1>9. But(o, pStrms, pStrms') /\ But(o, rxcallb, rxcallb')
    BY TableSame
<1> HIDE DEF v, w, h, g
<1>10. Good(p, w)
  <2>1. SameThere(v, w)
    BY <1>3, <1>7 DEF SameThere
  <2>2. w.hold = {g} /\ g.pc = h.pc
    BY <1>5, <1>6 DEF l
  <2>3. g.told
    BY <1>5, <1>6
  <2> QED
    BY <1>2, <1>3, <1>5, <1>6, <1>7, <1>8, <2>1, <2>2, <2>3, ReplyGood
<1>11. Concerns(o)
    BY <1>3, <1>4, <1>6, <1>7, <1>9 DEF Concerns
<1> QED
    BY <1>1, <1>10, <1>11, StreamsNext DEF w

\* A routine is done with its stream, which it has closed.
Gone(c, p, o, x) ==
    /\ cs[c].o = o /\ Home[c] = p /\ cs[c].x = x
    /\ Goto(c, "idle") /\ done' = done /\ closed' = closed \cup {x}

\* Nobody holds it then.
LEMMA CallerGone ==
    ASSUME XInv, NEW c \in Caller, cs[c].pc # "idle", NEW p, NEW o, NEW x,
           Gone(c, p, o, x)
    PROVE  /\ View(p, o)'.hold = {}
           /\ \A r, u : u # o => Hold(r, u)' = Hold(r, u)
<1> DEFINE l == "idle"
<1>1. /\ done' = done /\ closed' = closed \cup {cs[c].x}
      /\ Goto(c, l) /\ l \in Pc /\ o = cs[c].o /\ Home[c] = p
    BY DEF Pc, Gone
<1> HIDE DEF l
<1>2. /\ View(Home[c], o)'.hold = IF l = "idle" THEN {} ELSE {Holder(c)'}
      /\ \A r, u : u # o => Hold(r, u)' = Hold(r, u)
    BY <1>1, CallerMoves
<1> QED
    BY <1>1, <1>2 DEF l

\* handlepkt() of a finish on a stream in livestreams of its home: the stream
\* goes to the pool, and its owner, if it has one, answers.
LEMMA FinishStreams ==
    ASSUME XInv, Disjoint, NEW p \in Peer, NEW k, Next_rxpkt(p, k),
           k.t = "finish", NEW o, o = k.o, o \in OpaqueOf[p],
           NEW x \in Exch, x = k.x, live[p][o] # "none",
           live' = [live EXCEPT ![p][o] = "none"], ToPool(p, o),
           UNCHANGED <<rxcallb, rstrm, serving>>, done' = done,
           \/ /\ Hold(p, o) = {} /\ UNCHANGED wire /\ UNCHANGED <<cs, closed>>
           \/ \E c \in Caller :
                /\ cs[c].pc # "idle" /\ cs[c].o = o /\ Home[c] = p
                /\ cs[c].x = x
                /\ Send(p, "finish", o, x) /\ Goto(c, "idle")
                /\ closed' = closed \cup {x}
    PROVE  Streams'
<1> DEFINE q == Other(p)
           v == View(p, o)
           w == View(p, o)'
           m == [t |-> "finish", o |-> o, x |-> x]
<1>1. TypeOK /\ Streams /\ o \in Opaque /\ q \in Peer /\ q # p
    BY ExchangeAssumption, Ends2 DEF XInv
<1>2. /\ v.in \in Seq(Item) /\ v.in # <<>> /\ Head(v.in) = k /\ Good(p, v)
      /\ v.out \in Seq(Item)
  <2>1. PICK r : r = Other(p)
    OBVIOUS
  <2> QED
    BY <2>1, TakenView
<1>3. /\ live'[p][o] = "none" /\ live'[q][o] = live[q][o]
      /\ But(o, live, live')
  <2>1. live \in [Peer -> [Opaque -> {"none", "local", "remote"}]]
    BY <1>1 DEF TypeOK
  <2> QED
    BY <1>1, <2>1 DEF But
<1>4. pStrms'[p][o] = pStrms[p][o] + 1 /\ But(o, pStrms, pStrms')
    BY <1>1 DEF TypeOK, But, ToPool
<1>5. But(o, rxcallb, rxcallb') /\ But(o, rstrm, rstrm')
    BY TableSame
<1>6. \A r, u : Srv(r, u)' = Srv(r, u)
    BY DEF Srv
<1>7. /\ w.live = "none" /\ w.pool = v.pool + 1 /\ w.there = v.there
      /\ w.rs = v.rs /\ w.srv = v.srv /\ v.live # "none"
    BY <1>3, <1>4, <1>6, ViewIs, NextViewIs
<1>8. v.hold = Hold(p, o) /\ w.hold = Hold(p, o)'
    BY ViewIs, NextViewIs
<1>9. /\ v.in = In(p, o) /\ v.out = Out(p, o)
      /\ w.in = In(p, o)' /\ w.out = Out(p, o)'
    BY ViewIs, NextViewIs
<1>10. m \in Packet /\ m.t = "finish" /\ m.x = k.x
    BY <1>1 DEF Packet, FrameType
<1>11. CASE Hold(p, o) = {} /\ UNCHANGED wire /\ UNCHANGED <<cs, closed>>
  <2>1. \A r, u : Hold(r, u)' = Hold(r, u)
    BY <1>11, HoldSame
  <2>2. w.in = Tail(v.in) /\ w.out = v.out /\ Flows(o)
    BY <1>1, <1>11, TakenNext
  <2> HIDE DEF v, w, m
  <2>3. SameThere(v, w) /\ v.hold = {} /\ w.hold = {}
    BY <1>7, <1>8, <1>11, <2>1, <2>2 DEF SameThere
  <2>4. Good(p, w)
    BY <1>2, <1>7, <1>10, <2>2, <2>3, FinishGood
  <2>5. closed' = closed
    BY <1>11
  <2>6. Concerns(o)
    BY <1>3, <1>4, <1>5, <1>6, <2>1, <2>2, <2>5 DEF Concerns
  <2> QED
    BY <1>1, <2>4, <2>6, StreamsNext DEF w
<1>12. CASE \E c \in Caller :
              /\ cs[c].pc # "idle" /\ cs[c].o = o /\ Home[c] = p
              /\ cs[c].x = x
              /\ Send(p, "finish", o, x) /\ Goto(c, "idle")
              /\ closed' = closed \cup {x}
  <2>1. PICK c \in Caller :
              /\ cs[c].pc # "idle" /\ cs[c].o = o /\ Home[c] = p
              /\ cs[c].x = x
              /\ Send(p, "finish", o, x) /\ Goto(c, "idle")
              /\ closed' = closed \cup {x}
    BY <1>12
  <2>2. cs[c].pc # "idle" /\ Gone(c, p, o, x)
    BY <2>1 DEF Gone
  <2>3. v.hold # {}
    BY <2>1, CallerView
  <2>4. w.hold = {} /\ \A r, u : u # o => Hold(r, u)' = Hold(r, u)
    BY <2>2, CallerGone
  <2>5. /\ In(p, o)' = Tail(In(p, o)) /\ Out(p, o)' = Append(Out(p, o), m)
        /\ Flows(o)
    <3>1. Send(p, "finish", k.o, x) /\ "finish" \in FrameType
      BY <2>1 DEF FrameType
    <3>2. /\ In(p, k.o)' = Tail(In(p, k.o))
          /\ Out(p, k.o)' = Append(Out(p, k.o),
                                   [t |-> "finish", o |-> k.o, x |-> x])
          /\ Flows(k.o)
      BY <1>1, <3>1, TakeSendInOut
    <3> QED
      BY <3>2
  <2> HIDE DEF v, w, m
  <2>6. Sent(v, w, m) /\ w.in = Tail(v.in) /\ w.hold = {}
    BY <1>7, <1>9, <2>4, <2>5 DEF Sent
  <2>7. Good(p, w)
    BY <1>2, <1>7, <1>10, <2>3, <2>6, FinishGood
  <2>8. closed \subseteq closed'
    BY <2>1
  <2>9. Concerns(o)
    BY <1>3, <1>4, <1>5, <1>6, <2>4, <2>5, <2>8 DEF Concerns
  <2> QED
    BY <1>1, <2>7, <2>9, StreamsNext DEF w
<1> QED
    BY <1>11, <1>12

\* handlepkt() of a packet at the home of its opaque.
LEMMA HomeStreams ==
    ASSUME XInv, Disjoint, ~DeferredClose, NEW p \in Peer, Handles(p), NEW k,
           k = Head(rxch[p]), NEW o, o = k.o, o \in OpaqueOf[p]
    PROVE  Streams' /\ HandledHome(p, o)
<1>1. TypeOK /\ Next_rxpkt(p, k) /\ k.t \in FrameType /\ k.t # "update"
    BY DEF XInv, Handles, handleFinish, handleOpen, handleLive, handleDrop,
           FrameType
<1>2. PICK x : x = k.x
    OBVIOUS
<1>3. /\ x \in Exch /\ x.op \in {"request", "start"}
      /\ k.t \in Answers(x) /\ rxcallb[p][o] = Cb(x)
      /\ live[p][o] = IF Cb(x) # Nil THEN "local" ELSE "none"
      /\ \/ /\ Hold(p, o) = {} /\ x.op = "start"
            /\ Cb(x) = Nil \/ x \in closed
         \/ \E c \in Caller :
               /\ cs[c].pc # "idle" /\ cs[c].o = o /\ Home[c] = p
               /\ cs[c].x = x /\ x.c = c
               /\ x.op = "request" => cs[c].pc = "wait"
               /\ x.op = "start" => x \notin closed
    BY <1>1, <1>2, HomePacket
<1>4. Cb(x) \in {x, Nil} /\ x # Nil /\ (x.op = "request" => Cb(x) = x)
    BY <1>3, NilNoExch DEF Cb
<1>5. /\ k.t = "0x81" => x.op = "request"
      /\ k.t \in {"stream", "finish"} => x.op = "start"
      /\ k.t \in {"0x81", "stream", "finish"}
    BY <1>3 DEF Answers
<1>6. live[p][o] # "none" => live[p][o] = "local" /\ Callback(p, o) = x
    BY <1>3, <1>4 DEF Callback
<1>7. CASE handleOpen(p)
    BY <1>3, <1>4, <1>5, <1>7 DEF handleOpen
<1>8. CASE handleDrop(p)
  <2>1. /\ live[p][o] = "none" /\ UNCHANGED wire
        /\ UNCHANGED <<live, rstrm, serving>>
        /\ UNCHANGED <<pStrms, rxcallb>> /\ UNCHANGED <<cs, done, closed>>
    BY <1>8 DEF handleDrop
  <2>2. Cb(k.x) = Nil
    BY <1>2, <1>3, <2>1
  <2>3. Streams'
    BY <1>1, <2>1, <2>2, NothingStreams
  <2> QED
    BY <2>1, <2>3 DEF HandledHome, EndsHeld
<1>9. CASE handleLive(p)
  <2>1. /\ live[p][o] # "none" /\ k.t # "finish"
        /\ Callback(p, Head(rxch[p]).o) = x
        /\ UNCHANGED wire /\ UNCHANGED <<live, rstrm, serving>>
        /\ UNCHANGED <<pStrms, rxcallb>> /\ UNCHANGED <<cs, closed>>
        /\ UNCHANGED cs /\ UNCHANGED closed
    BY <1>6, <1>9 DEF handleLive
  <2>2. done' = IF x.op = "request" THEN done \cup {x} ELSE done
    BY <1>4, <1>9, <2>1 DEF handleLive
  <2>3. CASE k.t = "stream"
    <3>1. UNCHANGED <<cs, done, closed>>
      BY <1>5, <2>1, <2>2, <2>3
    <3>2. Streams'
      BY <1>1, <2>1, <2>3, <3>1, NothingStreams
    <3> QED
      BY <2>1, <3>1, <3>2 DEF HandledHome, EndsHeld
  <2>4. CASE k.t = "0x81"
    <3>1. x.op = "request" /\ done' = done \cup {x}
      BY <1>5, <2>2, <2>4
    <3>2. PICK c \in Caller :
               /\ cs[c].pc = "wait" /\ cs[c].o = o /\ Home[c] = p
               /\ cs[c].x = x
      BY <1>3, <3>1
    <3>3. done' = done \cup {cs[c].x}
      BY <3>1, <3>2
    <3>4. Streams'
      BY <1>1, <2>1, <2>4, <3>2, <3>3, ReplyStreams
    <3>5. EndsHeld
      BY <2>1, <3>2, <3>3 DEF EndsHeld
    <3> QED
      BY <2>1, <3>4, <3>5 DEF HandledHome
  <2> QED
    BY <1>5, <2>1, <2>3, <2>4
<1>10. CASE handleFinish(p)
  <2>1. /\ live[p][o] # "none" /\ live[p][o] = "local" /\ k.t = "finish"
        /\ Callback(p, Head(rxch[p]).o) = x /\ x.op = "start"
        /\ live' = [live EXCEPT ![p][o] = "none"] /\ ToPool(p, o)
        /\ UNCHANGED <<rxcallb, rstrm, serving>>
    BY <1>5, <1>6, <1>10 DEF handleFinish
  <2>2. done' = done
    BY <1>10, <2>1 DEF handleFinish
  <2>3. \/ /\ x \notin closed /\ Send(p, "finish", o, x)
           /\ closed' = closed \cup {x} /\ Goto(x.c, "idle")
        \/ x \in closed /\ UNCHANGED wire /\ UNCHANGED <<cs, closed>>
    BY <1>4, <1>10, <2>1 DEF handleFinish
  <2>4. CASE x \in closed
    <3>1. Hold(p, o) = {} /\ UNCHANGED wire /\ UNCHANGED <<cs, closed>>
      BY <1>3, <2>1, <2>3, <2>4
    <3>2. Streams'
      BY <1>1, <1>2, <1>3, <2>1, <2>2, <3>1, FinishStreams
    <3> QED
      BY <2>1, <2>2, <3>1, <3>2 DEF HandledHome, EndsHeld
  <2>5. CASE x \notin closed
    <3>1. PICK c \in Caller :
               /\ cs[c].pc # "idle" /\ cs[c].o = o /\ Home[c] = p
               /\ cs[c].x = x /\ x.c = c
      BY <1>3, <1>4, <2>1, <2>5
    <3>2. /\ Send(p, "finish", o, x) /\ Goto(c, "idle")
          /\ closed' = closed \cup {x}
      BY <2>3, <2>5, <3>1
    <3>3. Streams'
      BY <1>1, <1>2, <1>3, <2>1, <2>2, <3>1, <3>2, FinishStreams
    <3>4. EndsHeld
      BY <2>2, <3>1, <3>2 DEF EndsHeld
    <3>5. wire' = wire \/ \E y \in Exch : Send(p, "finish", o, y)
      BY <1>3, <3>2
    <3> QED
      BY <2>1, <3>2, <3>3, <3>4, <3>5 DEF HandledHome
  <2> QED
    BY <2>4, <2>5
<1> QED
    BY <1>7, <1>8, <1>9, <1>10 DEF Handles

-----------------------------------------------------------------------------
(* The rest of the invariant. *)

\* Numbers, when no exchange is begun.
LEMMA NumbersNext ==
    ASSUME TypeOK, Numbers, nexch' = nexch, EndsHeld,
           \/ cs' = cs
           \/ \E c \in Caller : \E l :
                  Goto(c, l) /\ (cs[c].pc # "idle" \/ l = "idle")
    PROVE  Numbers'
<1>1. ASSUME NEW d \in Caller, cs'[d].pc # "idle"
      PROVE  cs[d].pc # "idle" /\ cs'[d].x = cs[d].x
  <2>1. CASE cs' = cs
    BY <1>1, <2>1
  <2>2. ASSUME NEW c \in Caller, NEW l, Goto(c, l),
               cs[c].pc # "idle" \/ l = "idle"
        PROVE  cs[d].pc # "idle" /\ cs'[d].x = cs[d].x
    <3>1. /\ d # c => cs'[d] = cs[d]
          /\ d = c => cs'[d].pc = l /\ cs'[d].x = cs[d].x
      BY <2>2 DEF Goto, TypeOK
    <3> QED
      BY <1>1, <2>2, <3>1
  <2> QED
    BY <2>1, <2>2
<1>2. \A d \in Caller : cs'[d].pc # "idle" =>
          cs'[d].x.c = d /\ cs'[d].x.n =< nexch'
    BY <1>1 DEF Numbers
<1>3. \A x \in done' \cup closed' : x.n =< nexch'
    BY DEF Numbers, EndsHeld
<1> QED
    BY <1>2, <1>3 DEF Numbers

\* And when one is.
LEMMA NumbersGet ==
    ASSUME TypeOK, Numbers, NEW c \in Caller, NEW op \in Op,
           getlocalstream(c, op)
    PROVE  Numbers'
<1> DEFINE x == [n |-> nexch + 1, c |-> c, op |-> op]
<1>1. /\ nexch \in Nat /\ nexch' = nexch + 1
      /\ UNCHANGED <<done, closed>>
    BY ExchangeAssumption DEF TypeOK, getlocalstream
<1>2. PICK o, l : cs' = [cs EXCEPT ![c] = [pc |-> l, o |-> o, x |-> x]]
    BY DEF getlocalstream
<1>3. /\ cs'[c].x = x /\ \A d \in Caller : d # c => cs'[d] = cs[d]
    BY <1>2 DEF TypeOK
<1>4. x.c = c /\ x.n = nexch'
    BY <1>1
<1>5. \A d \in Caller : cs[d].pc # "idle" => cs[d].x \in Exch
    BY DEF TypeOK
<1>6. \A y \in Exch : y.n =< nexch => y.n =< nexch'
    BY <1>1, ExchangeAssumption DEF Exch
<1> HIDE DEF x
<1>7. ASSUME NEW d \in Caller, cs'[d].pc # "idle"
      PROVE  cs'[d].x.c = d /\ cs'[d].x.n =< nexch'
  <2>1. CASE d = c
    BY <1>1, <1>3, <1>4, <2>1
  <2>2. CASE d # c
    BY <1>3, <1>5, <1>6, <1>7, <2>2 DEF Numbers
  <2> QED
    BY <2>1, <2>2
<1>8. ASSUME NEW y \in done' \cup closed' PROVE y.n =< nexch'
  <2>1. y \in done \cup closed /\ y \in Exch
    BY <1>1, <1>8 DEF TypeOK
  <2> QED
    BY <1>6, <2>1 DEF Numbers
<1> QED
    BY <1>7, <1>8 DEF Numbers

\* What a step may do to rxch, wire, serving and the tables.
RxStep ==
    \/ rxch' = rxch
    \/ \E p \in Peer : \E k \in Item : k.o \in Used /\ putch(p, k)
    \/ \E p \in Peer : \E k : Next_rxpkt(p, k)
WireStep ==
    \/ wire' = wire
    \/ \E p \in Peer : \E t, x : \E o \in Used : Send(p, t, o, x)
    \/ \E p \in Peer : /\ wire[p] # <<>>
                       /\ wire' = [wire EXCEPT ![p] = Tail(@)]
ServeStep ==
    \A p \in Peer : \A e \in serving'[p] :
        e \in serving[p] \/ e.o \in OpaqueOf[Other(p)]
TableStep ==
    /\ \A p \in Peer : \A o \in Opaque \ Used : live'[p][o] = live[p][o]
    /\ \A p \in Peer : \A o \in Opaque \ OpaqueOf[p] :
           pStrms'[p][o] = pStrms[p][o]

\* Steps that do no more keep Elsewhere.
LEMMA ElsewhereNext ==
    ASSUME TypeOK, Elsewhere, RxStep, WireStep, ServeStep, TableStep
    PROVE  Elsewhere'
<1> SUFFICES ASSUME NEW p \in Peer
             PROVE  /\ \A i \in DOMAIN rxch'[p] : rxch'[p][i].o \in Used
                    /\ \A i \in DOMAIN wire'[p] : wire'[p][i].o \in Used
                    /\ \A e \in serving'[p] : e.o \in OpaqueOf[Other(p)]
                    /\ \A o \in Opaque \ Used : live'[p][o] = "none"
                    /\ \A o \in Opaque \ OpaqueOf[p] : pStrms'[p][o] = 0
    BY DEF Elsewhere, Used
<1>1. /\ rxch[p] \in Seq(Item) /\ wire[p] \in Seq(Packet)
      /\ \A i \in DOMAIN rxch[p] : rxch[p][i].o \in Used
      /\ \A i \in DOMAIN wire[p] : wire[p][i].o \in Used
    BY DEF Elsewhere, TypeOK
<1>2. \A i \in DOMAIN rxch'[p] : rxch'[p][i].o \in Used
  <2>1. \/ rxch'[p] = rxch[p]
        \/ \E k \in Item : k.o \in Used /\ rxch'[p] = Append(rxch[p], k)
        \/ rxch[p] # <<>> /\ rxch'[p] = Tail(rxch[p])
    BY DEF RxStep, putch, Next_rxpkt, TypeOK
  <2>2. ASSUME NEW k \in Item, k.o \in Used, rxch'[p] = Append(rxch[p], k)
        PROVE  \A i \in DOMAIN rxch'[p] : rxch'[p][i].o \in Used
    BY <1>1, <2>2, Longer
  <2>3. ASSUME rxch[p] # <<>>, rxch'[p] = Tail(rxch[p])
        PROVE  \A i \in DOMAIN rxch'[p] : rxch'[p][i].o \in Used
    BY <1>1, <2>3, Shorter
  <2> QED
    BY <1>1, <2>1, <2>2, <2>3
<1>3. \A i \in DOMAIN wire'[p] : wire'[p][i].o \in Used
  <2>1. CASE wire' = wire
    BY <1>1, <2>1
  <2>2. ASSUME NEW q \in Peer, NEW t, NEW x, NEW o \in Used,
               Send(q, t, o, x)
        PROVE  \A i \in DOMAIN wire'[p] : wire'[p][i].o \in Used
    <3>1. \/ wire'[p] = wire[p]
          \/ wire'[p] = Append(wire[p], [t |-> t, o |-> o, x |-> x])
      BY <2>2 DEF Send, TypeOK
    <3> QED
      BY <1>1, <3>1
  <2>3. ASSUME NEW q \in Peer, wire[q] # <<>>,
               wire' = [wire EXCEPT ![q] = Tail(@)]
        PROVE  \A i \in DOMAIN wire'[p] : wire'[p][i].o \in Used
    <3>1. \/ wire'[p] = wire[p]
          \/ wire[p] # <<>> /\ wire'[p] = Tail(wire[p])
      BY <2>3 DEF TypeOK
    <3>2. wire[p] \in Seq(Item)
      BY <1>1, SeqMonotonic DEF Item
    <3>3. ASSUME wire[p] # <<>>, wire'[p] = Tail(wire[p])
          PROVE  \A i \in DOMAIN wire'[p] : wire'[p][i].o \in Used
      <4> DEFINE s == wire[p]
                 z == wire'[p]
      <4>1. /\ s \in Seq(Item) /\ s # <<>> /\ z = Tail(s)
            /\ \A i \in DOMAIN s : s[i].o \in Used
        BY <1>1, <3>2, <3>3
      <4> HIDE DEF s, z
      <4>2. \A i \in DOMAIN z : z[i].o \in Used
        BY <4>1, Shorter
      <4> QED
        BY <4>2 DEF z
    <3> QED
      BY <1>1, <3>1, <3>3
  <2> QED
    BY <2>1, <2>2, <2>3 DEF WireStep
<1>4. \A e \in serving'[p] : e.o \in OpaqueOf[Other(p)]
    BY DEF ServeStep, Elsewhere
<1>5. /\ \A o \in Opaque \ Used : live'[p][o] = "none"
      /\ \A o \in Opaque \ OpaqueOf[p] : pStrms'[p][o] = 0
    BY DEF TableStep, Elsewhere
<1> QED
    BY <1>2, <1>3, <1>4, <1>5

\* The tables, when a stream of end p is set in them.
LEMMA TableHome ==
    ASSUME TypeOK, NEW p \in Peer, NEW o \in OpaqueOf[p],
           live' = live \/ \E a : live' = [live EXCEPT ![p][o] = a],
           pStrms' = pStrms \/ ToPool(p, o)
    PROVE  TableStep
<1>1. /\ live \in [Peer -> [Opaque -> {"none", "local", "remote"}]]
      /\ pStrms \in [Peer -> [Opaque -> Nat]]
    BY DEF TypeOK
<1>2. o \in Opaque /\ o \in Used
    BY ExchangeAssumption DEF Used, Peer
<1>3. ASSUME NEW r \in Peer, NEW u \in Opaque \ Used
      PROVE  live'[r][u] = live[r][u]
  <2>1. u # o
    BY <1>2
  <2>2. ASSUME NEW a, live' = [live EXCEPT ![p][o] = a]
        PROVE  live'[r][u] = live[r][u]
    BY <1>1, <1>2, <2>1, <2>2
  <2> QED
    BY <2>2
<1>4. ASSUME NEW r \in Peer, NEW u \in Opaque \ OpaqueOf[r]
      PROVE  pStrms'[r][u] = pStrms[r][u]
  <2>1. r # p \/ u # o
    OBVIOUS
  <2>2. ASSUME ToPool(p, o) PROVE pStrms'[r][u] = pStrms[r][u]
    BY <1>1, <1>2, <2>1, <2>2 DEF ToPool
  <2> QED
    BY <2>2
<1> QED
    BY <1>3, <1>4 DEF TableStep

\* The routines.
LEMMA CallerRest ==
    ASSUME XInv, NEW c \in Caller, Proceed(c) \/ StreamMsg(c) \/ StreamClose(c)
    PROVE  Numbers' /\ Elsewhere'
<1> DEFINE p == Home[c]
           o == cs[c].o
           x == cs[c].x
<1>1. TypeOK /\ Numbers /\ Elsewhere /\ cs[c].pc # "idle"
    BY DEF XInv, Proceed, TellRx, Post, Request, RequestDone, putstream,
           Stream, StreamMsg, StreamClose
<1>2. p \in Peer /\ o \in OpaqueOf[p] /\ o \in Opaque /\ o \in Used
    BY <1>1, CallerType DEF Used, Peer
<1>3. nexch' = nexch /\ UNCHANGED <<live, serving>>
    BY DEF Proceed, TellRx, Post, Request, RequestDone, putstream, Stream,
           StreamMsg, StreamClose
<1>4. EndsHeld
  <2>1. done' = done /\ (closed' = closed \/ closed' = closed \cup {x})
    BY DEF Proceed, TellRx, Post, Request, RequestDone, putstream, Stream,
           StreamMsg, StreamClose
  <2> QED
    BY <1>1, <2>1 DEF EndsHeld
<1>5. cs' = cs \/ \E l : Goto(c, l)
    BY DEF Proceed, TellRx, Post, Request, RequestDone, putstream, Stream,
           StreamMsg, StreamClose
<1>6. rxch' = rxch \/ putch(p, [t |-> "update", o |-> o])
    BY DEF Proceed, TellRx, Post, Request, RequestDone, putstream, Stream,
           StreamMsg, StreamClose
<1>7. wire' = wire \/ \E t : Send(p, t, o, x)
    BY DEF Proceed, TellRx, Post, Request, RequestDone, putstream, Stream,
           StreamMsg, StreamClose
<1>8. pStrms' = pStrms \/ ToPool(p, o)
    BY DEF Proceed, TellRx, Post, Request, RequestDone, putstream, Stream,
           StreamMsg, StreamClose
<1>9. Numbers'
    BY <1>1, <1>3, <1>4, <1>5, NumbersNext
<1>10. RxStep
  <2> DEFINE k == [t |-> "update", o |-> o]
  <2>1. k \in Item /\ k.o \in Used
    BY <1>2 DEF Item, Update
  <2>2. rxch' = rxch \/ putch(p, k)
    BY <1>6
  <2> HIDE DEF k
  <2> QED
    BY <1>2, <2>1, <2>2 DEF RxStep
<1>11. WireStep
    BY <1>2, <1>7 DEF WireStep
<1>12. ServeStep
    BY <1>3 DEF ServeStep
<1>13. TableStep
  <2> HIDE DEF o
  <2> QED
    BY <1>1, <1>2, <1>3, <1>8, TableHome
<1> QED
    BY <1>1, <1>9, <1>10, <1>11, <1>12, <1>13, ElsewhereNext

\* getlocalstream().
LEMMA GetRest ==
    ASSUME XInv, NEW c \in Caller, NEW op \in Op, getlocalstream(c, op)
    PROVE  Numbers' /\ Elsewhere'
<1>1. TypeOK /\ Numbers /\ Elsewhere
    BY DEF XInv
<1>2. Numbers'
    BY <1>1, NumbersGet
<1>3. UNCHANGED <<rxch, wire>> /\ UNCHANGED <<serving, live>>
    BY DEF getlocalstream
<1>4. PICK o \in OpaqueOf[Home[c]] :
        pStrms' = [pStrms EXCEPT ![Home[c]][o] = @ - 1]
    BY DEF getlocalstream
<1>5. RxStep /\ WireStep /\ ServeStep
    BY <1>3 DEF RxStep, WireStep, ServeStep
<1>6. TableStep
  <2>1. \A r \in Peer : \A u \in Opaque \ OpaqueOf[r] :
            pStrms'[r][u] = pStrms[r][u]
    BY <1>1, <1>4, ExchangeAssumption DEF TypeOK
  <2> QED
    BY <1>3, <2>1 DEF TableStep
<1> QED
    BY <1>1, <1>2, <1>5, <1>6, ElsewhereNext

\* The application of an end.
LEMMA ServeRest ==
    ASSUME XInv, NEW p \in Peer, NEW e \in serving[p],
           Response(p, e) \/ RemoteMsg(p, e) \/ RemoteClose(p, e)
    PROVE  Numbers' /\ Elsewhere'
<1>1. TypeOK /\ Numbers /\ Elsewhere
    BY DEF XInv
<1>2. /\ nexch' = nexch /\ cs' = cs /\ done' = done /\ closed' = closed
      /\ UNCHANGED rxch /\ UNCHANGED <<live, pStrms>>
    BY DEF Response, RemoteMsg, RemoteClose
<1>3. /\ \E t : Send(p, t, e.o, e.x)
      /\ serving' = serving \/ serving' = [serving EXCEPT ![p] = @ \ {e}]
    BY DEF Response, RemoteMsg, RemoteClose
<1>4. EndsHeld
    BY <1>2 DEF EndsHeld
<1>5. Numbers'
    BY <1>1, <1>2, <1>4, NumbersNext
<1>6. e.o \in Used
    BY <1>1 DEF Elsewhere, Used, Peer, Other
<1>7. WireStep
    BY <1>3, <1>6 DEF WireStep
<1>8. ServeStep
    BY <1>1, <1>3 DEF ServeStep, TypeOK
<1>9. RxStep /\ TableStep
    BY <1>2 DEF RxStep, TableStep
<1> QED
    BY <1>1, <1>5, <1>7, <1>8, <1>9, ElsewhereNext

\* doRx().
LEMMA DoRxRest ==
    ASSUME XInv, NEW p \in Peer, doRx(p)
    PROVE  Numbers' /\ Elsewhere'
<1> DEFINE q == Other(p)
           k == Head(wire[q])
<1>1. TypeOK /\ Numbers /\ Elsewhere /\ q \in Peer
    BY Ends2 DEF XInv
<1>2. /\ nexch' = nexch /\ cs' = cs /\ done' = done /\ closed' = closed
      /\ UNCHANGED <<live, pStrms>> /\ UNCHANGED serving
      /\ wire[q] # <<>> /\ putch(p, k)
      /\ wire' = [wire EXCEPT ![q] = Tail(@)]
    BY DEF doRx
<1>3. EndsHeld
    BY <1>2 DEF EndsHeld
<1>4. Numbers'
    BY <1>1, <1>2, <1>3, NumbersNext
<1>5. k \in Item /\ k.o \in Used
  <2>1. /\ wire[q] \in Seq(Packet)
        /\ \A i \in DOMAIN wire[q] : wire[q][i].o \in Used
    BY <1>1 DEF TypeOK, Elsewhere
  <2> QED
    BY <1>2, <2>1 DEF Item
<1>6. WireStep
    BY <1>1, <1>2 DEF WireStep
<1> HIDE DEF k
<1>7. RxStep
    BY <1>2, <1>5 DEF RxStep
<1>8. ServeStep /\ TableStep
    BY <1>2 DEF ServeStep, TableStep
<1> QED
    BY <1>1, <1>4, <1>6, <1>7, <1>8, ElsewhereNext

\* syncRx(), on a stream of its own end ...
LEMMA HomeRest ==
    ASSUME XInv, NEW p \in Peer, NEW o \in OpaqueOf[p], HandledHome(p, o),
           nexch' = nexch, RxStep
    PROVE  Numbers' /\ Elsewhere'
<1>1. TypeOK /\ Numbers /\ Elsewhere /\ o \in Opaque /\ o \in Used
    BY ExchangeAssumption DEF XInv, Used, Peer
<1>2. Numbers'
    BY <1>1, NumbersNext DEF HandledHome
<1>3. WireStep
    BY <1>1 DEF WireStep, HandledHome
<1>4. ServeStep
    BY DEF ServeStep, HandledHome
<1>5. TableStep
    BY <1>1, TableHome DEF HandledHome
<1> QED
    BY <1>1, <1>2, <1>3, <1>4, <1>5, ElsewhereNext

\* ... or of the other.
LEMMA ThereRest ==
    ASSUME XInv, NEW p \in Peer, NEW o \in OpaqueOf[Other(p)], NEW k,
           HandledThere(p, o, k), nexch' = nexch, RxStep
    PROVE  Numbers' /\ Elsewhere'
<1>1. /\ TypeOK /\ Numbers /\ Elsewhere /\ Other(p) \in Peer
      /\ o \in Opaque /\ o \in Used
    BY ExchangeAssumption, Ends2 DEF XInv, Used, Peer, Other
<1>2. EndsHeld /\ cs' = cs
    BY DEF EndsHeld, HandledThere
<1>3. Numbers'
    BY <1>1, <1>2, NumbersNext
<1>4. WireStep
    BY DEF WireStep, HandledThere
<1>5. ServeStep
  <2>1. \/ serving' = serving
        \/ serving' = [serving EXCEPT ![p] = @ \cup {[o |-> o, x |-> k.x]}]
    BY DEF HandledThere, Gives
  <2> DEFINE f == [o |-> o, x |-> k.x]
  <2>2. ASSUME NEW r \in Peer, NEW e \in serving'[r]
        PROVE  e \in serving[r] \/ (r = p /\ e = f)
    <3> HIDE DEF f
    <3>1. serving' = serving \/ serving' = [serving EXCEPT ![p] = @ \cup {f}]
      BY <2>1 DEF f
    <3> QED
      BY <1>1, <2>2, <3>1 DEF TypeOK
  <2> QED
    BY <2>2 DEF ServeStep
<1>6. TableStep
  <2>1. But(o, live, live') /\ pStrms' = pStrms
    BY DEF HandledThere
  <2> QED
    BY <1>1, <2>1 DEF TableStep, But
<1> QED
    BY <1>1, <1>3, <1>4, <1>5, <1>6, ElsewhereNext

-----------------------------------------------------------------------------
(* The theorems. *)

\* At first every stream is in its pool.
LEMMA InitX == Init => XInv
<1> SUFFICES ASSUME Init PROVE XInv
    OBVIOUS
<1>1. TypeOK
    BY InitType
<1>2. Numbers
    BY DEF Init, Numbers
<1>3. Elsewhere
    BY ExchangeAssumption DEF Init, Elsewhere
<1>4. ASSUME NEW p \in Peer, NEW o \in OpaqueOf[p]
      PROVE  Good(p, View(p, o))
  <2> DEFINE v == View(p, o)
  <2>1. Other(p) \in Peer /\ o \in Opaque
    BY Ends2, ExchangeAssumption
  <2>2. In(p, o) = <<>> /\ Out(p, o) = <<>>
    <3>1. \A q \in Peer : rxch[q] = <<>> /\ wire[q] = <<>>
      BY DEF Init
    <3> QED
      BY <2>1, <3>1, OfEmpty DEF In, Out
  <2>3. Srv(p, o) = {} /\ Hold(p, o) = {}
    BY <2>1 DEF Init, Srv, Hold, Holds
  <2>4. pStrms[p][o] = 1 /\ live[p][o] = "none" /\ live[Other(p)][o] = "none"
    BY <2>1 DEF Init
  <2>5. /\ v.hold = {} /\ v.pool = 1 /\ v.live = "none" /\ v.there = "none"
        /\ v.in = <<>> /\ v.out = <<>> /\ v.srv = {}
    BY <2>2, <2>3, <2>4, ViewIs
  <2> HIDE DEF v
  <2>6. Cur(v) = Nil /\ Chain(Cur(v), v.out) /\ End(Cur(v), v.out) = Nil
    BY <2>5 DEF Cur, Chain, End
  <2>7. Over(v)
    BY <2>5 DEF Over, NoOpen, Bare
  <2>8. Free(v) /\ OutOK(p, v)
    BY <2>5, <2>6, <2>7 DEF Free, OutOK
  <2> QED
    BY <2>8 DEF Good, v
<1> QED
    BY <1>1, <1>2, <1>3, <1>4 DEF XInv, Streams

\* Every step keeps the invariant, if no opaque is configured on both ends
\* and the initiator of a stream answers a finish from within its callback.
LEMMA NextX ==
    ASSUME Disjoint, ~DeferredClose
    PROVE  XInv /\ [Next]_vars => XInv'
<1> SUFFICES ASSUME XInv, [Next]_vars PROVE XInv'
    OBVIOUS
<1>1. TypeOK'
    BY NextType DEF XInv
<1>2. CASE UNCHANGED vars
  <2>1. Numbers' /\ Elsewhere'
    BY <1>2 DEF vars, XInv, Numbers, Elsewhere, Used
  <2>2. \A p, o : /\ In(p, o)' = In(p, o) /\ Out(p, o)' = Out(p, o)
                  /\ Srv(p, o)' = Srv(p, o)
    BY <1>2 DEF vars, In, Out, Srv
  <2>3. \A p, o : Hold(p, o)' = Hold(p, o)
    BY <1>2, HoldSame DEF vars
  <2>4. \A p, o : View(p, o)' = View(p, o)
    BY <1>2, <2>2, <2>3 DEF vars, View
  <2> QED
    BY <1>1, <2>1, <2>4 DEF XInv, Streams
<1>3. ASSUME NEW c \in Caller, NEW op \in Op, getlocalstream(c, op)
      PROVE  XInv'
    BY <1>1, <1>3, GetStreams, GetRest DEF XInv
<1>4. ASSUME NEW c \in Caller, Proceed(c) \/ StreamMsg(c) \/ StreamClose(c)
      PROVE  XInv'
  <2>1. Streams'
    BY <1>4, PutStreams, DoneStreams, OpenStreams, MsgStreams, CloseStreams
       DEF Proceed
  <2> QED
    BY <1>1, <1>4, <2>1, CallerRest DEF XInv
<1>5. ASSUME NEW p \in Peer, NEW e \in serving[p],
             Response(p, e) \/ RemoteMsg(p, e) \/ RemoteClose(p, e)
      PROVE  XInv'
    BY <1>1, <1>5, ServeStreams, ServeRest DEF XInv
<1>6. ASSUME NEW p \in Peer, doRx(p) PROVE XInv'
    BY <1>1, <1>6, DoRxStreams, DoRxRest DEF XInv
<1>7. ASSUME NEW p \in Peer, streamupdate(p) PROVE XInv'
  <2>1. Streams' /\ \E o \in OpaqueOf[p] : HandledHome(p, o)
    BY <1>7, UpdateStreams
  <2>2. nexch' = nexch /\ RxStep
    BY <1>7 DEF streamupdate, RxStep
  <2> QED
    BY <1>1, <2>1, <2>2, HomeRest DEF XInv
<1>8. ASSUME NEW p \in Peer, Handles(p) PROVE XInv'
  <2>1. PICK k, o : k = Head(rxch[p]) /\ o = k.o
    OBVIOUS
  <2>2. Next_rxpkt(p, k) /\ nexch' = nexch /\ RxStep
    BY <1>8, <2>1 DEF Handles, handleFinish, handleOpen, handleLive,
                      handleDrop, RxStep
  <2>3. o \in OpaqueOf[p] \/ o \in OpaqueOf[Other(p)]
    BY <2>1, <2>2, TakenView
  <2>4. CASE o \in OpaqueOf[p]
    <3>1. Streams' /\ HandledHome(p, o)
      BY <1>8, <2>1, <2>4, HomeStreams
    <3> QED
      BY <1>1, <2>2, <2>4, <3>1, HomeRest DEF XInv
  <2>5. CASE o \in OpaqueOf[Other(p)]
    <3>1. Streams' /\ HandledThere(p, o, k)
      BY <1>8, <2>1, <2>5, ThereStreams
    <3> QED
      BY <1>1, <2>2, <2>5, <3>1, ThereRest DEF XInv
  <2> QED
    BY <2>3, <2>4, <2>5
<1> QED
    BY <1>2, <1>3, <1>4, <1>5, <1>6, <1>7, <1>8 DEF Next, syncRx, Handles

\* Hence it is an invariant.
LEMMA XInvariant ==
    ASSUME Disjoint, ~DeferredClose
    PROVE  Spec => []XInv
<1>1. XInv /\ [Next]_vars => XInv'
    BY NextX
<1> QED
    BY InitX, <1>1, PTL DEF Spec

\* Whatever two ends with different opaques do, handlepkt() dispatches every
\* packet to the exchange for which it was sent: for any number of routines,
\* opaques, exchanges and messages and any chansize, if the initiator of a
\* stream answers a finish from within its callback.
THEOREM Routed ==
    ASSUME Disjoint, ~DeferredClose
    PROVE  Spec => []RoutedRight
<1>1. XInv => RoutedRight
    BY XRouted
<1> QED
    BY XInvariant, <1>1, PTL

\* Under the same conditions a stream object, hence an opaque, has at most
\* one user, and is in pStrms at most once.
THEOREM Exclusive ==
    ASSUME Disjoint, ~DeferredClose
    PROVE  Spec => []PoolExclusive
<1>1. XInv => PoolExclusive
    BY XExclusive
<1> QED
    BY XInvariant, <1>1, PTL

\* And when all exchanges are over, livestreams is empty at both ends and
\* every stream object is back in its pool, unless a stream was opened with
\* a nil callback.
THEOREM Clean ==
    ASSUME Disjoint, ~DeferredClose
    PROVE  Spec => []QuiescentClean
<1>1. XInv => QuiescentClean
    BY XClean
<1> QED
    BY XInvariant, <1>1, PTL
=============================================================================
