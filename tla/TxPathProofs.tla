---------------------------- MODULE TxPathProofs ----------------------------
(***************************************************************************)
(* Proofs about TxPath, for any number of routines, txproto objects and    *)
(* calls and any batch and channel size: type correctness, who owns an     *)
(* object, what is lost at Close(), the order of the packets on the        *)
(* connection and what tx() reports.                                       *)
(***************************************************************************)
EXTENDS TxPath, SequenceLemmas, FiniteSetTheorems, TLAPS

(* Prefixes. *)

\* Prefixes of what was accepted.
LEMMA PrefixConcat ==
    ASSUME NEW S, NEW s \in Seq(S), NEW t \in Seq(S)
    PROVE  IsPrefix(s, s \o t)
BY DEF IsPrefix

\* A prefix stays one when the sequence grows.
LEMMA PrefixAppend ==
    ASSUME NEW S, NEW s \in Seq(S), NEW t \in Seq(S), NEW u \in Seq(S),
           IsPrefix(s, t)
    PROVE  IsPrefix(s, t \o u)
<1>1. SubSeq(t \o u, 1, Len(s)) = SubSeq(t, 1, Len(s))
    BY DEF IsPrefix
<1> QED
    BY <1>1 DEF IsPrefix

\* The elements of a concatenation.
LEMMA CatShape ==
    ASSUME NEW S, NEW s \in Seq(S), NEW t \in Seq(S)
    PROVE  /\ s \o t \in Seq(S) /\ Len(s \o t) = Len(s) + Len(t)
           /\ \A i \in 1..Len(s) : (s \o t)[i] = s[i]
           /\ \A i \in 1..Len(t) : (s \o t)[Len(s) + i] = t[i]
<1>1. s \o t \in Seq(S) /\ Len(s \o t) = Len(s) + Len(t)
    OBVIOUS
<1>2. \A i \in 1..Len(s) : (s \o t)[i] = s[i]
    OBVIOUS
<1>3. \A i \in 1..Len(t) : (s \o t)[Len(s) + i] = t[i]
    OBVIOUS
<1> QED
    BY <1>1, <1>2, <1>3

\* A prefix has the same elements.
LEMMA PrefixElements ==
    ASSUME NEW S, NEW s \in Seq(S), NEW t \in Seq(S), Len(s) =< Len(t),
           \A i \in 1..Len(s) : s[i] = t[i]
    PROVE  IsPrefix(s, t)
BY DEF IsPrefix

\* A Write() that fails leaves a prefix on the connection.
LEMMA PartialWrite ==
    ASSUME NEW S, NEW w \in Seq(S), NEW b \in Seq(S), NEW t \in Seq(S),
           NEW n \in 0..Len(b)
    PROVE  IsPrefix(w \o SubSeq(b, 1, n), (w \o b) \o t)
<1> DEFINE p == SubSeq(b, 1, n)
           u == w \o p
           x == w \o b
           v == x \o t
<1>1. p \in Seq(S) /\ Len(p) = n /\ \A i \in 1..n : p[i] = b[i]
    OBVIOUS
<1>2. /\ Len(w) \in Nat /\ Len(b) \in Nat /\ Len(t) \in Nat
      /\ n \in Nat /\ n =< Len(b)
    OBVIOUS
<1> HIDE DEF p
<1>3. /\ u \in Seq(S) /\ Len(u) = Len(w) + n
      /\ \A i \in 1..Len(w) : u[i] = w[i]
      /\ \A i \in 1..n : u[Len(w) + i] = p[i]
  <2>1. p \in Seq(S)
    BY <1>1
  <2>2. /\ u \in Seq(S) /\ Len(u) = Len(w) + Len(p)
        /\ \A i \in 1..Len(w) : u[i] = w[i]
        /\ \A i \in 1..Len(p) : u[Len(w) + i] = p[i]
    BY <2>1, CatShape
  <2> HIDE DEF u
  <2> QED
    BY <1>1, <2>2
<1>4. /\ x \in Seq(S) /\ Len(x) = Len(w) + Len(b)
      /\ \A i \in 1..Len(w) : x[i] = w[i]
      /\ \A i \in 1..Len(b) : x[Len(w) + i] = b[i]
    BY CatShape
<1> HIDE DEF x, u
<1>5. /\ v \in Seq(S) /\ Len(v) = Len(x) + Len(t)
      /\ \A i \in 1..Len(x) : v[i] = x[i]
  <2>1. x \in Seq(S)
    BY <1>4
  <2> QED
    BY <2>1, CatShape, Zenon
<1> HIDE DEF v
<1>6. Len(u) =< Len(v)
    BY <1>2, <1>3, <1>4, <1>5
<1>7. ASSUME NEW i \in 1..Len(u) PROVE u[i] = v[i]
  <2>1. v[i] = x[i]
    BY <1>2, <1>3, <1>4, <1>5
  <2>2. CASE i =< Len(w)
    BY <1>2, <1>3, <1>4, <2>1, <2>2
  <2>3. CASE i > Len(w)
    <3>1. /\ i - Len(w) \in 1..n /\ i - Len(w) \in 1..Len(b)
          /\ Len(w) + (i - Len(w)) = i
      BY <1>2, <1>3, <2>3
    <3>2. /\ u[Len(w) + (i - Len(w))] = p[i - Len(w)]
          /\ x[Len(w) + (i - Len(w))] = b[i - Len(w)]
      BY <1>3, <1>4, <3>1
    <3> QED
      BY <1>1, <2>1, <3>1, <3>2
  <2> QED
    BY <1>2, <1>3, <2>2, <2>3
<1>8. IsPrefix(u, v)
    BY <1>3, <1>5, <1>6, <1>7, PrefixElements
<1> QED
    BY <1>8 DEF u, v, x, p

-----------------------------------------------------------------------------
(* The inductive invariants. *)

\* TypeOK, and a batch that is not yet drained has room for one object more.
TypeInv ==
    /\ TypeOK
    /\ dotx = "select" => Len(batch) < BatchSize

\* An object whose async field is not set is in the pool, or with a routine
\* that will put it there.
SyncReturns ==
    \A a \in TxCmd :
        \/ txproto[a].async
        \/ a \in ToSet(pTxcmd)
        \/ \E c \in Caller :
               /\ arg[c] = a
               /\ \/ pc[c] = "fill"
                  \/ /\ pc[c] \in {"send", "wait", "putback"}
                     /\ ~async(call[c])

HasResult(c) == \E r \in respch : r.call = call[c]

\* Routine c may touch its object.
Holds(c) ==
    \/ pc[c] \in {"fill", "send", "putback"}
    \/ pc[c] = "wait" /\ HasResult(c)

\* Routine c has sent its object and waits for doTx().
Awaits(c) == pc[c] = "wait" /\ ~HasResult(c)

\* The objects that doTx() has or will receive.
Queued == ToSet(txch) \cup ToSet(batch)

\* The fields that Fill() sets for call m.
Filled(m) == [packet |-> m, flush |-> flush(m), async |-> async(m),
              respch |-> IF async(m) THEN NoCall ELSE m]

\* No object is twice in the pool, in txch or in batch, nor in two of them.
Apart ==
    /\ IsInjective(pTxcmd) /\ IsInjective(txch) /\ IsInjective(batch)
    /\ ToSet(pTxcmd) \cap Queued = {}
    /\ ToSet(txch) \cap ToSet(batch) = {}

\* An object in a routine's hands is nowhere else.
HeldApart ==
    \A c \in Caller : Holds(c) =>
        /\ arg[c] \notin ToSet(pTxcmd) \cup Queued
        /\ \A d \in Caller : Holds(d) /\ arg[d] = arg[c] => d = c

\* Every object is somewhere.
Covered ==
    \A a \in TxCmd :
        \/ a \in ToSet(pTxcmd) \cup Queued
        \/ \E c \in Caller : Holds(c) /\ arg[c] = a

\* A routine waits for its own call, and only if the call is synchronous.
OwnCall ==
    \A c \in Caller :
        /\ pc[c] # "idle" => call[c].c = c
        /\ pc[c] = "wait" => ~async(call[c])

\* What a routine has filled in stays until the object has come back.
FieldsKept ==
    \A c \in Caller :
        /\ pc[c] = "send" => txproto[arg[c]] = Filled(call[c])
        /\ Awaits(c) => /\ arg[c] \in Queued
                        /\ txproto[arg[c]] = Filled(call[c])

\* Behind a queued object that is not asynchronous a routine waits.
Awaited ==
    \A a \in Queued :
        txproto[a].async \/ \E c \in Caller : Awaits(c) /\ arg[c] = a

\* A result belongs to a routine that waits, and is the only one.
OneResult ==
    \A r \in respch :
        /\ \E c \in Caller : pc[c] = "wait" /\ call[c] = r.call
        /\ \A q \in respch : q.call = r.call => q = r

Owned ==
    /\ Apart
    /\ HeldApart
    /\ Covered
    /\ OwnCall
    /\ FieldsKept
    /\ Awaited
    /\ OneResult

OwnerInv == ~killed => Owned

\* What doTx() is about to report as written is on the connection.
BatchWritten ==
    dotx = "unblock" /\ ~err =>
        \A a \in ToSet(batch) :
            HasBytes(txproto[a].packet) => txproto[a].packet \in ToSet(wire)

\* So is what a routine will find reported.
ResultsWritten ==
    \A r \in respch : r.ok /\ HasBytes(r.call) => r.call \in ToSet(wire)

ReportInv == ~killed => BatchWritten /\ ResultsWritten /\ AckedOnWire

-----------------------------------------------------------------------------
(* The bytes that doTx() writes. *)

\* Bytes() and Packets() as functions of the objects' fields.
BytesIn(tp, a) == IF HasBytes(tp[a].packet) THEN <<tp[a].packet>> ELSE <<>>

PacketsIn(tp, s) == FlattenSeq([i \in DOMAIN s |-> BytesIn(tp, s[i])])

\* What an object adds is a sequence of packets.
LEMMA BytesInType ==
    ASSUME NEW tp \in [TxCmd -> TxProto], NEW a \in TxCmd
    PROVE  BytesIn(tp, a) \in Seq(Packet)
BY DEF BytesIn, TxProto

\* The bytes of a sequence of objects are a sequence of sequences.
LEMMA SlicesType ==
    ASSUME NEW tp \in [TxCmd -> TxProto], NEW s \in Seq(TxCmd)
    PROVE  [i \in DOMAIN s |-> BytesIn(tp, s[i])] \in Seq(Seq(Packet))
<1> DEFINE W == Seq(Packet)
<1>1. \A i \in 1..Len(s) : BytesIn(tp, s[i]) \in W
    BY BytesInType
<1> HIDE DEF W
<1>2. [i \in DOMAIN s |-> BytesIn(tp, s[i])] \in Seq(W)
    BY <1>1
<1> QED
    BY <1>2 DEF W

\* So is what all objects add.
LEMMA PacketsInType ==
    ASSUME NEW tp \in [TxCmd -> TxProto], NEW s \in Seq(TxCmd)
    PROVE  PacketsIn(tp, s) \in Seq(Packet)
<1>1. <<>> \in Seq(Packet)
    OBVIOUS
<1> QED
    BY <1>1, SlicesType, FlattenAppend DEF PacketsIn

\* No objects, no bytes.
LEMMA PacketsInEmpty ==
    ASSUME NEW tp
    PROVE  PacketsIn(tp, <<>>) = <<>>
<1>1. [i \in DOMAIN <<>> |-> BytesIn(tp, <<>>[i])] = <<>>
    OBVIOUS
<1> QED
    BY <1>1 DEF PacketsIn, FlattenSeq

\* One more object adds its bytes at the end.
LEMMA PacketsInAppend ==
    ASSUME NEW tp \in [TxCmd -> TxProto], NEW s \in Seq(TxCmd), NEW a \in TxCmd
    PROVE  PacketsIn(tp, Append(s, a)) = PacketsIn(tp, s) \o BytesIn(tp, a)
<1> DEFINE t == Append(s, a)
           ss == [i \in DOMAIN s |-> BytesIn(tp, s[i])]
           tt == [i \in DOMAIN t |-> BytesIn(tp, t[i])]
<1>1. ss \in Seq(Seq(Packet)) /\ BytesIn(tp, a) \in Seq(Packet)
    BY SlicesType, BytesInType
<1>2. tt = Append(ss, BytesIn(tp, a))
    OBVIOUS
<1>3. FlattenSeq(tt) = FlattenSeq(ss) \o BytesIn(tp, a)
    BY <1>1, <1>2, FlattenAppend
<1> QED
    BY <1>3 DEF PacketsIn

\* The first object's bytes come first.
LEMMA PacketsInHead ==
    ASSUME NEW tp \in [TxCmd -> TxProto], NEW s \in Seq(TxCmd), s # <<>>
    PROVE  PacketsIn(tp, s) = BytesIn(tp, Head(s)) \o PacketsIn(tp, Tail(s))
<1> DEFINE t == Tail(s)
           ss == [i \in DOMAIN s |-> BytesIn(tp, s[i])]
           tt == [i \in DOMAIN t |-> BytesIn(tp, t[i])]
<1>1. ss \in Seq(Seq(Packet)) /\ ss # <<>>
  <2>1. ss \in Seq(Seq(Packet))
    BY SlicesType
  <2>2. Len(ss) = Len(s) /\ Len(s) # 0
    BY EmptyLen
  <2> QED
    BY <2>1, <2>2, EmptyLen
<1>2. Head(ss) = BytesIn(tp, Head(s)) /\ tt = Tail(ss)
    OBVIOUS
<1>3. FlattenSeq(ss) = BytesIn(tp, Head(s)) \o FlattenSeq(tt)
    BY <1>1, <1>2, FlattenHead
<1> QED
    BY <1>3 DEF PacketsIn

\* The bytes depend on the packets of the objects in question only.
LEMMA PacketsInSame ==
    ASSUME NEW tp, NEW up, NEW s,
           \A a \in ToSet(s) : tp[a] = up[a]
    PROVE  PacketsIn(tp, s) = PacketsIn(up, s)
<1>1. \A i \in DOMAIN s : BytesIn(tp, s[i]) = BytesIn(up, s[i])
    BY DEF BytesIn, ToSet
<1>2. [i \in DOMAIN s |-> BytesIn(tp, s[i])]
          = [i \in DOMAIN s |-> BytesIn(up, s[i])]
    BY <1>1
<1> QED
    BY <1>2 DEF PacketsIn

\* Every object's bytes are among them.
LEMMA PacketsInHas ==
    ASSUME NEW tp \in [TxCmd -> TxProto], NEW s \in Seq(TxCmd),
           NEW a \in ToSet(s), HasBytes(tp[a].packet)
    PROVE  tp[a].packet \in ToSet(PacketsIn(tp, s))
<1> DEFINE ss == [i \in DOMAIN s |-> BytesIn(tp, s[i])]
<1>1. PICK k \in DOMAIN s : s[k] = a
    BY DEF ToSet
<1>2. ss \in Seq(Seq(Packet))
    BY SlicesType
<1>3. k \in DOMAIN ss /\ ss[k] = <<tp[a].packet>>
    BY <1>1 DEF BytesIn
<1>4. tp[a].packet \in ToSet(<<tp[a].packet>>)
    BY DEF ToSet
<1> HIDE DEF ss
<1>5. tp[a].packet \in ToSet(FlattenSeq(ss))
    BY <1>2, <1>3, <1>4, FlattenHas
<1> QED
    BY <1>5 DEF PacketsIn, ss

\* Packets() and BytesIn(), now and in the next state.
LEMMA PacketsUnfold ==
    /\ \A s : Packets(s) = PacketsIn(txproto, s)
    /\ \A a : Bytes(a) = BytesIn(txproto, a)
    /\ Packets(txch)' = PacketsIn(txproto', txch')
    /\ Packets(Unwritten)' = PacketsIn(txproto', Unwritten')
BY DEF Packets, PacketsIn, Bytes, BytesIn, Unwritten

-----------------------------------------------------------------------------
(* Type correctness. *)

\* Packets() is a sequence of packets.
LEMMA PacketsType ==
    ASSUME TypeOK, NEW s \in Seq(TxCmd)
    PROVE  Packets(s) \in Seq(Packet)
BY PacketsInType, PacketsUnfold DEF TypeOK

\* fromtxpool() resets the fields but the packet.
LEMMA ResetType ==
    ASSUME NEW p \in TxProto
    PROVE  [p EXCEPT !.flush = FALSE, !.async = FALSE, !.respch = NoCall]
               \in TxProto
BY DEF TxProto

\* Init: all objects are in the pool.
LEMMA InitType == Init => TypeInv
<1> SUFFICES ASSUME Init PROVE TypeInv
    OBVIOUS
<1> USE TxPathAssumption
<1>1. pTxcmd \in Seq(TxCmd) /\ Len(pTxcmd) = PoolSize
    BY DEF Init, TxCmd
<1>2. txproto \in [TxCmd -> TxProto]
    BY DEF Init, Packet, TxProto
<1>3. \A S : <<>> \in Seq(S)
    OBVIOUS
<1>4. Len(txch) = 0 /\ Len(batch) = 0
    BY DEF Init
<1>5. call \in [Caller -> Call \cup {NoCall}]
    BY DEF Init
<1>6. wire \in Seq(Packet) /\ accepted \in Seq(Call)
    BY <1>3 DEF Init
<1>7. /\ txch \in Seq(TxCmd) /\ Len(txch) =< TxchSize
      /\ batch \in Seq(TxCmd) /\ Len(batch) < BatchSize
      /\ Len(batch) =< BatchSize /\ Len(pTxcmd) =< PoolSize
    BY <1>1, <1>3, <1>4 DEF Init
<1>8. /\ pc = [c \in Caller |-> "idle"] /\ arg = [c \in Caller |-> NoCmd]
      /\ ncall = [c \in Caller |-> 0]
      /\ dotx = "select" /\ err = FALSE /\ conn = "up" /\ killed = FALSE
      /\ respch = {} /\ acked = {} /\ ticking \in BOOLEAN
    BY DEF Init
<1>9. /\ pc \in [Caller -> {"idle", "take", "fill", "send", "wait", "putback"}]
      /\ arg \in [Caller -> TxCmd \cup {NoCmd}]
      /\ \A c \in Caller :
             pc[c] \in {"fill", "send", "wait", "putback"} => arg[c] \in TxCmd
      /\ \A c \in Caller : pc[c] # "idle" => call[c] \in Call
      /\ ncall \in [Caller -> 0..MaxCall]
    BY <1>8
<1>10. /\ dotx \in {"select", "drain", "unblock", "stopped"}
       /\ dotx \in {"drain", "unblock"} => batch # <<>>
       /\ err \in BOOLEAN /\ conn \in {"up", "down"} /\ killed \in BOOLEAN
       /\ respch \in SUBSET [call : Call, ok : BOOLEAN]
       /\ acked \in SUBSET Call /\ ticking \in BOOLEAN
    BY <1>8
<1> QED
    BY <1>1, <1>2, <1>5, <1>6, <1>7, <1>9, <1>10, Zenon DEF TypeInv, TypeOK

\* A routine makes a call.
LEMMA BeginType ==
    ASSUME TypeInv, NEW c \in Caller, Begin(c)
    PROVE  TypeInv'
<1> USE TxPathAssumption
<1>1. PICK m \in Call : call' = [call EXCEPT ![c] = m]
  <2>1. CASE c # Ticker
    <3>1. PICK k \in KindOf[c] :
              call' = [call EXCEPT ![c] =
                           [c |-> c, n |-> ncall[c] + 1, k |-> k]]
      BY <2>1 DEF Begin
    <3>. k \in CallKind
      BY <3>1
    <3>2. ncall[c] + 1 \in 1..MaxCall
      BY <2>1 DEF Begin, TypeInv, TypeOK
    <3>3. [c |-> c, n |-> ncall[c] + 1, k |-> k] \in Call
      BY <3>2 DEF Call
    <3> QED
      BY <3>1, <3>3
  <2>2. CASE c = Ticker
    <3>1. [c |-> c, n |-> 0, k |-> Tick] \in Call
      BY <2>2 DEF Call
    <3> QED
      BY <2>2, <3>1 DEF Begin
  <2> QED
    BY <2>1, <2>2
<1>2. call' \in [Caller -> Call \cup {NoCall}]
    BY <1>1 DEF TypeInv, TypeOK
<1>3. ncall' \in [Caller -> 0..MaxCall]
  <2>1. ncall \in [Caller -> 0..MaxCall]
    BY DEF TypeInv, TypeOK
  <2>2. CASE c # Ticker
    <3>1. ncall[c] < MaxCall /\ ncall' = [ncall EXCEPT ![c] = ncall[c] + 1]
      BY <2>2 DEF Begin
    <3> QED
      BY <2>1, <3>1
  <2>3. CASE c = Ticker
    BY <2>1, <2>3 DEF Begin
  <2> QED
    BY <2>2, <2>3
<1>4. \A d \in Caller : pc'[d] # "idle" => call'[d] \in Call
    BY <1>1 DEF Begin, Goto, TypeInv, TypeOK
<1> QED
    BY <1>2, <1>3, <1>4 DEF Begin, Goto, queues, TypeInv, TypeOK

\* fromtxpool() hands out an object with its fields reset.
LEMMA TakeType ==
    ASSUME TypeInv, NEW c \in Caller, fromtxpool(c)
    PROVE  TypeInv'
<1> DEFINE a == Head(pTxcmd)
<1>1. a \in TxCmd /\ Tail(pTxcmd) \in Seq(TxCmd)
    BY DEF fromtxpool, TypeInv, TypeOK
<1>2. Len(Tail(pTxcmd)) =< PoolSize
    BY TxPathAssumption DEF fromtxpool, TypeInv, TypeOK
<1> HIDE DEF a
<1>3. txproto' \in [TxCmd -> TxProto]
  <2>1. [txproto[a] EXCEPT !.flush = FALSE, !.async = FALSE,
                           !.respch = NoCall] \in TxProto
    <3>1. txproto[a] \in TxProto
      BY <1>1 DEF TypeInv, TypeOK
    <3> QED
      BY <3>1, ResetType
  <2> QED
    BY <1>1, <2>1 DEF fromtxpool, TypeInv, TypeOK, a
<1>4. pTxcmd' = Tail(pTxcmd) /\ arg' = [arg EXCEPT ![c] = a]
    BY DEF fromtxpool, a
<1> QED
    BY <1>1, <1>2, <1>3, <1>4
    DEF fromtxpool, Goto, queues, history, TypeInv, TypeOK

\* The caller sets the fields.
LEMMA FillType ==
    ASSUME TypeInv, NEW c \in Caller, Fill(c)
    PROVE  TypeInv'
BY DEF TypeInv, TypeOK, TxProto, Fill, Goto, queues, history,
       async, flush, Packet, CallKind, Tick

\* txch takes the object only below its capacity.
LEMMA EnqueueType ==
    ASSUME TypeInv, NEW c \in Caller, Enqueue(c)
    PROVE  TypeInv'
BY TxPathAssumption DEF TypeInv, TypeOK, Enqueue, Goto, AfterEnqueue, async

\* killch is seen while sending.
LEMMA SendKilledType ==
    ASSUME TypeInv, NEW c \in Caller, SendKilled(c)
    PROVE  TypeInv'
BY DEF TypeInv, TypeOK, SendKilled, Goto, queues

\* The result comes back.
LEMMA ResultType ==
    ASSUME TypeInv, NEW c \in Caller, Result(c)
    PROVE  TypeInv'
BY DEF TypeInv, TypeOK, Result, Goto, queues

\* killch is seen while waiting.
LEMMA WaitKilledType ==
    ASSUME TypeInv, NEW c \in Caller, WaitKilled(c)
    PROVE  TypeInv'
BY DEF TypeInv, TypeOK, WaitKilled, Goto, queues

\* The object goes back to the pool, if that has room.
LEMMA PutBackType ==
    ASSUME TypeInv, NEW c \in Caller, PutBack(c)
    PROVE  TypeInv'
<1>1. arg[c] \in TxCmd
    BY DEF PutBack, TypeInv, TypeOK
<1>2. pTxcmd' \in Seq(TxCmd) /\ Len(pTxcmd') =< PoolSize
    BY <1>1, TxPathAssumption DEF PutBack, ToPool, TypeInv, TypeOK
<1>3. txproto' \in [TxCmd -> TxProto]
    BY <1>1 DEF PutBack, TypeInv, TypeOK, Packet, TxProto
<1> QED
    BY <1>1, <1>2, <1>3 DEF PutBack, Goto, queues, history, TypeInv, TypeOK

\* doTx() batches one object more, and drains when the batch is full.
LEMMA ReceiveType ==
    ASSUME TypeInv, Receive
    PROVE  TypeInv'
<1> DEFINE a == Head(txch)
<1>1. a \in TxCmd /\ txch' \in Seq(TxCmd) /\ Len(txch') =< TxchSize
    BY TxPathAssumption DEF Receive, TypeInv, TypeOK
<1> HIDE DEF a
<1>2. /\ batch' = Append(batch, a)
      /\ dotx' = IF Drains(a) THEN "drain" ELSE "select"
    BY DEF Receive, a
<1>3. batch' \in Seq(TxCmd) /\ Len(batch') = Len(batch) + 1 /\ batch' # <<>>
  <2>1. batch \in Seq(TxCmd)
    BY DEF TypeInv, TypeOK
  <2>2. batch' \in Seq(TxCmd) /\ Len(batch') = Len(batch) + 1
    BY <1>1, <1>2, <2>1
  <2> QED
    BY <2>1, <2>2, EmptyLen
<1>4. Len(batch) < BatchSize /\ Len(batch) \in Nat
    BY DEF Receive, TypeInv, TypeOK
<1>5. Len(batch') =< BatchSize
    BY <1>3, <1>4, TxPathAssumption
<1>6. dotx' = "select" => Len(batch') < BatchSize
    BY <1>2, <1>3, <1>4, TxPathAssumption DEF Drains
<1> QED
    BY <1>1, <1>2, <1>3, <1>5, <1>6 DEF Receive, history, TypeInv, TypeOK

\* doTx() ends.
LEMMA StopType ==
    ASSUME TypeInv, Stop \/ Hang
    PROVE  TypeInv'
BY DEF TypeInv, TypeOK, Stop, Hang, history

\* The packets of the batch, or some of them, reach the connection.
LEMMA WriteType ==
    ASSUME TypeInv, Write
    PROVE  TypeInv'
<1>1. Packets(batch) \in Seq(Packet)
    BY PacketsType DEF TypeInv, TypeOK
<1>2. \A n \in Nat : n =< Len(Packets(batch)) =>
          SubSeq(Packets(batch), 1, n) \in Seq(Packet)
    BY <1>1
<1>3. wire' \in Seq(Packet)
  <2>1. wire \in Seq(Packet)
    BY DEF TypeInv, TypeOK
  <2>2. CASE UNCHANGED wire
    BY <2>1, <2>2
  <2>3. CASE wire' = wire \o Packets(batch)
    BY <1>1, <2>1, <2>3
  <2>4. CASE \E n \in 0..(Len(Packets(batch)) - 1) :
                 wire' = wire \o SubSeq(Packets(batch), 1, n)
    <3>1. PICK n \in 0..(Len(Packets(batch)) - 1) :
              wire' = wire \o SubSeq(Packets(batch), 1, n)
      BY <2>4
    <3>2. SubSeq(Packets(batch), 1, n) \in Seq(Packet)
      BY <1>1, <1>2
    <3> QED
      BY <2>1, <3>1, <3>2
  <2> QED
    BY <2>2, <2>3, <2>4 DEF Write
<1>4. dotx' = "unblock" /\ err' \in BOOLEAN /\ conn' \in {"up", "down"}
    BY DEF Write, TypeInv, TypeOK
<1> QED
    BY <1>3, <1>4 DEF Write, history, TypeInv, TypeOK

\* One object leaves the batch.
LEMMA UnblockType ==
    ASSUME TypeInv, Unblock
    PROVE  TypeInv'
<1> DEFINE a == Head(batch)
<1>1. a \in TxCmd /\ batch' \in Seq(TxCmd) /\ Len(batch') < BatchSize
    BY TxPathAssumption DEF Unblock, TypeInv, TypeOK
<1>2. dotx' = IF batch' = <<>> THEN "select" ELSE "unblock"
    BY DEF Unblock
<1>3. /\ Len(batch') =< BatchSize
      /\ dotx' \in {"select", "drain", "unblock", "stopped"}
      /\ dotx' \in {"drain", "unblock"} => batch' # <<>>
    BY <1>1, <1>2, TxPathAssumption
<1>4. UNCHANGED <<txch, err, wire, conn, killed, pc, arg, call, ncall,
                  ticking, accepted, acked>>
    BY DEF Unblock, history
<1>5. /\ pTxcmd' \in Seq(TxCmd) /\ Len(pTxcmd') =< PoolSize
      /\ txproto' \in [TxCmd -> TxProto]
      /\ respch' \in SUBSET [call : Call, ok : BOOLEAN]
  <2>1. CASE txproto[a].async
    <3>1. /\ txproto' = [txproto EXCEPT ![a].packet = Garbage]
          /\ ToPool(a) /\ UNCHANGED respch
      BY <2>1 DEF Unblock
    <3> HIDE DEF a
    <3>2. pTxcmd' \in Seq(TxCmd) /\ Len(pTxcmd') =< PoolSize
      BY <1>1, <3>1, TxPathAssumption DEF ToPool, TypeInv, TypeOK
    <3>3. txproto' \in [TxCmd -> TxProto]
      BY <1>1, <3>1 DEF TypeInv, TypeOK, Packet, TxProto
    <3> QED
      BY <3>1, <3>2, <3>3 DEF TypeInv, TypeOK
  <2>2. CASE ~txproto[a].async
    <3>1. /\ txproto[a].respch # NoCall
          /\ respch' = respch \cup {Reply(a)}
          /\ UNCHANGED <<pTxcmd, txproto>>
      BY <2>2 DEF Unblock
    <3> HIDE DEF a
    <3>2. Reply(a) \in [call : Call, ok : BOOLEAN]
      BY <1>1, <3>1 DEF Reply, TypeInv, TypeOK, TxProto
    <3> QED
      BY <3>1, <3>2 DEF TypeInv, TypeOK
  <2> QED
    BY <2>1, <2>2
<1> HIDE DEF a
<1>6. TypeOK'
    BY <1>1, <1>3, <1>4, <1>5 DEF TypeInv, TypeOK
<1> QED
    BY <1>1, <1>6 DEF TypeInv

\* Close() closes killch.
LEMMA CloseKillchType ==
    ASSUME TypeInv, CloseKillch
    PROVE  TypeInv'
BY DEF TypeInv, TypeOK, CloseKillch, queues, history

\* Close() closes the connection.
LEMMA CloseConnType ==
    ASSUME TypeInv, CloseConn
    PROVE  TypeInv'
BY DEF TypeInv, TypeOK, CloseConn, history

\* TypeInv is inductive.
LEMMA NextType == TypeInv /\ [Next]_vars => TypeInv'
<1> SUFFICES ASSUME TypeInv, [Next]_vars PROVE TypeInv'
    OBVIOUS
<1>1. ASSUME NEW c \in Caller,
             Begin(c) \/ Proceed(c)
      PROVE  TypeInv'
    BY <1>1, BeginType, TakeType, FillType, EnqueueType, SendKilledType,
       ResultType, WaitKilledType, PutBackType
    DEF Proceed
<1>2. CASE doTx
    BY <1>2, ReceiveType, StopType, WriteType, UnblockType DEF doTx
<1>3. CASE UNCHANGED vars
    BY <1>3 DEF vars, TypeInv, TypeOK
<1> QED
    BY <1>1, <1>2, <1>3, CloseKillchType, CloseConnType DEF Next

\* Objects, packets and calls stay what they are in every field, channel and
\* variable; the pool, txch and batch never exceed their capacity, for any
\* number of routines and any sizes.
THEOREM TypeCorrect == Spec => []TypeOK
<1>1. Spec => []TypeInv
    BY InitType, NextType, PTL DEF Spec
<1>2. TypeInv => TypeOK
    BY DEF TypeInv
<1> QED
    BY <1>1, <1>2, PTL

-----------------------------------------------------------------------------
(* No object is lost but by a txasync() that sees killch. *)

LostInv == SyncReturns /\ LostOnlyAsync

\* All objects are in the pool at first.
LEMMA InitLost == Init => LostInv
<1> SUFFICES ASSUME Init PROVE LostInv
    OBVIOUS
<1>1. \A a \in TxCmd : a \in ToSet(pTxcmd)
    BY DEF Init, TxCmd, ToSet
<1> QED
    BY <1>1 DEF LostInv, SyncReturns, LostOnlyAsync

\* The steps of a routine that leave the objects where they are.
LEMMA StayLost ==
    ASSUME TypeInv, LostInv, NEW c \in Caller,
           Begin(c) \/ Result(c) \/ WaitKilled(c)
    PROVE  LostInv'
<1>1. UNCHANGED <<pTxcmd, txproto, txch, batch, killed, arg>>
    BY DEF Begin, Result, WaitKilled, queues
<1>2. \A d \in Caller : d # c => pc'[d] = pc[d] /\ call'[d] = call[d]
    BY DEF Begin, Result, WaitKilled, Goto, TypeInv, TypeOK
<1>3. \/ pc[c] = "idle"
      \/ pc[c] = "wait" /\ pc'[c] = "putback" /\ call'[c] = call[c]
    BY DEF Begin, Result, WaitKilled, Goto, TypeInv, TypeOK
<1>4. SyncReturns'
    BY <1>1, <1>2, <1>3 DEF LostInv, SyncReturns, async
<1>5. LostOnlyAsync'
    BY <1>1, <1>2, <1>3 DEF LostInv, LostOnlyAsync
<1> QED
    BY <1>4, <1>5 DEF LostInv

\* An object leaves the pool into the hands of a routine.
LEMMA TakeLost ==
    ASSUME TypeInv, LostInv, NEW c \in Caller, fromtxpool(c)
    PROVE  LostInv'
<1> DEFINE h == Head(pTxcmd)
<1>1. h \in TxCmd /\ ToSet(pTxcmd) = {h} \cup ToSet(pTxcmd')
    BY TailSet DEF fromtxpool, TypeInv, TypeOK
<1>2. /\ arg' = [arg EXCEPT ![c] = h] /\ pc' = [pc EXCEPT ![c] = "fill"]
      /\ \A a \in TxCmd : a # h => txproto'[a] = txproto[a]
      /\ pc[c] = "take"
      /\ UNCHANGED <<txch, batch, killed, call>>
    BY DEF fromtxpool, Goto, queues, TypeInv, TypeOK
<1> HIDE DEF h
<1>3. arg'[c] = h /\ pc'[c] = "fill"
    BY <1>2 DEF TypeInv, TypeOK
<1>4. \A d \in Caller : d # c => arg'[d] = arg[d] /\ pc'[d] = pc[d]
    BY <1>2 DEF TypeInv, TypeOK
<1>5. SyncReturns'
    BY <1>1, <1>2, <1>3, <1>4 DEF LostInv, SyncReturns, async
<1>6. LostOnlyAsync'
    BY <1>1, <1>2, <1>3, <1>4 DEF LostInv, LostOnlyAsync
<1> QED
    BY <1>5, <1>6 DEF LostInv

\* A routine holds the object whose async field it sets.
LEMMA FillLost ==
    ASSUME TypeInv, LostInv, NEW c \in Caller, Fill(c)
    PROVE  LostInv'
<1>1. /\ UNCHANGED <<pTxcmd, txch, batch, killed, arg, call>>
      /\ pc[c] = "fill" /\ pc'[c] = "send" /\ arg[c] \in TxCmd
      /\ \A d \in Caller : d # c => pc'[d] = pc[d]
    BY DEF Fill, Goto, queues, TypeInv, TypeOK
<1>2. /\ txproto'[arg[c]].async = async(call[c])
      /\ \A a \in TxCmd : a # arg[c] => txproto'[a] = txproto[a]
    BY <1>1 DEF Fill, TypeInv, TypeOK
<1>3. ASSUME NEW a \in TxCmd
      PROVE  \/ txproto'[a].async
             \/ a \in ToSet(pTxcmd')
             \/ \E d \in Caller :
                    /\ arg'[d] = a
                    /\ \/ pc'[d] = "fill"
                       \/ /\ pc'[d] \in {"send", "wait", "putback"}
                          /\ ~async(call'[d])
  <2>1. CASE a = arg[c]
    BY <1>1, <1>2, <2>1 DEF async
  <2>2. CASE a # arg[c]
    BY <1>1, <1>2, <2>2 DEF LostInv, SyncReturns
  <2> QED
    BY <2>1, <2>2
<1>4. LostOnlyAsync'
    BY <1>1, <1>2 DEF LostInv, LostOnlyAsync
<1> QED
    BY <1>3, <1>4 DEF LostInv, SyncReturns, async

\* A routine that does not wait leaves its object in txch.
LEMMA EnqueueLost ==
    ASSUME TypeInv, LostInv, NEW c \in Caller, Enqueue(c)
    PROVE  LostInv'
<1>1. /\ UNCHANGED <<pTxcmd, txproto, batch, killed, arg, call>>
      /\ pc[c] = "send" /\ arg[c] \in TxCmd
      /\ pc'[c] = IF async(call[c]) THEN "idle" ELSE "wait"
      /\ \A d \in Caller : d # c => pc'[d] = pc[d]
    BY DEF Enqueue, Goto, AfterEnqueue, TypeInv, TypeOK
<1>2. ToSet(txch') = ToSet(txch) \cup {arg[c]}
    BY <1>1, AppendSet DEF Enqueue, TypeInv, TypeOK
<1>3. SyncReturns'
    BY <1>1 DEF LostInv, SyncReturns, async
<1>4. LostOnlyAsync'
    BY <1>1, <1>2 DEF LostInv, LostOnlyAsync
<1> QED
    BY <1>3, <1>4 DEF LostInv

\* Only an asynchronous call drops its object.
LEMMA SendKilledLost ==
    ASSUME TypeInv, LostInv, NEW c \in Caller, SendKilled(c)
    PROVE  LostInv'
<1>1. /\ UNCHANGED <<pTxcmd, txproto, txch, batch, killed, arg, call>>
      /\ pc[c] = "send" /\ killed
      /\ pc'[c] = IF async(call[c]) THEN "idle" ELSE "putback"
      /\ \A d \in Caller : d # c => pc'[d] = pc[d]
    BY DEF SendKilled, Goto, queues, TypeInv, TypeOK
<1>2. SyncReturns'
    BY <1>1 DEF LostInv, SyncReturns, async
<1>3. LostOnlyAsync'
    BY <1>1, <1>2 DEF LostInv, LostOnlyAsync, SyncReturns
<1> QED
    BY <1>2, <1>3 DEF LostInv

\* tx() puts its object back.
LEMMA PutBackLost ==
    ASSUME TypeInv, LostInv, NEW c \in Caller, PutBack(c)
    PROVE  LostInv'
<1>1. /\ UNCHANGED <<txch, batch, killed, arg, call>>
      /\ arg[c] \in TxCmd /\ pc[c] = "putback"
      /\ \A d \in Caller : d # c => pc'[d] = pc[d]
    BY DEF PutBack, Goto, queues, TypeInv, TypeOK
<1>2. ToSet(pTxcmd') = ToSet(pTxcmd) \cup {arg[c]}
    BY <1>1, AppendSet DEF PutBack, ToPool, TypeInv, TypeOK
<1>3. \A a \in TxCmd : a # arg[c] => txproto'[a] = txproto[a]
    BY <1>1 DEF PutBack, TypeInv, TypeOK
<1>4. SyncReturns'
    BY <1>1, <1>2, <1>3 DEF LostInv, SyncReturns, async
<1>5. LostOnlyAsync'
    BY <1>1, <1>2, <1>3 DEF LostInv, LostOnlyAsync
<1> QED
    BY <1>4, <1>5 DEF LostInv

\* doTx() moves an object from txch to the batch.
LEMMA ReceiveLost ==
    ASSUME TypeInv, LostInv, Receive
    PROVE  LostInv'
<1>1. /\ UNCHANGED <<pTxcmd, txproto, killed, pc, arg, call>>
      /\ Head(txch) \in TxCmd
      /\ ToSet(txch) = {Head(txch)} \cup ToSet(txch')
    BY TailSet DEF Receive, TypeInv, TypeOK
<1>2. ToSet(batch') = ToSet(batch) \cup {Head(txch)}
    BY <1>1, AppendSet DEF Receive, TypeInv, TypeOK
<1> QED
    BY <1>1, <1>2 DEF LostInv, SyncReturns, LostOnlyAsync, async

\* doTx() drops an object only if another will put it back.
LEMMA UnblockLost ==
    ASSUME TypeInv, LostInv, Unblock
    PROVE  LostInv'
<1> DEFINE h == Head(batch)
<1>1. /\ UNCHANGED <<txch, killed, pc, arg, call>>
      /\ h \in TxCmd /\ ToSet(batch) = {h} \cup ToSet(batch')
    BY TailSet DEF Unblock, TypeInv, TypeOK
<1>2. CASE txproto[h].async
  <2>1. ToPool(h) /\ txproto' = [txproto EXCEPT ![h].packet = Garbage]
    BY <1>2 DEF Unblock
  <2> HIDE DEF h
  <2>2. ToSet(pTxcmd') = ToSet(pTxcmd) \cup {h}
    BY <1>1, <2>1, AppendSet DEF ToPool, TypeInv, TypeOK
  <2>3. \A a \in TxCmd : a # h => txproto'[a] = txproto[a]
    BY <2>1 DEF TypeInv, TypeOK
  <2>4. SyncReturns'
    BY <1>1, <2>2, <2>3 DEF LostInv, SyncReturns, async
  <2>5. LostOnlyAsync'
    BY <1>1, <2>2, <2>3 DEF LostInv, LostOnlyAsync
  <2> QED
    BY <2>4, <2>5 DEF LostInv
<1>3. CASE ~txproto[h].async
  <2>1. UNCHANGED <<pTxcmd, txproto>>
    BY <1>3 DEF Unblock
  <2> HIDE DEF h
  <2>2. SyncReturns'
    BY <1>1, <2>1 DEF LostInv, SyncReturns, async
  <2>3. LostOnlyAsync'
    BY <1>1, <1>3, <2>1 DEF LostInv, LostOnlyAsync, SyncReturns
  <2> QED
    BY <2>2, <2>3 DEF LostInv
<1> QED
    BY <1>2, <1>3

\* LostInv is inductive.
LEMMA NextLost == TypeInv /\ LostInv /\ [Next]_vars => LostInv'
<1> SUFFICES ASSUME TypeInv, LostInv, [Next]_vars PROVE LostInv'
    OBVIOUS
<1>1. ASSUME NEW c \in Caller,
             Begin(c) \/ Proceed(c)
      PROVE  LostInv'
    BY <1>1, StayLost, TakeLost, FillLost, EnqueueLost, SendKilledLost,
       PutBackLost
    DEF Proceed
<1>2. CASE Stop \/ Write \/ Hang \/ CloseKillch \/ CloseConn \/ UNCHANGED vars
  <2>1. UNCHANGED <<pTxcmd, txproto, txch, batch, pc, arg, call>>
    BY <1>2 DEF Stop, Write, Hang, CloseKillch, CloseConn, queues, vars
  <2>2. killed => killed'
    BY <1>2 DEF Stop, Write, Hang, CloseKillch, CloseConn, vars
  <2> QED
    BY <2>1, <2>2 DEF LostInv, SyncReturns, LostOnlyAsync, async
<1> QED
    BY <1>1, <1>2, ReceiveLost, UnblockLost DEF Next, doTx

\* The only objects that are ever lost are those of a txasync() call that
\* found the transport closed: tx() always gives its object back.
THEOREM NoSyncObjectLost == Spec => []LostOnlyAsync
<1>1. Spec => [](TypeInv /\ LostInv)
    BY InitType, NextType, InitLost, NextLost, PTL DEF Spec
<1>2. LostInv => LostOnlyAsync
    BY DEF LostInv
<1> QED
    BY <1>1, <1>2, PTL

-----------------------------------------------------------------------------
(* Every object has one owner. *)

\* All objects are in the pool at first, once each.
LEMMA InitOwned == Init => Owned
<1> SUFFICES ASSUME Init PROVE Owned
    OBVIOUS
<1>1. \A a \in TxCmd : a \in ToSet(pTxcmd)
    BY DEF Init, TxCmd, ToSet
<1>2. IsInjective(pTxcmd)
    BY DEF Init, IsInjective
<1>3. \A s : s = <<>> => IsInjective(s) /\ ToSet(s) = {}
    BY DEF IsInjective, ToSet
<1>4. \A c \in Caller : pc[c] = "idle"
    BY DEF Init
<1>5. txch = <<>> /\ batch = <<>> /\ respch = {}
    BY DEF Init
<1>6. Queued = {} /\ IsInjective(txch) /\ IsInjective(batch)
    BY <1>3, <1>5 DEF Queued
<1>7. ToSet(txch) = {} /\ ToSet(batch) = {}
    BY <1>3, <1>5
<1> QED
    BY <1>1, <1>2, <1>4, <1>5, <1>6, <1>7
    DEF Owned, Apart, HeldApart, Covered, OwnCall, FieldsKept, Awaited,
        OneResult, Holds, Awaits

\* What is queued is an object.
LEMMA QueuedType ==
    ASSUME TypeInv
    PROVE  /\ Queued \subseteq TxCmd
           /\ \A c \in Caller : Holds(c) \/ Awaits(c) => arg[c] \in TxCmd
<1>1. \A s \in Seq(TxCmd) : ToSet(s) \subseteq TxCmd
    BY DEF ToSet
<1>2. Queued \subseteq TxCmd
    BY <1>1 DEF Queued, TypeInv, TypeOK
<1> QED
    BY <1>2 DEF Holds, Awaits, TypeInv, TypeOK

\* A routine that begins has no object yet.
LEMMA BeginOwned ==
    ASSUME TypeInv, Owned, NEW c \in Caller, Begin(c)
    PROVE  Owned'
<1>1. UNCHANGED <<pTxcmd, txproto, txch, batch, arg, respch>>
    BY DEF Begin, queues
<1>2. pc[c] = "idle" /\ pc'[c] = "take"
    BY DEF Begin, Goto, TypeInv, TypeOK
<1>3. call'[c].c = c
    BY DEF Begin, TypeInv, TypeOK
<1>4. \A d \in Caller : d # c => pc'[d] = pc[d] /\ call'[d] = call[d]
    BY DEF Begin, Goto, TypeInv, TypeOK
<1>5. Queued' = Queued
    BY <1>1 DEF Queued
<1>6. \A d \in Caller : /\ Holds(d)' <=> Holds(d)
                        /\ Awaits(d)' <=> Awaits(d)
    BY <1>1, <1>2, <1>4 DEF Holds, Awaits, HasResult
<1>7. Apart' /\ HeldApart' /\ Covered'
    BY <1>1, <1>5, <1>6 DEF Owned, Apart, HeldApart, Covered
<1>8. OwnCall'
    BY <1>2, <1>3, <1>4 DEF Owned, OwnCall, async
<1>9. FieldsKept'
  <2> SUFFICES ASSUME NEW d \in Caller
               PROVE  /\ pc'[d] = "send" =>
                             txproto'[arg'[d]] = Filled(call'[d])
                      /\ Awaits(d)' => /\ arg'[d] \in Queued'
                                       /\ txproto'[arg'[d]] = Filled(call'[d])
    BY DEF FieldsKept, Filled, flush, async
  <2>1. CASE d = c
    BY <1>2, <1>6, <2>1 DEF Awaits
  <2>2. CASE d # c
    BY <1>1, <1>4, <1>5, <1>6, <2>2 DEF Owned, FieldsKept
  <2> QED
    BY <2>1, <2>2
<1>10. Awaited'
    BY <1>1, <1>5, <1>6 DEF Owned, Awaited
<1>11. OneResult'
    BY <1>1, <1>2, <1>4 DEF Owned, OneResult
<1> QED
    BY <1>7, <1>8, <1>9, <1>10, <1>11 DEF Owned

\* An object of the pool is nowhere else, so the routine owns it.
LEMMA TakeOwned ==
    ASSUME TypeInv, Owned, NEW c \in Caller, fromtxpool(c)
    PROVE  Owned'
<1> DEFINE h == Head(pTxcmd)
<1>1. /\ h \in TxCmd /\ ToSet(pTxcmd) = {h} \cup ToSet(pTxcmd')
      /\ IsInjective(pTxcmd) => IsInjective(pTxcmd') /\ h \notin ToSet(pTxcmd')
    BY TailSet DEF fromtxpool, TypeInv, TypeOK
<1>2. /\ \A a \in TxCmd : a # h => txproto'[a] = txproto[a]
      /\ UNCHANGED <<txch, batch, call, respch>>
    BY DEF fromtxpool, queues, TypeInv, TypeOK
<1>3. pc[c] = "take" /\ pc'[c] = "fill" /\ arg'[c] = h
    BY DEF fromtxpool, Goto, TypeInv, TypeOK
<1>4. \A d \in Caller : d # c => pc'[d] = pc[d] /\ arg'[d] = arg[d]
    BY DEF fromtxpool, Goto, TypeInv, TypeOK
<1> HIDE DEF h
<1>5. Queued' = Queued
    BY <1>2 DEF Queued
<1>6. /\ ~Holds(c) /\ Holds(c)' /\ ~Awaits(c)'
      /\ \A d \in Caller : d # c => /\ Holds(d)' <=> Holds(d)
                                    /\ Awaits(d)' <=> Awaits(d)
    BY <1>2, <1>3, <1>4 DEF Holds, Awaits, HasResult
<1>7. Apart' /\ h \notin ToSet(pTxcmd') \cup Queued
    BY <1>1, <1>2, <1>5 DEF Owned, Apart
<1>8. HeldApart'
    BY <1>1, <1>3, <1>4, <1>5, <1>6, <1>7 DEF Owned, HeldApart
<1>9. Covered'
    BY <1>1, <1>3, <1>4, <1>5, <1>6 DEF Owned, Covered
<1>10. OwnCall'
    BY <1>2, <1>3, <1>4 DEF Owned, OwnCall, async
<1>11. FieldsKept'
  <2> SUFFICES ASSUME NEW d \in Caller
               PROVE  /\ pc'[d] = "send" => txproto'[arg'[d]] = Filled(call[d])
                      /\ Awaits(d)' => /\ arg'[d] \in Queued'
                                       /\ txproto'[arg'[d]] = Filled(call[d])
    BY <1>2 DEF FieldsKept, Filled, flush, async
  <2>1. CASE d = c
    BY <1>3, <1>6, <2>1
  <2>2. CASE d # c
    <3>1. pc[d] = "send" => arg[d] \in TxCmd /\ arg[d] # h
      BY <1>1, QueuedType DEF Owned, HeldApart, Holds
    <3>2. Awaits(d) => arg[d] \in TxCmd /\ arg[d] # h
      BY <1>7, QueuedType DEF Owned, FieldsKept
    <3> QED
      BY <1>2, <1>4, <1>5, <1>6, <2>2, <3>1, <3>2 DEF Owned, FieldsKept
  <2> QED
    BY <2>1, <2>2
<1>12. Awaited'
  <2> SUFFICES ASSUME NEW a \in Queued
               PROVE  \/ txproto'[a].async
                      \/ \E d \in Caller : Awaits(d)' /\ arg'[d] = a
    BY <1>5 DEF Awaited
  <2>1. txproto'[a] = txproto[a]
    BY <1>2, <1>7, QueuedType
  <2> QED
    BY <1>3, <1>4, <1>6, <2>1 DEF Owned, Awaited, Awaits
<1>13. OneResult'
    BY <1>2, <1>3, <1>4 DEF Owned, OneResult
<1> QED
    BY <1>7, <1>8, <1>9, <1>10, <1>11, <1>12, <1>13 DEF Owned

\* The fields that are set are those of an owned object.
LEMMA FillOwned ==
    ASSUME TypeInv, Owned, NEW c \in Caller, Fill(c)
    PROVE  Owned'
<1>1. UNCHANGED <<pTxcmd, txch, batch, arg, call, respch>>
    BY DEF Fill, queues
<1>2. pc[c] = "fill" /\ pc'[c] = "send" /\ arg[c] \in TxCmd
    BY DEF Fill, Goto, TypeInv, TypeOK
<1>3. \A d \in Caller : d # c => pc'[d] = pc[d]
    BY DEF Fill, Goto, TypeInv, TypeOK
<1>4. /\ txproto'[arg[c]] = Filled(call[c])
      /\ \A a \in TxCmd : a # arg[c] => txproto'[a] = txproto[a]
    BY <1>2 DEF Fill, Filled, TypeInv, TypeOK
<1>5. Queued' = Queued
    BY <1>1 DEF Queued
<1>6. \A d \in Caller : /\ Holds(d)' <=> Holds(d)
                        /\ Awaits(d)' <=> Awaits(d)
    BY <1>1, <1>2, <1>3 DEF Holds, Awaits, HasResult
<1>7. Apart' /\ HeldApart' /\ Covered'
    BY <1>1, <1>5, <1>6 DEF Owned, Apart, HeldApart, Covered
<1>8. OwnCall'
    BY <1>1, <1>2, <1>3 DEF Owned, OwnCall, async
<1>9. Holds(c)
    BY <1>2 DEF Holds
<1>10. FieldsKept'
  <2> SUFFICES ASSUME NEW d \in Caller
               PROVE  /\ pc'[d] = "send" => txproto'[arg[d]] = Filled(call[d])
                      /\ Awaits(d)' => /\ arg[d] \in Queued'
                                       /\ txproto'[arg[d]] = Filled(call[d])
    BY <1>1 DEF FieldsKept, Filled, flush, async
  <2>1. CASE d = c
    BY <1>2, <1>4, <1>6, <2>1 DEF Awaits
  <2>2. CASE d # c
    <3>1. pc[d] = "send" => arg[d] \in TxCmd /\ arg[d] # arg[c]
      BY <1>9, <2>2, QueuedType DEF Owned, HeldApart, Holds
    <3>2. Awaits(d) => arg[d] \in TxCmd /\ arg[d] # arg[c]
      BY <1>9, QueuedType DEF Owned, FieldsKept, HeldApart
    <3> QED
      BY <1>3, <1>4, <1>5, <1>6, <2>2, <3>1, <3>2 DEF Owned, FieldsKept
  <2> QED
    BY <2>1, <2>2
<1>11. Awaited'
  <2>1. \A a \in Queued : txproto'[a] = txproto[a]
    BY <1>4, <1>9, QueuedType DEF Owned, HeldApart
  <2> QED
    BY <1>1, <1>5, <1>6, <2>1 DEF Owned, Awaited
<1>12. OneResult'
    BY <1>1, <1>2, <1>3 DEF Owned, OneResult
<1> QED
    BY <1>7, <1>8, <1>10, <1>11, <1>12 DEF Owned

\* With the pointer the routine gives the object away.
LEMMA EnqueueOwned ==
    ASSUME TypeInv, Owned, NEW c \in Caller, Enqueue(c)
    PROVE  Owned'
<1>1. UNCHANGED <<pTxcmd, txproto, batch, arg, call, respch>>
    BY DEF Enqueue
<1>2. /\ pc[c] = "send" /\ arg[c] \in TxCmd
      /\ pc'[c] = IF async(call[c]) THEN "idle" ELSE "wait"
    BY DEF Enqueue, Goto, AfterEnqueue, TypeInv, TypeOK
<1>3. \A d \in Caller : d # c => pc'[d] = pc[d]
    BY DEF Enqueue, Goto, TypeInv, TypeOK
<1>4. Holds(c)
    BY <1>2 DEF Holds
<1>5. /\ ToSet(txch') = ToSet(txch) \cup {arg[c]}
      /\ IsInjective(txch) /\ arg[c] \notin ToSet(txch) => IsInjective(txch')
    BY <1>2, AppendSet DEF Enqueue, TypeInv, TypeOK
<1>6. Queued' = Queued \cup {arg[c]}
    BY <1>1, <1>5 DEF Queued
<1>7. arg[c] \notin ToSet(pTxcmd) \cup Queued
    BY <1>4 DEF Owned, HeldApart
<1>8. ~HasResult(c)
    BY <1>2 DEF HasResult, Owned, OneResult, OwnCall
<1>9. /\ ~Holds(c)'
      /\ Awaits(c)' <=> ~async(call[c])
      /\ \A d \in Caller : d # c => /\ Holds(d)' <=> Holds(d)
                                    /\ Awaits(d)' <=> Awaits(d)
    BY <1>1, <1>2, <1>3, <1>8 DEF Holds, Awaits, HasResult
<1>10. Apart'
    BY <1>1, <1>5, <1>6, <1>7 DEF Owned, Apart, Queued
<1>11. HeldApart'
  <2>1. \A d \in Caller : Holds(d)' => d # c /\ Holds(d) /\ arg[d] # arg[c]
    BY <1>4, <1>9 DEF Owned, HeldApart
  <2> QED
    BY <1>1, <1>6, <2>1 DEF Owned, HeldApart
<1>12. Covered'
    BY <1>1, <1>6, <1>9 DEF Owned, Covered
<1>13. OwnCall'
    BY <1>1, <1>2, <1>3 DEF Owned, OwnCall, async
<1>14. FieldsKept'
  <2> SUFFICES ASSUME NEW d \in Caller
               PROVE  /\ pc'[d] = "send" => txproto[arg[d]] = Filled(call[d])
                      /\ Awaits(d)' => /\ arg[d] \in Queued'
                                       /\ txproto[arg[d]] = Filled(call[d])
    BY <1>1 DEF FieldsKept, Filled, flush, async
  <2>1. CASE d = c
    BY <1>2, <1>6, <2>1 DEF Owned, FieldsKept
  <2>2. CASE d # c
    BY <1>3, <1>6, <1>9, <2>2 DEF Owned, FieldsKept
  <2> QED
    BY <2>1, <2>2
<1>15. Awaited'
  <2> SUFFICES ASSUME NEW a \in Queued'
               PROVE  \/ txproto[a].async
                      \/ \E d \in Caller : Awaits(d)' /\ arg[d] = a
    BY <1>1 DEF Awaited
  <2>1. CASE a = arg[c]
    <3>1. txproto[a] = Filled(call[c])
      BY <1>2, <2>1 DEF Owned, FieldsKept
    <3>2. txproto[a].async = async(call[c])
      BY <3>1 DEF Filled
    <3> QED
      BY <1>9, <2>1, <3>2
  <2>2. CASE a # arg[c]
    BY <1>6, <1>9, <1>2, <2>2 DEF Owned, Awaited
  <2> QED
    BY <2>1, <2>2
<1>16. OneResult'
    BY <1>1, <1>2, <1>3 DEF Owned, OneResult
<1> QED
    BY <1>10, <1>11, <1>12, <1>13, <1>14, <1>15, <1>16 DEF Owned

\* The result is the routine's own and the only one.
LEMMA ResultOwned ==
    ASSUME TypeInv, Owned, ~killed, NEW c \in Caller, Result(c)
    PROVE  Owned'
<1>1. UNCHANGED <<pTxcmd, txproto, txch, batch, arg, call>>
    BY DEF Result, queues
<1>2. pc[c] = "wait" /\ pc'[c] = "putback"
    BY DEF Result, Goto, TypeInv, TypeOK
<1>3. \A d \in Caller : d # c => pc'[d] = pc[d]
    BY DEF Result, Goto, TypeInv, TypeOK
<1>4. PICK r \in respch : r.call = call[c] /\ respch' = respch \ {r}
    BY DEF Result, Listens
<1>5. Queued' = Queued
    BY <1>1 DEF Queued
<1>6. Holds(c) /\ Holds(c)' /\ ~Awaits(c) /\ ~Awaits(c)'
    BY <1>2, <1>4 DEF Holds, Awaits, HasResult
<1>7. ASSUME NEW d \in Caller, d # c
      PROVE  /\ Holds(d)' <=> Holds(d)
             /\ Awaits(d)' <=> Awaits(d)
  <2>1. pc[d] = "wait" => call[d] # call[c]
    BY <1>2, <1>7 DEF Owned, OwnCall
  <2>2. pc[d] = "wait" => (HasResult(d)' <=> HasResult(d))
    BY <1>1, <1>4, <2>1 DEF HasResult
  <2> QED
    BY <1>3, <1>7, <2>2 DEF Holds, Awaits
<1>8. \A d \in Caller : /\ Holds(d)' <=> Holds(d)
                        /\ Awaits(d)' <=> Awaits(d)
    BY <1>6, <1>7
<1>9. Apart' /\ HeldApart' /\ Covered'
    BY <1>1, <1>5, <1>8 DEF Owned, Apart, HeldApart, Covered
<1>10. OwnCall'
    BY <1>1, <1>2, <1>3 DEF Owned, OwnCall, async
<1>11. FieldsKept'
  <2> SUFFICES ASSUME NEW d \in Caller
               PROVE  /\ pc'[d] = "send" => txproto[arg[d]] = Filled(call[d])
                      /\ Awaits(d)' => /\ arg[d] \in Queued'
                                       /\ txproto[arg[d]] = Filled(call[d])
    BY <1>1 DEF FieldsKept, Filled, flush, async
  <2> QED
    BY <1>2, <1>3, <1>5, <1>8 DEF Owned, FieldsKept
<1>12. Awaited'
    BY <1>1, <1>5, <1>8 DEF Owned, Awaited
<1>13. OneResult'
  <2> SUFFICES ASSUME NEW q \in respch'
               PROVE  /\ \E d \in Caller : pc'[d] = "wait" /\ call'[d] = q.call
                      /\ \A o \in respch' : o.call = q.call => o = q
    BY DEF OneResult
  <2>1. q \in respch /\ q # r
    BY <1>4
  <2>2. q.call # r.call
    BY <2>1 DEF Owned, OneResult
  <2>3. PICK d \in Caller : pc[d] = "wait" /\ call[d] = q.call
    BY <2>1 DEF Owned, OneResult
  <2>4. d # c
    BY <1>4, <2>2, <2>3
  <2> QED
    BY <1>1, <1>3, <1>4, <2>1, <2>3, <2>4 DEF Owned, OneResult
<1> QED
    BY <1>9, <1>10, <1>11, <1>12, <1>13 DEF Owned

\* The object that is put back was owned.
LEMMA PutBackOwned ==
    ASSUME TypeInv, Owned, NEW c \in Caller, PutBack(c)
    PROVE  Owned'
<1>1. UNCHANGED <<txch, batch, arg, call, respch>>
    BY DEF PutBack, queues
<1>2. pc[c] = "putback" /\ pc'[c] = "idle" /\ arg[c] \in TxCmd
    BY DEF PutBack, Goto, TypeInv, TypeOK
<1>3. \A d \in Caller : d # c => pc'[d] = pc[d]
    BY DEF PutBack, Goto, TypeInv, TypeOK
<1>4. \A a \in TxCmd : a # arg[c] => txproto'[a] = txproto[a]
    BY <1>2 DEF PutBack, TypeInv, TypeOK
<1>5. /\ ToSet(pTxcmd') = ToSet(pTxcmd) \cup {arg[c]}
      /\ IsInjective(pTxcmd) /\ arg[c] \notin ToSet(pTxcmd) =>
             IsInjective(pTxcmd')
    BY <1>2, AppendSet DEF PutBack, ToPool, TypeInv, TypeOK
<1>6. Queued' = Queued
    BY <1>1 DEF Queued
<1>7. Holds(c) /\ arg[c] \notin ToSet(pTxcmd) \cup Queued
    BY <1>2 DEF Holds, Owned, HeldApart
<1>8. /\ ~Holds(c)' /\ ~Awaits(c) /\ ~Awaits(c)'
      /\ \A d \in Caller : d # c => /\ Holds(d)' <=> Holds(d)
                                    /\ Awaits(d)' <=> Awaits(d)
    BY <1>1, <1>2, <1>3 DEF Holds, Awaits, HasResult
<1>9. Apart'
    BY <1>1, <1>5, <1>6, <1>7 DEF Owned, Apart
<1>10. HeldApart'
  <2>1. \A d \in Caller : Holds(d)' => d # c /\ Holds(d) /\ arg[d] # arg[c]
    BY <1>7, <1>8 DEF Owned, HeldApart
  <2> QED
    BY <1>1, <1>5, <1>6, <2>1 DEF Owned, HeldApart
<1>11. Covered'
    BY <1>1, <1>5, <1>6, <1>8 DEF Owned, Covered
<1>12. OwnCall'
    BY <1>1, <1>2, <1>3 DEF Owned, OwnCall, async
<1>13. FieldsKept'
  <2> SUFFICES ASSUME NEW d \in Caller
               PROVE  /\ pc'[d] = "send" => txproto'[arg[d]] = Filled(call[d])
                      /\ Awaits(d)' => /\ arg[d] \in Queued'
                                       /\ txproto'[arg[d]] = Filled(call[d])
    BY <1>1 DEF FieldsKept, Filled, flush, async
  <2>1. CASE d = c
    BY <1>2, <1>8, <2>1
  <2>2. CASE d # c
    <3>1. pc[d] = "send" => arg[d] \in TxCmd /\ arg[d] # arg[c]
      BY <1>7, <2>2, QueuedType DEF Owned, HeldApart, Holds
    <3>2. Awaits(d) => arg[d] \in TxCmd /\ arg[d] # arg[c]
      BY <1>7, QueuedType DEF Owned, FieldsKept
    <3> QED
      BY <1>3, <1>4, <1>6, <1>8, <2>2, <3>1, <3>2 DEF Owned, FieldsKept
  <2> QED
    BY <2>1, <2>2
<1>14. Awaited'
  <2>1. \A a \in Queued : txproto'[a] = txproto[a]
    BY <1>4, <1>7, QueuedType
  <2> QED
    BY <1>1, <1>6, <1>8, <2>1 DEF Owned, Awaited
<1>15. OneResult'
    BY <1>1, <1>2, <1>3 DEF Owned, OneResult
<1> QED
    BY <1>9, <1>10, <1>11, <1>12, <1>13, <1>14, <1>15 DEF Owned

\* doTx() takes an object from txch.
LEMMA ReceiveOwned ==
    ASSUME TypeInv, Owned, Receive
    PROVE  Owned'
<1> DEFINE h == Head(txch)
<1>1. UNCHANGED <<pTxcmd, txproto, pc, arg, call, respch>>
    BY DEF Receive
<1>2. /\ h \in TxCmd /\ ToSet(txch) = {h} \cup ToSet(txch')
      /\ IsInjective(txch) => IsInjective(txch') /\ h \notin ToSet(txch')
    BY TailSet DEF Receive, TypeInv, TypeOK
<1>3. /\ ToSet(batch') = ToSet(batch) \cup {h}
      /\ IsInjective(batch) /\ h \notin ToSet(batch) => IsInjective(batch')
    BY <1>2, AppendSet DEF Receive, TypeInv, TypeOK
<1> HIDE DEF h
<1>4. Queued' = Queued
    BY <1>2, <1>3 DEF Queued
<1>5. Apart'
    BY <1>1, <1>2, <1>3, <1>4 DEF Owned, Apart
<1>6. \A d \in Caller : /\ Holds(d)' <=> Holds(d)
                        /\ Awaits(d)' <=> Awaits(d)
    BY <1>1 DEF Holds, Awaits, HasResult
<1> QED
    BY <1>1, <1>4, <1>5, <1>6
    DEF Owned, HeldApart, Covered, OwnCall, FieldsKept, Filled, flush, async,
        Awaited, OneResult

\* doTx() gives an object to the pool, or back to the one routine that
\* waits for it.
LEMMA UnblockOwned ==
    ASSUME TypeInv, Owned, Unblock
    PROVE  Owned'
<1> DEFINE h == Head(batch)
<1>1. UNCHANGED <<txch, pc, arg, call>>
    BY DEF Unblock
<1>2. /\ h \in TxCmd /\ ToSet(batch) = {h} \cup ToSet(batch')
      /\ IsInjective(batch) => IsInjective(batch') /\ h \notin ToSet(batch')
    BY TailSet DEF Unblock, TypeInv, TypeOK
<1>3. Queued = Queued' \cup {h} /\ h \notin Queued'
    BY <1>1, <1>2 DEF Queued, Owned, Apart
<1>4. OwnCall'
    BY <1>1 DEF Owned, OwnCall, async
<1>5. CASE txproto[h].async
  <2>1. /\ ToPool(h) /\ txproto' = [txproto EXCEPT ![h].packet = Garbage]
        /\ UNCHANGED respch
    BY <1>5 DEF Unblock
  <2> HIDE DEF h
  <2>2. /\ ToSet(pTxcmd') = ToSet(pTxcmd) \cup {h}
        /\ IsInjective(pTxcmd) /\ h \notin ToSet(pTxcmd) =>
               IsInjective(pTxcmd')
    BY <1>2, <2>1, AppendSet DEF ToPool, TypeInv, TypeOK
  <2>3. \A a \in TxCmd : a # h => txproto'[a] = txproto[a]
    BY <2>1 DEF TypeInv, TypeOK
  <2>4. \A d \in Caller : /\ Holds(d)' <=> Holds(d)
                          /\ Awaits(d)' <=> Awaits(d)
    BY <1>1, <2>1 DEF Holds, Awaits, HasResult
  <2>5. Apart'
    BY <1>1, <1>2, <1>3, <2>2 DEF Owned, Apart
  <2>6. HeldApart' /\ Covered'
    BY <1>1, <1>3, <2>2, <2>4 DEF Owned, HeldApart, Covered
  <2>7. FieldsKept'
    <3> SUFFICES ASSUME NEW d \in Caller
                 PROVE  /\ pc[d] = "send" => txproto'[arg[d]] = Filled(call[d])
                        /\ Awaits(d) => /\ arg[d] \in Queued'
                                        /\ txproto'[arg[d]] = Filled(call[d])
      BY <1>1, <2>4 DEF FieldsKept, Filled, flush, async
    <3>1. pc[d] = "send" => arg[d] \in TxCmd /\ arg[d] # h
      BY <1>3, QueuedType DEF Owned, HeldApart, Holds
    <3>2. ASSUME Awaits(d) PROVE arg[d] \in TxCmd /\ arg[d] # h
      <4>1. txproto[arg[d]] = Filled(call[d]) /\ ~async(call[d])
        BY <3>2 DEF Owned, FieldsKept, OwnCall, Awaits
      <4>2. ~txproto[arg[d]].async
        BY <4>1 DEF Filled
      <4> QED
        BY <1>5, <3>2, <4>2, QueuedType
    <3> QED
      BY <1>3, <2>3, <3>1, <3>2 DEF Owned, FieldsKept
  <2>8. Awaited'
    <3>1. \A a \in Queued' : a \in Queued /\ txproto'[a] = txproto[a]
      BY <1>3, <2>3, QueuedType
    <3> QED
      BY <1>1, <2>4, <3>1 DEF Owned, Awaited
  <2>9. OneResult'
    BY <1>1, <2>1 DEF Owned, OneResult
  <2> QED
    BY <1>4, <2>5, <2>6, <2>7, <2>8, <2>9 DEF Owned
<1>6. CASE ~txproto[h].async
  <2>1. /\ UNCHANGED <<pTxcmd, txproto>> /\ respch' = respch \cup {Reply(h)}
        /\ \A r \in respch : r.call # txproto[h].respch
    BY <1>6 DEF Unblock
  <2> HIDE DEF h
  <2>2. PICK c \in Caller : Awaits(c) /\ arg[c] = h
    BY <1>3, <1>6 DEF Owned, Awaited
  <2>3. ~async(call[c]) /\ txproto[h] = Filled(call[c])
    BY <2>2 DEF Owned, OwnCall, FieldsKept, Awaits
  <2>4. txproto[h].respch = call[c]
    BY <2>3 DEF Filled
  <2>5. Reply(h).call = call[c]
    BY <2>4 DEF Reply
  <2>6. Holds(c)' /\ ~Awaits(c)' /\ ~Holds(c)
    BY <1>1, <2>1, <2>2, <2>5 DEF Awaits, Holds, HasResult
  <2>7. ASSUME NEW d \in Caller, d # c
        PROVE  /\ Holds(d)' <=> Holds(d)
               /\ Awaits(d)' <=> Awaits(d)
    <3>1. pc[d] = "wait" => call[d] # call[c]
      BY <2>2, <2>7 DEF Owned, OwnCall, Awaits
    <3>2. pc[d] = "wait" => (HasResult(d)' <=> HasResult(d))
      BY <1>1, <2>1, <2>5, <3>1 DEF HasResult
    <3> QED
      BY <1>1, <3>2 DEF Holds, Awaits
  <2>8. ASSUME NEW d \in Caller, Awaits(d), arg[d] = h PROVE d = c
    <3>1. txproto[h] = Filled(call[d]) /\ ~async(call[d])
      BY <2>8 DEF Owned, FieldsKept, OwnCall, Awaits
    <3>2. txproto[h].respch = call[d]
      BY <3>1 DEF Filled
    <3> QED
      BY <2>2, <2>4, <2>8, <3>2 DEF Owned, OwnCall, Awaits
  <2>9. Apart'
    BY <1>1, <1>2, <1>3, <2>1 DEF Owned, Apart
  <2>10. h \notin ToSet(pTxcmd)
    BY <1>3 DEF Owned, Apart
  <2>11. HeldApart'
    <3>1. \A d \in Caller : Holds(d)' => d = c \/ (Holds(d) /\ arg[d] # h)
      BY <1>3, <2>7 DEF Owned, HeldApart
    <3> QED
      BY <1>1, <1>3, <2>1, <2>2, <2>10, <3>1 DEF Owned, HeldApart
  <2>12. Covered'
    BY <1>1, <1>3, <2>1, <2>2, <2>6, <2>7 DEF Owned, Covered
  <2>13. FieldsKept'
    <3> SUFFICES ASSUME NEW d \in Caller
                 PROVE  /\ pc[d] = "send" => txproto[arg[d]] = Filled(call[d])
                        /\ Awaits(d)' => /\ arg[d] \in Queued'
                                         /\ txproto[arg[d]] = Filled(call[d])
      BY <1>1, <2>1 DEF FieldsKept, Filled, flush, async
    <3>1. Awaits(d)' => d # c /\ Awaits(d)
      BY <2>6, <2>7
    <3>2. Awaits(d)' => arg[d] # h
      BY <2>8, <3>1
    <3> QED
      BY <1>3, <3>1, <3>2 DEF Owned, FieldsKept
  <2>14. Awaited'
    <3>1. \A a \in Queued' : a \in Queued /\ a # h
      BY <1>3
    <3> QED
      BY <1>1, <2>1, <2>2, <2>7, <3>1 DEF Owned, Awaited
  <2>15. OneResult'
    <3> SUFFICES ASSUME NEW q \in respch'
                 PROVE  /\ \E d \in Caller : pc[d] = "wait" /\ call[d] = q.call
                        /\ \A o \in respch' : o.call = q.call => o = q
      BY <1>1 DEF OneResult
    <3>1. \A r \in respch : r.call # call[c]
      BY <2>1, <2>4
    <3> QED
      BY <2>1, <2>2, <2>5, <3>1 DEF Owned, OneResult, Awaits
  <2> QED
    BY <1>4, <2>9, <2>11, <2>12, <2>13, <2>14, <2>15 DEF Owned
<1> QED
    BY <1>5, <1>6

\* As long as the transport is open doTx() finds its caller: it has a channel
\* to send the result to, and a routine that reads it.
LEMMA NoHang ==
    ASSUME TypeInv, Owned
    PROVE  ~Hang
<1> SUFFICES ASSUME Hang PROVE FALSE
    OBVIOUS
<1> DEFINE h == Head(batch)
<1>1. h \in Queued /\ ~txproto[h].async
    BY TailSet DEF Hang, Queued, TypeInv, TypeOK
<1>2. PICK c \in Caller : Awaits(c) /\ arg[c] = h
    BY <1>1 DEF Owned, Awaited
<1>3. txproto[h].respch = call[c]
  <2>1. ~async(call[c]) /\ txproto[h] = Filled(call[c])
    BY <1>2 DEF Owned, OwnCall, FieldsKept, Awaits
  <2> QED
    BY <2>1 DEF Filled
<1>4. pc[c] = "wait" /\ call[c] \in Listens(c)
    BY <1>2 DEF Awaits, Listens
<1>5. call[c] # NoCall
  <2>1. call[c] \in Call
    BY <1>4 DEF TypeInv, TypeOK
  <2>2. \A m \in Call : "c" \in DOMAIN m
    BY DEF Call
  <2>3. "c" \notin DOMAIN NoCall
    BY DEF NoCall
  <2> QED
    BY <2>1, <2>2, <2>3
<1> QED
    BY <1>3, <1>4, <1>5 DEF Hang

\* OwnerInv is inductive.
LEMMA NextOwner == TypeInv /\ OwnerInv /\ [Next]_vars => OwnerInv'
<1> SUFFICES ASSUME TypeInv, Owned, [Next]_vars, ~killed, ~killed'
             PROVE  Owned'
  <2>1. killed => ([Next]_vars => killed')
    BY DEF Next, Begin, fromtxpool, Enqueue, Proceed, Fill, SendKilled, Result,
           WaitKilled, PutBack, doTx, Receive, Stop, Write, Unblock,
           Hang, CloseKillch, CloseConn, vars
  <2> QED
    BY <2>1 DEF OwnerInv
<1>1. ASSUME NEW c \in Caller,
             Begin(c) \/ Proceed(c)
      PROVE  Owned'
    BY <1>1, BeginOwned, TakeOwned, FillOwned, EnqueueOwned, ResultOwned,
       PutBackOwned
    DEF Proceed, SendKilled, WaitKilled
<1>2. CASE Write \/ UNCHANGED vars
  <2>1. UNCHANGED <<pTxcmd, txproto, txch, batch, pc, arg, call, respch>>
    BY <1>2 DEF Write, vars
  <2> QED
    BY <2>1
    DEF Owned, Apart, HeldApart, Covered, OwnCall, FieldsKept, Awaited,
        OneResult, Queued, Holds, Awaits, HasResult, Filled, flush, async
<1> QED
    BY <1>1, <1>2, ReceiveOwned, UnblockOwned, NoHang
    DEF Next, doTx, Stop, CloseKillch, CloseConn

\* Counting: an injective sequence has an object once or not at all.
LEMMA OccurrencesCount ==
    ASSUME NEW s, IsInjective(s), NEW a
    PROVE  Cardinality(Occurrences(a, s)) = IF a \in ToSet(s) THEN 1 ELSE 0
<1>1. CASE a \in ToSet(s)
  <2>1. PICK i \in DOMAIN s : s[i] = a
    BY <1>1 DEF ToSet
  <2>2. Occurrences(a, s) = {i}
    BY <2>1 DEF Occurrences, IsInjective
  <2> QED
    BY <1>1, <2>2, FS_Singleton
<1>2. CASE a \notin ToSet(s)
  <2>1. Occurrences(a, s) = {}
    BY <1>2 DEF Occurrences, ToSet
  <2> QED
    BY <1>2, <2>1, FS_EmptySet
<1> QED
    BY <1>1, <1>2

\* Counting: an object is in the hands of one routine or of none.
LEMMA OwnersCount ==
    ASSUME HeldApart, NEW a
    PROVE  Cardinality({c \in Caller : Owns(c, a)})
               = IF \E c \in Caller : Holds(c) /\ arg[c] = a THEN 1 ELSE 0
<1>1. \A c \in Caller : Owns(c, a) <=> Holds(c) /\ arg[c] = a
    BY DEF Owns, Holds, HasResult
<1>2. CASE \E c \in Caller : Holds(c) /\ arg[c] = a
  <2>1. PICK c \in Caller : Holds(c) /\ arg[c] = a
    BY <1>2
  <2>2. {d \in Caller : Owns(d, a)} = {c}
    BY <1>1, <2>1 DEF HeldApart
  <2> QED
    BY <1>2, <2>2, FS_Singleton
<1>3. CASE ~ \E c \in Caller : Holds(c) /\ arg[c] = a
  <2>1. {d \in Caller : Owns(d, a)} = {}
    BY <1>1, <1>3
  <2> QED
    BY <1>3, <2>1, FS_EmptySet
<1> QED
    BY <1>2, <1>3

\* As long as the transport is open every txproto object is in exactly one
\* place, for any number of routines, objects and any batch size: nobody
\* writes the fields that doTx() is about to read.
THEOREM SingleOwner == Spec => []OneOwner
<1>1. Spec => [](TypeInv /\ OwnerInv)
  <2>1. Init => OwnerInv
    BY InitOwned DEF OwnerInv
  <2> QED
    BY <2>1, InitType, NextType, NextOwner, PTL DEF Spec
<1>2. OwnerInv => OneOwner
  <2> SUFFICES ASSUME Owned, NEW a \in TxCmd
               PROVE  Cardinality(Occurrences(a, pTxcmd))
                          + Cardinality({c \in Caller : Owns(c, a)})
                          + Cardinality(Occurrences(a, txch))
                          + Cardinality(Occurrences(a, batch)) = 1
    BY DEF OwnerInv, OneOwner
  <2> DEFINE held == \E c \in Caller : Holds(c) /\ arg[c] = a
  <2>1. /\ Cardinality(Occurrences(a, pTxcmd))
               = IF a \in ToSet(pTxcmd) THEN 1 ELSE 0
        /\ Cardinality(Occurrences(a, txch))
               = IF a \in ToSet(txch) THEN 1 ELSE 0
        /\ Cardinality(Occurrences(a, batch))
               = IF a \in ToSet(batch) THEN 1 ELSE 0
    BY OccurrencesCount DEF Owned, Apart
  <2>2. Cardinality({c \in Caller : Owns(c, a)}) = IF held THEN 1 ELSE 0
    BY OwnersCount DEF Owned
  <2>3. held => /\ a \notin ToSet(pTxcmd)
                /\ a \notin ToSet(txch) /\ a \notin ToSet(batch)
    BY DEF Owned, HeldApart, Queued
  <2>4. \/ held \/ a \in ToSet(pTxcmd)
        \/ a \in ToSet(txch) \/ a \in ToSet(batch)
    BY DEF Owned, Covered, Queued
  <2>5. /\ a \in ToSet(pTxcmd) => a \notin ToSet(txch) /\ a \notin ToSet(batch)
        /\ a \in ToSet(txch) => a \notin ToSet(batch)
    BY DEF Owned, Apart, Queued
  <2> HIDE DEF held
  <2> QED
    BY <2>1, <2>2, <2>3, <2>4, <2>5
<1> QED
    BY <1>1, <1>2, PTL

-----------------------------------------------------------------------------
(* Order on the connection. *)

\* Steps that neither move an object towards the connection nor write the
\* fields of one that is on its way.
LEMMA OrderKept ==
    ASSUME InOrder, ~killed,
           UNCHANGED <<wire, conn, accepted, txch>>, Unwritten' = Unwritten,
           \A a \in ToSet(txch) \cup ToSet(Unwritten) :
               txproto'[a] = txproto[a]
    PROVE  InOrder'
<1>1. PacketsIn(txproto', txch') = PacketsIn(txproto, txch)
    BY PacketsInSame
<1>2. PacketsIn(txproto', Unwritten') = PacketsIn(txproto, Unwritten)
    BY PacketsInSame
<1>3. /\ Packets(txch)' = Packets(txch)
      /\ Packets(Unwritten)' = Packets(Unwritten)
    BY <1>1, <1>2, PacketsUnfold
<1> QED
    BY <1>3 DEF InOrder

\* What is on its way to the connection.
LEMMA UnwrittenType ==
    ASSUME TypeInv
    PROVE  /\ Unwritten \in Seq(TxCmd)
           /\ ToSet(Unwritten) \subseteq ToSet(batch)
           /\ Packets(Unwritten) \in Seq(Packet)
           /\ Packets(txch) \in Seq(Packet)
           /\ wire \in Seq(Packet) /\ accepted \in Seq(Packet)
<1>1. Unwritten \in Seq(TxCmd) /\ ToSet(Unwritten) \subseteq ToSet(batch)
    BY DEF Unwritten, ToSet, TypeInv, TypeOK
<1>2. accepted \in Seq(Packet)
  <2>1. accepted \in Seq(Call)
    BY DEF TypeInv, TypeOK
  <2> QED
    BY <2>1 DEF Packet
<1> QED
    BY <1>1, <1>2, PacketsType DEF TypeInv, TypeOK

\* What is accepted is queued last.
LEMMA EnqueueOrder ==
    ASSUME TypeInv, Owned, InOrder, ~killed, NEW c \in Caller, Enqueue(c)
    PROVE  InOrder'
<1> DEFINE new == BytesIn(txproto, arg[c])
<1>1. /\ UNCHANGED <<txproto, batch, dotx, wire, conn, killed>>
      /\ pc[c] = "send" /\ arg[c] \in TxCmd /\ txch' = Append(txch, arg[c])
    BY DEF Enqueue, TypeInv, TypeOK
<1>2. txproto[arg[c]].packet = call[c]
  <2>1. txproto[arg[c]] = Filled(call[c])
    BY <1>1 DEF Owned, FieldsKept
  <2> QED
    BY <2>1 DEF Filled
<1>3. accepted' = accepted \o new
  <2>1. accepted \in Seq(Call) /\ call[c] \in Call
    BY <1>1 DEF TypeInv, TypeOK
  <2>2. CASE HasBytes(call[c])
    <3>1. accepted' = Append(accepted, call[c]) /\ new = <<call[c]>>
      BY <1>2, <2>2 DEF Enqueue, BytesIn
    <3> QED
      BY <2>1, <3>1
  <2>3. CASE ~HasBytes(call[c])
    <3>1. accepted' = accepted /\ new = <<>>
      BY <1>2, <2>3 DEF Enqueue, BytesIn
    <3> QED
      BY <2>1, <3>1
  <2> QED
    BY <2>2, <2>3
<1>4. Packets(txch)' = Packets(txch) \o new
  <2>1. txproto \in [TxCmd -> TxProto] /\ txch \in Seq(TxCmd)
    BY DEF TypeInv, TypeOK
  <2>2. PacketsIn(txproto, Append(txch, arg[c]))
            = PacketsIn(txproto, txch) \o new
    BY <1>1, <2>1, PacketsInAppend
  <2> QED
    BY <1>1, <2>2, PacketsUnfold
<1>5. Packets(Unwritten)' = Packets(Unwritten)
  <2>1. Unwritten' = Unwritten
    BY <1>1 DEF Unwritten
  <2> QED
    BY <1>1, <2>1, PacketsUnfold
<1>6. new \in Seq(Packet)
    BY <1>1, BytesInType DEF TypeInv, TypeOK
<1> HIDE DEF new
<1>7. CASE conn = "up"
  <2> DEFINE w == wire \o Packets(Unwritten)
             q == Packets(txch)
  <2>1. w \in Seq(Packet) /\ q \in Seq(Packet)
    BY UnwrittenType, CatShape
  <2>2. accepted = w \o q
    BY <1>7 DEF InOrder
  <2> HIDE DEF w, q
  <2>3. (w \o q) \o new = w \o (q \o new)
    BY <1>6, <2>1, CatAssoc DEF Cat
  <2>4. accepted' = w \o (q \o new)
    BY <1>3, <2>2, <2>3
  <2> QED
    BY <1>1, <1>4, <1>5, <1>7, <2>4 DEF InOrder, w, q
<1>8. CASE conn # "up"
  <2>1. IsPrefix(wire, accepted)
    BY <1>8 DEF InOrder
  <2>2. IsPrefix(wire, accepted \o new)
    BY <1>6, <2>1, UnwrittenType, PrefixAppend
  <2> QED
    BY <1>1, <1>3, <1>8, <2>2 DEF InOrder
<1> QED
    BY <1>7, <1>8

\* The first object of txch becomes the last of the batch.
LEMMA ReceiveOrder ==
    ASSUME TypeInv, InOrder, ~killed, Receive
    PROVE  InOrder'
<1> DEFINE h == Head(txch)
           new == BytesIn(txproto, h)
<1>1. /\ UNCHANGED <<txproto, wire, conn, killed, accepted>>
      /\ txch # <<>> /\ txch' = Tail(txch) /\ batch' = Append(batch, h)
      /\ Unwritten = batch /\ Unwritten' = batch'
    BY DEF Receive, history, Unwritten
<1>2. /\ txproto \in [TxCmd -> TxProto] /\ txch \in Seq(TxCmd)
      /\ batch \in Seq(TxCmd)
    BY DEF TypeInv, TypeOK
<1>3. h \in TxCmd
    BY <1>1, <1>2
<1>4. Packets(Unwritten)' = Packets(Unwritten) \o new
  <2>1. PacketsIn(txproto, Append(batch, h)) = PacketsIn(txproto, batch) \o new
    BY <1>2, <1>3, PacketsInAppend
  <2> QED
    BY <1>1, <2>1, PacketsUnfold
<1>5. Packets(txch) = new \o Packets(txch)'
  <2>1. PacketsIn(txproto, txch) = new \o PacketsIn(txproto, Tail(txch))
    BY <1>1, <1>2, PacketsInHead
  <2> QED
    BY <1>1, <2>1, PacketsUnfold
<1>6. new \in Seq(Packet) /\ Packets(txch)' \in Seq(Packet)
  <2>1. Tail(txch) \in Seq(TxCmd)
    BY <1>1, <1>2
  <2>2. PacketsIn(txproto, Tail(txch)) \in Seq(Packet)
    BY <1>2, <2>1, PacketsInType
  <2> QED
    BY <1>1, <1>2, <1>3, <2>2, BytesInType, PacketsUnfold
<1> HIDE DEF h, new
<1>7. CASE conn = "up"
  <2> DEFINE b == Packets(Unwritten)
             q == Packets(txch)'
  <2>1. wire \in Seq(Packet) /\ b \in Seq(Packet) /\ q \in Seq(Packet)
    BY <1>6, UnwrittenType
  <2>2. accepted = (wire \o b) \o (new \o q)
    BY <1>5, <1>7 DEF InOrder
  <2> HIDE DEF b, q
  <2>3. wire \o b \in Seq(Packet)
    BY <2>1, CatShape
  <2>4. (wire \o b) \o (new \o q) = ((wire \o b) \o new) \o q
    <3> DEFINE w == wire \o b
    <3>1. w \in Seq(Packet)
      BY <2>3
    <3> HIDE DEF w
    <3>2. Cat(Cat(w, new), q) = Cat(w, Cat(new, q))
      BY <1>6, <2>1, <3>1, CatAssoc
    <3> QED
      BY <3>2 DEF w, Cat
  <2>5. (wire \o b) \o new = wire \o (b \o new)
    BY <1>6, <2>1, CatAssoc DEF Cat
  <2>6. accepted = (wire \o (b \o new)) \o q
    BY <2>2, <2>4, <2>5
  <2> QED
    BY <1>1, <1>4, <1>7, <2>6 DEF InOrder, b, q
<1>8. CASE conn # "up"
    BY <1>1, <1>8 DEF InOrder
<1> QED
    BY <1>7, <1>8

\* The batch is written, wholly, or in part if the write fails.
LEMMA WriteOrder ==
    ASSUME TypeInv, InOrder, ~killed, Write
    PROVE  InOrder'
<1> DEFINE b == Packets(batch)
           q == Packets(txch)
<1>1. /\ UNCHANGED <<txproto, txch, batch, killed, accepted>>
      /\ Unwritten = batch /\ Unwritten' = <<>>
    BY DEF Write, history, Unwritten
<1>2. Packets(Unwritten)' = <<>> /\ Packets(txch)' = q
    BY <1>1, PacketsInEmpty, PacketsUnfold
<1>3. wire \in Seq(Packet) /\ b \in Seq(Packet) /\ q \in Seq(Packet)
    BY <1>1, UnwrittenType
<1>4. conn = "up" => accepted = (wire \o b) \o q
    BY <1>1 DEF InOrder
<1>5. /\ wire \o <<>> = wire /\ wire \o b \in Seq(Packet)
      /\ (wire \o b) \o <<>> = wire \o b
    BY <1>3
<1>6. CASE b = <<>> /\ UNCHANGED <<wire, conn>>
    BY <1>1, <1>2, <1>4, <1>5, <1>6 DEF InOrder
<1>7. CASE conn = "up" /\ wire' = wire \o b /\ UNCHANGED conn
    BY <1>1, <1>2, <1>4, <1>5, <1>7 DEF InOrder
<1>8. CASE /\ conn = "up" /\ conn' = "down"
           /\ \E n \in 0..(Len(b) - 1) : wire' = wire \o SubSeq(b, 1, n)
  <2>1. PICK n \in 0..(Len(b) - 1) : wire' = wire \o SubSeq(b, 1, n)
    BY <1>8
  <2> HIDE DEF b, q
  <2>2. n \in 0..Len(b)
    BY <1>3
  <2>3. IsPrefix(wire', accepted)
    BY <1>3, <1>4, <1>8, <2>1, <2>2, PartialWrite
  <2> QED
    BY <1>1, <1>8, <2>3 DEF InOrder
<1>9. CASE conn = "down" /\ UNCHANGED <<wire, conn>>
    BY <1>1, <1>9 DEF InOrder
<1> QED
    BY <1>6, <1>7, <1>8, <1>9 DEF Write

\* The batch that is given back has been written.
LEMMA UnblockOrder ==
    ASSUME TypeInv, Owned, InOrder, ~killed, Unblock
    PROVE  InOrder'
<1> DEFINE h == Head(batch)
<1>1. /\ UNCHANGED <<wire, conn, accepted, txch>>
      /\ Unwritten = <<>> /\ Unwritten' = <<>>
    BY DEF Unblock, history, Unwritten
<1>2. h \in ToSet(batch)
    BY TailSet DEF Unblock, TypeInv, TypeOK
<1>3. \A a \in TxCmd : a # h => txproto'[a] = txproto[a]
    BY DEF Unblock, TypeInv, TypeOK
<1> HIDE DEF h
<1>4. \A a \in ToSet(txch) : a # h /\ a \in TxCmd
    BY <1>2, QueuedType DEF Owned, Apart, Queued
<1>5. ToSet(Unwritten) = {}
    BY <1>1 DEF ToSet
<1> QED
    BY <1>1, <1>3, <1>4, <1>5, OrderKept

\* InOrder is inductive, as objects on their way to the connection belong to
\* doTx() alone.
LEMMA NextOrder ==
    TypeInv /\ OwnerInv /\ InOrder /\ [Next]_vars => InOrder'
<1> SUFFICES ASSUME TypeInv, OwnerInv, InOrder, [Next]_vars, ~killed'
             PROVE  InOrder'
    BY DEF InOrder
<1>1. ~killed
    BY DEF Next, Begin, fromtxpool, Enqueue, Proceed, Fill, SendKilled, Result,
           WaitKilled, PutBack, doTx, Receive, Stop, Write, Unblock,
           Hang, CloseKillch, CloseConn, vars
<1>2. Owned
    BY <1>1 DEF OwnerInv
<1>3. ASSUME UNCHANGED <<wire, conn, accepted, txch, batch, dotx>>,
             \A a \in Queued : txproto'[a] = txproto[a]
      PROVE  InOrder'
  <2>1. Unwritten' = Unwritten
    BY <1>3 DEF Unwritten
  <2>2. ToSet(txch) \cup ToSet(Unwritten) \subseteq Queued
    BY UnwrittenType DEF Queued
  <2> QED
    BY <1>1, <1>3, <2>1, <2>2, OrderKept
<1>4. ASSUME NEW c \in Caller, fromtxpool(c) PROVE InOrder'
  <2>1. UNCHANGED <<wire, conn, accepted, txch, batch, dotx>>
    BY <1>4 DEF fromtxpool, queues, history
  <2>2. Head(pTxcmd) \in ToSet(pTxcmd)
    BY <1>4, TailSet DEF fromtxpool, TypeInv, TypeOK
  <2>3. \A a \in TxCmd : a # Head(pTxcmd) => txproto'[a] = txproto[a]
    BY <1>4 DEF fromtxpool, TypeInv, TypeOK
  <2>4. \A a \in Queued : a \in TxCmd /\ a # Head(pTxcmd)
    BY <1>2, <2>2, QueuedType DEF Owned, Apart
  <2> QED
    BY <1>3, <2>1, <2>3, <2>4
<1>5. ASSUME NEW c \in Caller, Fill(c) \/ PutBack(c) PROVE InOrder'
  <2>1. UNCHANGED <<wire, conn, accepted, txch, batch, dotx>>
    BY <1>5 DEF Fill, PutBack, queues, history
  <2>2. \A a \in TxCmd : a # arg[c] => txproto'[a] = txproto[a]
    BY <1>5 DEF Fill, PutBack, TypeInv, TypeOK
  <2>3. Holds(c)
    BY <1>5 DEF Fill, PutBack, Holds
  <2>4. \A a \in Queued : a \in TxCmd /\ a # arg[c]
    BY <1>2, <2>3, QueuedType DEF Owned, HeldApart
  <2> QED
    BY <1>3, <2>1, <2>2, <2>4
<1>6. ASSUME NEW c \in Caller, Begin(c) \/ Result(c) PROVE InOrder'
  <2>1. UNCHANGED <<wire, conn, accepted, txch, batch, dotx, txproto>>
    BY <1>6 DEF Begin, Result, queues
  <2> QED
    BY <1>3, <2>1
<1>7. CASE UNCHANGED vars
    BY <1>3, <1>7 DEF vars
<1> QED
    BY <1>1, <1>2, <1>4, <1>5, <1>6, <1>7, EnqueueOrder, ReceiveOrder,
       WriteOrder, UnblockOrder, NoHang
    DEF Next, Proceed, SendKilled, WaitKilled, doTx, Stop, CloseKillch,
        CloseConn

\* As long as the transport is open, what the routines handed to tx() and
\* txasync() is on the connection or queued, once each and in the order of
\* acceptance; after a failed write the connection has a prefix of it.
THEOREM WireInOrder == Spec => []InOrder
<1>1. Init => OwnerInv
    BY InitOwned DEF OwnerInv
<1>2. Init => InOrder
  <2> SUFFICES ASSUME Init PROVE InOrder
    OBVIOUS
  <2>1. /\ wire = <<>> /\ accepted = <<>> /\ txch = <<>>
        /\ Unwritten = <<>> /\ conn = "up"
    BY DEF Init, Unwritten
  <2>2. Packets(txch) = <<>> /\ Packets(Unwritten) = <<>>
    BY <2>1, PacketsInEmpty, PacketsUnfold
  <2>3. (<<>> \o <<>>) \o <<>> = <<>>
    OBVIOUS
  <2> QED
    BY <2>1, <2>2, <2>3 DEF InOrder
<1> QED
    BY <1>1, <1>2, InitType, NextType, NextOwner, NextOrder, PTL DEF Spec

-----------------------------------------------------------------------------
(* What is reported as written. *)

\* Steps that neither touch the batch nor report anything.
LEMMA ReportKept ==
    ASSUME ReportInv, ~killed,
           UNCHANGED <<batch, dotx, err, wire, respch, acked>>,
           \A a \in ToSet(batch) : txproto'[a] = txproto[a]
    PROVE  ReportInv'
<1>1. BatchWritten' /\ ResultsWritten' /\ AckedOnWire'
    BY DEF ReportInv, BatchWritten, ResultsWritten, AckedOnWire, HasBytes
<1> QED
    BY <1>1 DEF ReportInv

\* Nothing is taken back from the connection.
LEMMA WireGrows ==
    ASSUME TypeInv, Write
    PROVE  ToSet(wire) \subseteq ToSet(wire')
<1>1. \A t \in Seq(Packet) : ToSet(wire) \subseteq ToSet(wire \o t)
  <2> SUFFICES ASSUME NEW t \in Seq(Packet), NEW i \in DOMAIN wire
               PROVE  \E j \in DOMAIN (wire \o t) : (wire \o t)[j] = wire[i]
    BY DEF ToSet
  <2>1. wire \in Seq(Packet)
    BY DEF TypeInv, TypeOK
  <2> QED
    BY <2>1
<1>2. Packets(batch) \in Seq(Packet)
    BY PacketsType DEF TypeInv, TypeOK
<1>3. \A n \in 0..(Len(Packets(batch)) - 1) :
          SubSeq(Packets(batch), 1, n) \in Seq(Packet)
    BY <1>2
<1>4. \/ UNCHANGED wire
      \/ wire' = wire \o Packets(batch)
      \/ \E n \in 0..(Len(Packets(batch)) - 1) :
             wire' = wire \o SubSeq(Packets(batch), 1, n)
    BY DEF Write
<1> QED
    BY <1>1, <1>2, <1>3, <1>4

\* A write without error has written the packets of the batch.
LEMMA WriteReport ==
    ASSUME TypeInv, ReportInv, ~killed, Write
    PROVE  ReportInv'
<1>1. UNCHANGED <<txproto, batch, respch, acked, killed>>
    BY DEF Write, history
<1>2. /\ txproto \in [TxCmd -> TxProto] /\ batch \in Seq(TxCmd)
      /\ wire \in Seq(Packet) /\ Packets(batch) \in Seq(Packet)
    BY PacketsType DEF TypeInv, TypeOK
<1>3. ASSUME ~err', NEW a \in ToSet(batch), HasBytes(txproto[a].packet)
      PROVE  txproto[a].packet \in ToSet(wire')
  <2>1. txproto[a].packet \in ToSet(Packets(batch))
    BY <1>2, <1>3, PacketsInHas, PacketsUnfold
  <2>2. CASE Packets(batch) = <<>>
    BY <2>1, <2>2 DEF ToSet
  <2>3. CASE wire' = wire \o Packets(batch)
    <3>1. PICK i \in DOMAIN Packets(batch) :
              Packets(batch)[i] = txproto[a].packet
      BY <2>1 DEF ToSet
    <3>2. /\ Len(wire) + i \in DOMAIN wire'
          /\ wire'[Len(wire) + i] = Packets(batch)[i]
      BY <1>2, <2>3
    <3> QED
      BY <3>1, <3>2 DEF ToSet
  <2> QED
    BY <1>3, <2>2, <2>3 DEF Write
<1>4. BatchWritten'
    BY <1>1, <1>3 DEF BatchWritten, HasBytes
<1>5. ResultsWritten' /\ AckedOnWire'
    BY <1>1, WireGrows DEF ReportInv, ResultsWritten, AckedOnWire, HasBytes
<1> QED
    BY <1>4, <1>5 DEF ReportInv

\* The result that is sent is about the packet of that object.
LEMMA UnblockReport ==
    ASSUME TypeInv, Owned, ReportInv, ~killed, Unblock
    PROVE  ReportInv'
<1> DEFINE h == Head(batch)
<1>1. UNCHANGED <<err, wire, acked>> /\ dotx = "unblock"
    BY DEF Unblock, history
<1>2. /\ h \in TxCmd /\ ToSet(batch) = {h} \cup ToSet(batch')
      /\ h \notin ToSet(batch')
    BY TailSet DEF Unblock, TypeInv, TypeOK, Owned, Apart
<1>3. \A a \in TxCmd : a # h => txproto'[a] = txproto[a]
    BY DEF Unblock, TypeInv, TypeOK
<1>4. \/ txproto[h].async /\ UNCHANGED respch
      \/ ~txproto[h].async /\ respch' = respch \cup {Reply(h)}
    BY DEF Unblock
<1> HIDE DEF h
<1>5. BatchWritten'
  <2>1. \A a \in ToSet(batch') : a \in ToSet(batch) /\ txproto'[a] = txproto[a]
    BY <1>2, <1>3, QueuedType DEF Queued
  <2> QED
    BY <1>1, <2>1 DEF ReportInv, BatchWritten, HasBytes
<1>6. ResultsWritten'
  <2>1. CASE txproto[h].async
    BY <1>1, <1>4, <2>1 DEF ReportInv, ResultsWritten, HasBytes
  <2>2. CASE ~txproto[h].async
    <3>1. PICK c \in Caller : Awaits(c) /\ arg[c] = h
      BY <1>2, <2>2 DEF Owned, Awaited, Queued
    <3>2. ~async(call[c]) /\ txproto[h] = Filled(call[c])
      BY <3>1 DEF Owned, OwnCall, FieldsKept, Awaits
    <3>3. txproto[h].respch = txproto[h].packet
      BY <3>2 DEF Filled
    <3>4. Reply(h).call = txproto[h].packet /\ Reply(h).ok = ~err
      BY <3>3 DEF Reply
    <3>5. ~err /\ HasBytes(Reply(h).call) => Reply(h).call \in ToSet(wire)
      BY <1>1, <1>2, <3>4 DEF ReportInv, BatchWritten
    <3> QED
      BY <1>1, <1>4, <2>2, <3>4, <3>5 DEF ReportInv, ResultsWritten, HasBytes
  <2> QED
    BY <2>1, <2>2
<1>7. AckedOnWire'
    BY <1>1 DEF ReportInv, AckedOnWire, HasBytes
<1> QED
    BY <1>5, <1>6, <1>7 DEF ReportInv

\* tx() returns the result that was sent.
LEMMA ResultReport ==
    ASSUME ReportInv, ~killed, NEW c \in Caller, Result(c)
    PROVE  ReportInv'
<1>1. UNCHANGED <<txproto, batch, dotx, err, wire>>
    BY DEF Result, queues
<1>2. PICK r \in respch :
          /\ r.call = call[c] /\ respch' = respch \ {r}
          /\ acked' = IF r.ok THEN acked \cup {call[c]} ELSE acked
    BY DEF Result, Listens
<1>3. BatchWritten' /\ ResultsWritten'
    BY <1>1, <1>2 DEF ReportInv, BatchWritten, ResultsWritten, HasBytes
<1>4. AckedOnWire'
    BY <1>1, <1>2 DEF ReportInv, ResultsWritten, AckedOnWire, HasBytes
<1> QED
    BY <1>3, <1>4 DEF ReportInv

\* ReportInv is inductive.
LEMMA NextReport ==
    TypeInv /\ OwnerInv /\ ReportInv /\ [Next]_vars => ReportInv'
<1> SUFFICES ASSUME TypeInv, OwnerInv, ReportInv, [Next]_vars, ~killed'
             PROVE  ReportInv'
    BY DEF ReportInv
<1>1. ~killed
    BY DEF Next, Begin, fromtxpool, Enqueue, Proceed, Fill, SendKilled, Result,
           WaitKilled, PutBack, doTx, Receive, Stop, Write, Unblock,
           Hang, CloseKillch, CloseConn, vars
<1>2. Owned /\ ToSet(batch) \subseteq Queued
    BY <1>1 DEF OwnerInv, Queued
<1>3. ASSUME NEW c \in Caller, fromtxpool(c) PROVE ReportInv'
  <2>1. UNCHANGED <<batch, dotx, err, wire, respch, acked>>
    BY <1>3 DEF fromtxpool, queues, history
  <2>2. Head(pTxcmd) \in ToSet(pTxcmd)
    BY <1>3, TailSet DEF fromtxpool, TypeInv, TypeOK
  <2>3. \A a \in TxCmd : a # Head(pTxcmd) => txproto'[a] = txproto[a]
    BY <1>3 DEF fromtxpool, TypeInv, TypeOK
  <2>4. \A a \in ToSet(batch) : a \in TxCmd /\ a # Head(pTxcmd)
    BY <1>2, <2>2, QueuedType DEF Owned, Apart
  <2> QED
    BY <1>1, <2>1, <2>3, <2>4, ReportKept
<1>4. ASSUME NEW c \in Caller, Fill(c) \/ PutBack(c) PROVE ReportInv'
  <2>1. UNCHANGED <<batch, dotx, err, wire, respch, acked>>
    BY <1>4 DEF Fill, PutBack, queues, history
  <2>2. \A a \in TxCmd : a # arg[c] => txproto'[a] = txproto[a]
    BY <1>4 DEF Fill, PutBack, TypeInv, TypeOK
  <2>3. Holds(c)
    BY <1>4 DEF Fill, PutBack, Holds
  <2>4. \A a \in ToSet(batch) : a \in TxCmd /\ a # arg[c]
    BY <1>2, <2>3, QueuedType DEF Owned, HeldApart
  <2> QED
    BY <1>1, <2>1, <2>2, <2>4, ReportKept
<1>5. ASSUME NEW c \in Caller, Begin(c) \/ Enqueue(c) PROVE ReportInv'
  <2>1. UNCHANGED <<batch, dotx, err, wire, respch, acked, txproto>>
    BY <1>5 DEF Begin, Enqueue, queues
  <2> QED
    BY <1>1, <2>1, ReportKept
<1>6. CASE Receive
  <2>1. dotx' # "unblock" /\ UNCHANGED <<wire, respch, acked>>
    BY <1>6 DEF Receive, history
  <2>2. BatchWritten' /\ ResultsWritten' /\ AckedOnWire'
    BY <1>1, <2>1
    DEF ReportInv, BatchWritten, ResultsWritten, AckedOnWire, HasBytes
  <2> QED
    BY <2>2 DEF ReportInv
<1>7. CASE UNCHANGED vars
    BY <1>1, <1>7, ReportKept DEF vars
<1> QED
    BY <1>1, <1>2, <1>3, <1>4, <1>5, <1>6, <1>7, ResultReport, WriteReport,
       UnblockReport, NoHang
    DEF Next, Proceed, SendKilled, WaitKilled, doTx, Stop, CloseKillch,
        CloseConn

\* As long as the transport is open tx() returns nil only for a packet that
\* is on the connection, whatever was batched with it and whichever writes
\* failed.
THEOREM AckMeansWritten == Spec => [](~killed => AckedOnWire)
<1>1. Init => OwnerInv
    BY InitOwned DEF OwnerInv
<1>2. Init => ReportInv
    BY DEF Init, ReportInv, BatchWritten, ResultsWritten, AckedOnWire
<1>3. ReportInv => (~killed => AckedOnWire)
    BY DEF ReportInv
<1>4. Spec => []ReportInv
    BY <1>1, <1>2, InitType, NextType, NextOwner, NextReport, PTL DEF Spec
<1> QED
    BY <1>3, <1>4, PTL
=============================================================================
