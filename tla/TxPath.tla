------------------------------- MODULE TxPath -------------------------------
(***************************************************************************)
(* The transmit path of one transport: tx() and txasync() hand pooled      *)
(* txproto objects to the routine doTx(), which batches them, writes the   *)
(* batch with a single conn.Write() and unblocks the callers.              *)
(*                                                                         *)
(* txch and batch carry pointers: doTx() reads the fields of an object     *)
(* when it drains the batch, not when the caller sent it.  Which routine   *)
(* may touch an object is settled by who holds its pointer, as long as the *)
(* transport is not closed.                                                *)
(***************************************************************************)
EXTENDS Naturals, Sequences, FiniteSets, SequencesExt

CONSTANTS
    Caller,     \* application routines, and
    Ticker,     \* the routine of FlushPeriod()
    KindOf,     \* KindOf[c]: the calls that routine c makes
    PoolSize,   \* txproto objects: opaque.end-opaque.start+1+batchsize
    BatchSize,  \* "batchsize"
    TxchSize,   \* capacity of txch, chansize+batchsize
    MayClose,   \* TRUE: somebody calls Close()
    MayFail,    \* TRUE: conn.Write() may fail
    MaxCall     \* bound: calls made by a routine (the ticker's don't count)

\* Post() and the methods of Stream use txasync(), the others tx(); flush is
\* the argument the application passes.
CallKind == [api : {"Post", "Request", "Stream"}, flush : BOOLEAN]
Tick == [api |-> "FlushPeriod", flush |-> TRUE]

TxCmd == 1..PoolSize
NoCmd == 0

ASSUME TxPathAssumption ==
    /\ Ticker \in Caller
    /\ KindOf \in [Caller -> SUBSET CallKind]
    /\ PoolSize \in Nat
    /\ PoolSize > BatchSize
    /\ BatchSize \in Nat \ {0}
    /\ TxchSize \in Nat \ {0}
    /\ MayClose \in BOOLEAN
    /\ MayFail \in BOOLEAN
    /\ MaxCall \in Nat

Call == [c : Caller, n : 1..MaxCall, k : CallKind]
            \cup [c : {Ticker}, n : {0}, k : {Tick}]
NoCall == [n |-> 0]

\* A packet is named by the call that framed it.  A packet slice that has
\* been reset to its capacity holds no frame.
Garbage == [n |-> 1]
Packet == Call \cup {Garbage}

TxProto == [packet : Packet, flush : BOOLEAN, async : BOOLEAN,
            respch : Call \cup {NoCall}]

VARIABLES
    pTxcmd,     \* the channel of free txproto objects
    txproto,    \* txproto[a]: the fields of object a
    txch,       \* pointers on their way to doTx()
    batch,      \* doTx()'s batch
    dotx,       \* what doTx() is doing
    err,        \* doTx()'s err in drainbuffers()
    wire,       \* packets written on the connection
    conn,       \* "up", or "down" once a write failed or it was closed
    killed,     \* killch is closed
    pc, arg, call,      \* per routine: where it is, its arg, its call
    respch,     \* results in the respch of some call: [call, ok]
    ncall,      \* calls made, per routine
    ticking,    \* FlushPeriod() was called, its routine has not returned
    accepted,   \* history: the calls in the order their arg entered txch
    acked       \* history: calls whose tx() returned nil

vars == <<pTxcmd, txproto, txch, batch, dotx, err, wire, conn, killed, pc,
          arg, call, respch, ncall, ticking, accepted, acked>>

queues == <<txch, batch, dotx, err, wire, conn>>
history == <<ncall, ticking, accepted, acked>>

Init ==
    /\ pTxcmd = [i \in 1..PoolSize |-> i]
    /\ txproto = [a \in TxCmd |-> [packet |-> Garbage, flush |-> FALSE,
                                   async |-> FALSE, respch |-> NoCall]]
    /\ txch = <<>>
    /\ batch = <<>>
    /\ dotx = "select"
    /\ err = FALSE
    /\ wire = <<>>
    /\ conn = "up"
    /\ killed = FALSE
    /\ pc = [c \in Caller |-> "idle"]
    /\ arg = [c \in Caller |-> NoCmd]
    /\ call = [c \in Caller |-> NoCall]
    /\ respch = {}
    /\ ncall = [c \in Caller |-> 0]
    /\ ticking \in BOOLEAN
    /\ accepted = <<>>
    /\ acked = {}

-----------------------------------------------------------------------------
(* Helpers. *)

async(m) == m.k.api = "Post"

\* Mutant of flush: the empty packet of FlushPeriod() asks for no flush.
flushNoTick(m) == m.k.flush /\ m.k.api \notin {"Stream", "FlushPeriod"}

\* Transport.Stream() passes false to tx(), whatever its argument.
flush(m) == m.k.flush /\ m.k.api # "Stream"

\* FlushPeriod() sends an empty packet; everything else has bytes to write.
HasBytes(m) == m = Garbage \/ m.k # Tick

Goto(c, l) == pc' = [pc EXCEPT ![c] = l]

\* `t.pTxcmd <- arg`.
ToPool(a) ==
    /\ Len(pTxcmd) < PoolSize
    /\ pTxcmd' = Append(pTxcmd, a)

\* What object a adds to the buffer that drainbuffers() writes.
Bytes(a) ==
    IF HasBytes(txproto[a].packet) THEN <<txproto[a].packet>> ELSE <<>>

\* The packets that the objects in s hold, one after the other.
Packets(s) == FlattenSeq([i \in DOMAIN s |-> Bytes(s[i])])

-----------------------------------------------------------------------------
(* tx() and txasync(). *)

\* A routine makes a call; the ticker makes its call at every tick, until one
\* has failed or it has seen killch after one.
Begin(c) ==
    /\ pc[c] = "idle"
    /\ \/ /\ c # Ticker
          /\ ncall[c] < MaxCall
          /\ ncall' = [ncall EXCEPT ![c] = @ + 1]
          /\ \E k \in KindOf[c] :
                call' = [call EXCEPT ![c] = [c |-> c, n |-> ncall[c] + 1,
                                             k |-> k]]
       \/ /\ c = Ticker
          /\ ticking
          /\ call' = [call EXCEPT ![c] = [c |-> c, n |-> 0, k |-> Tick]]
          /\ UNCHANGED ncall
    /\ Goto(c, "take")
    /\ UNCHANGED <<pTxcmd, txproto, queues, killed, arg, respch, ticking,
                   accepted, acked>>

\* fromtxpool(): the next object of the pool, its fields reset.
fromtxpool(c) ==
    LET a == Head(pTxcmd) IN
    /\ pc[c] = "take"
    /\ pTxcmd # <<>>
    /\ pTxcmd' = Tail(pTxcmd)
    /\ txproto' = [txproto EXCEPT ![a] =
           [@ EXCEPT !.flush = FALSE, !.async = FALSE, !.respch = NoCall]]
    /\ arg' = [arg EXCEPT ![c] = a]
    /\ Goto(c, "fill")
    /\ UNCHANGED <<queues, killed, call, respch, history>>

\* The caller copies its packet and sets the fields.
Fill(c) ==
    /\ pc[c] = "fill"
    /\ txproto' = [txproto EXCEPT ![arg[c]] =
           [packet |-> call[c], flush |-> flush(call[c]),
            async |-> async(call[c]),
            respch |-> IF async(call[c]) THEN NoCall ELSE call[c]]]
    /\ Goto(c, "send")
    /\ UNCHANGED <<pTxcmd, queues, killed, arg, call, respch, history>>

\* Mutant of AfterEnqueue: txasync() defers giving its arg back, as tx() does.
AfterEnqueuePutsBack(c) == IF async(call[c]) THEN "putback" ELSE "wait"

\* txasync() returns, tx() waits for its result.
AfterEnqueue(c) == IF async(call[c]) THEN "idle" ELSE "wait"

\* `case t.txch <- arg`: txasync() returns nil, tx() waits for its result.
Enqueue(c) ==
    /\ pc[c] = "send"
    /\ Len(txch) < TxchSize
    /\ txch' = Append(txch, arg[c])
    /\ accepted' = IF HasBytes(call[c]) THEN Append(accepted, call[c])
                                        ELSE accepted
    /\ Goto(c, AfterEnqueue(c))
    /\ UNCHANGED <<pTxcmd, txproto, batch, dotx, err, wire, conn, killed, arg,
                   call, respch, ncall, ticking, acked>>

\* `case <-t.killch` of the same select: txasync() drops its arg, tx() has
\* deferred giving it back.
SendKilled(c) ==
    /\ pc[c] = "send"
    /\ killed
    /\ Goto(c, IF async(call[c]) THEN "idle" ELSE "putback")
    /\ ticking' = (ticking /\ c # Ticker)
    /\ UNCHANGED <<pTxcmd, txproto, queues, killed, arg, call, respch,
                   ncall, accepted, acked>>

\* The channels that routine c may be listening to.  After Close() a call that
\* has pooled its object too early may share it with the next one; the read
\* of arg.respch then races with the assignments of that one.
Listens(c) ==
    {call[c]} \cup (IF killed THEN {txproto[arg[c]].respch} ELSE {})

\* `case resp := <-arg.respch`.
Result(c) ==
    /\ pc[c] = "wait"
    /\ \E r \in respch :
        /\ r.call \in Listens(c)
        /\ respch' = respch \ {r}
        /\ acked' = IF r.ok THEN acked \cup {call[c]} ELSE acked
        /\ ticking' = (ticking /\ (c = Ticker => r.ok))
    /\ Goto(c, "putback")
    /\ UNCHANGED <<pTxcmd, txproto, queues, killed, arg, call, ncall,
                   accepted>>

\* Mutant of WaitKilled: the inner select has no such case.
WaitKilledNever(c) == FALSE /\ UNCHANGED vars

\* Mutant of WaitKilled: tx() returns without giving its arg back.
WaitKilledDrops(c) ==
    /\ pc[c] = "wait"
    /\ killed
    /\ Goto(c, "idle")
    /\ UNCHANGED <<pTxcmd, txproto, queues, killed, arg, call, respch,
                   history>>

\* `case <-t.killch` while waiting for the result.
WaitKilled(c) ==
    /\ pc[c] = "wait"
    /\ killed
    /\ Goto(c, "putback")
    /\ ticking' = (ticking /\ c # Ticker)
    /\ UNCHANGED <<pTxcmd, txproto, queues, killed, arg, call, respch,
                   ncall, accepted, acked>>

\* The deferred function of tx(), with which it returns.
PutBack(c) ==
    /\ pc[c] = "putback"
    /\ txproto' = [txproto EXCEPT ![arg[c]].packet = Garbage]
    /\ ToPool(arg[c])
    /\ Goto(c, "idle")
    /\ ticking' = (ticking /\ (c = Ticker => ~killed))
    /\ UNCHANGED <<queues, killed, arg, call, respch, ncall, accepted,
                   acked>>

-----------------------------------------------------------------------------
(* doTx(). *)

\* Mutant of Drains: compares the length before the append.
DrainsLate(a) == txproto[a].flush \/ Len(batch) >= BatchSize

\* Mutant of Drains: flush is ignored.
DrainsWhenFull(a) == Len(batch) + 1 >= BatchSize

\* Whether the batch is drained once object a is in it.
Drains(a) == txproto[a].flush \/ Len(batch) + 1 >= BatchSize

\* Mutant of Receive: the newest object goes first.
ReceivePrepends ==
    /\ dotx = "select"
    /\ txch # <<>>
    /\ batch' = <<Head(txch)>> \o batch
    /\ txch' = Tail(txch)
    /\ dotx' = IF Drains(Head(txch)) THEN "drain" ELSE "select"
    /\ UNCHANGED <<pTxcmd, txproto, err, wire, conn, killed, pc, arg, call,
                   respch, history>>

\* `case arg := <-t.txch`: batch it, and drain at a flush or a full batch.
Receive ==
    /\ dotx = "select"
    /\ txch # <<>>
    /\ batch' = Append(batch, Head(txch))
    /\ txch' = Tail(txch)
    /\ dotx' = IF Drains(Head(txch)) THEN "drain" ELSE "select"
    /\ UNCHANGED <<pTxcmd, txproto, err, wire, conn, killed, pc, arg, call,
                   respch, history>>

\* `case <-t.killch`.  Go picks either case when both are ready.
Stop ==
    /\ dotx = "select"
    /\ killed
    /\ dotx' = "stopped"
    /\ UNCHANGED <<pTxcmd, txproto, txch, batch, err, wire, conn, killed, pc,
                   arg, call, respch, history>>

\* drainbuffers(), first half: one Write() of all packets in the batch.  A
\* Write() that fails may have written some of them, and so will the later
\* ones fail: doTx() itself goes on.
Write ==
    /\ dotx = "drain"
    /\ dotx' = "unblock"
    /\ \/ /\ Packets(batch) = <<>>
          /\ err' = FALSE
          /\ UNCHANGED <<wire, conn>>
       \/ /\ Packets(batch) # <<>>
          /\ conn = "up"
          /\ wire' = wire \o Packets(batch)
          /\ err' = FALSE
          /\ UNCHANGED conn
       \/ /\ Packets(batch) # <<>>
          /\ conn = "up"
          /\ MayFail
          /\ \E n \in 0..(Len(Packets(batch)) - 1) :
                wire' = wire \o SubSeq(Packets(batch), 1, n)
          /\ conn' = "down"
          /\ err' = TRUE
       \/ /\ Packets(batch) # <<>>
          /\ conn = "down"
          /\ err' = TRUE
          /\ UNCHANGED <<wire, conn>>
    /\ UNCHANGED <<pTxcmd, txproto, txch, batch, killed, pc, arg, call,
                   respch, history>>

\* Mutant of Reply: the err of conn.Write() is shadowed and lost.
ReplyNil(a) == [call |-> txproto[a].respch, ok |-> TRUE]

\* arg.n, arg.err as the caller will find them.
Reply(a) == [call |-> txproto[a].respch, ok |-> ~err]

\* drainbuffers(), second half, for the next object of the batch: it goes
\* back to the pool, or its result to the caller.
Unblock ==
    LET a == Head(batch) IN
    /\ dotx = "unblock"
    /\ \/ /\ txproto[a].async
          /\ txproto' = [txproto EXCEPT ![a].packet = Garbage]
          /\ ToPool(a)
          /\ UNCHANGED respch
       \/ /\ ~txproto[a].async
          /\ txproto[a].respch # NoCall
          /\ \A r \in respch : r.call # txproto[a].respch
          /\ respch' = respch \cup {Reply(a)}
          /\ UNCHANGED <<pTxcmd, txproto>>
    /\ batch' = Tail(batch)
    /\ dotx' = IF Tail(batch) = <<>> THEN "select" ELSE "unblock"
    /\ UNCHANGED <<txch, err, wire, conn, killed, pc, arg, call, history>>

\* The send on arg.respch blocks for ever: the object was taken again after
\* Close() and has no channel yet, or the channel still holds a result that
\* nobody will read.
Hang ==
    LET ch == txproto[Head(batch)].respch IN
    /\ dotx = "unblock"
    /\ ~txproto[Head(batch)].async
    /\ \/ ch = NoCall
       \/ /\ \E r \in respch : r.call = ch
          /\ \A c \in Caller : pc[c] = "wait" => ch \notin Listens(c)
    /\ dotx' = "stopped"
    /\ UNCHANGED <<pTxcmd, txproto, txch, batch, err, wire, conn, killed, pc,
                   arg, call, respch, history>>

-----------------------------------------------------------------------------
(* Transport.Close(): killch first, the connection last. *)

CloseKillch ==
    /\ MayClose
    /\ ~killed
    /\ killed' = TRUE
    /\ UNCHANGED <<pTxcmd, txproto, queues, pc, arg, call, respch, history>>

CloseConn ==
    /\ killed
    /\ conn = "up"
    /\ conn' = "down"
    /\ UNCHANGED <<pTxcmd, txproto, txch, batch, dotx, err, wire, killed, pc,
                   arg, call, respch, history>>

-----------------------------------------------------------------------------

doTx == Receive \/ Stop \/ Write \/ Unblock \/ Hang

Proceed(c) == \/ fromtxpool(c)
              \/ Fill(c)
              \/ Enqueue(c)
              \/ SendKilled(c)
              \/ Result(c)
              \/ WaitKilled(c)
              \/ PutBack(c)

Next == \/ \E c \in Caller : Begin(c) \/ Proceed(c)
        \/ doTx
        \/ CloseKillch
        \/ CloseConn

Spec == Init /\ [][Next]_vars

\* Runnable routines run and the ticker ticks.  Routines blocked on a Go
\* channel are served in the order they came, hence the strong fairness of a
\* call, which is at one channel operation at a time.
Fairness ==
    /\ WF_vars(doTx)
    /\ WF_vars(CloseConn)
    /\ \A c \in Caller : SF_vars(Proceed(c))
    /\ WF_vars(Begin(Ticker))

FairSpec == Spec /\ Fairness

-----------------------------------------------------------------------------
(* Properties. *)

\* The types of the variables; txch and batch stay within their capacity.
TypeOK ==
    /\ pTxcmd \in Seq(TxCmd) /\ Len(pTxcmd) =< PoolSize
    /\ txproto \in [TxCmd -> TxProto]
    /\ txch \in Seq(TxCmd) /\ Len(txch) =< TxchSize
    /\ batch \in Seq(TxCmd) /\ Len(batch) =< BatchSize
    /\ dotx \in {"select", "drain", "unblock", "stopped"}
    /\ dotx \in {"drain", "unblock"} => batch # <<>>
    /\ err \in BOOLEAN
    /\ wire \in Seq(Packet)
    /\ conn \in {"up", "down"}
    /\ killed \in BOOLEAN
    /\ pc \in [Caller -> {"idle", "take", "fill", "send", "wait", "putback"}]
    /\ arg \in [Caller -> TxCmd \cup {NoCmd}]
    /\ \A c \in Caller :
           pc[c] \in {"fill", "send", "wait", "putback"} => arg[c] \in TxCmd
    /\ call \in [Caller -> Call \cup {NoCall}]
    /\ \A c \in Caller : pc[c] # "idle" => call[c] \in Call
    /\ respch \in SUBSET [call : Call, ok : BOOLEAN]
    /\ ncall \in [Caller -> 0..MaxCall]
    /\ ticking \in BOOLEAN
    /\ accepted \in Seq(Call)
    /\ acked \in SUBSET Call

\* Routine c may touch object a: it has taken it and not sent it yet, or the
\* result has come back.
Owns(c, a) ==
    /\ arg[c] = a
    /\ \/ pc[c] \in {"fill", "send", "putback"}
       \/ pc[c] = "wait" /\ \E r \in respch : r.call = call[c]

Occurrences(a, s) == {i \in DOMAIN s : s[i] = a}

\* Until the transport is closed every txproto object is in exactly one
\* place: the pool, one routine's hands, txch or batch.  So nobody writes the
\* fields of an object that doTx() is about to read, and none is lost.
OneOwner ==
    ~killed => \A a \in TxCmd :
        Cardinality(Occurrences(a, pTxcmd))
            + Cardinality({c \in Caller : Owns(c, a)})
            + Cardinality(Occurrences(a, txch))
            + Cardinality(Occurrences(a, batch)) = 1

\* Also when calls overlap with Close() no object is lost, so that it is
\* neither queued nor pooled nor in a routine's hands, but the one of a
\* txasync() that saw killch.  fromtxpool() waits for ever once all are lost.
LostOnlyAsync ==
    \A a \in TxCmd :
        \/ a \in ToSet(pTxcmd) \cup ToSet(txch) \cup ToSet(batch)
        \/ \E c \in Caller : arg[c] = a /\ pc[c] \notin {"idle", "take"}
        \/ killed /\ txproto[a].async

\* The part of the batch that is still to be written.
Unwritten == IF dotx = "unblock" THEN <<>> ELSE batch

\* Until the transport is closed, what was accepted is on the connection or
\* still queued, once each and in the order of acceptance; once a write has
\* failed, the connection has a prefix of it and no holes.
InOrder ==
    ~killed => IF conn = "up"
               THEN accepted = wire \o Packets(Unwritten) \o Packets(txch)
               ELSE IsPrefix(wire, accepted)

\* tx() reports success only for a packet that is on the connection.
AckedOnWire ==
    \A m \in acked : HasBytes(m) => m \in ToSet(wire)

\* A synchronous call whose flush argument is true returns on its own: no
\* other traffic and no periodic flusher is needed.
FlushedReturn ==
    \A c \in Caller :
        pc[c] = "wait" /\ call[c].k.flush ~> pc[c] = "idle"

\* Routine c cannot give its object back: the pool is full although c holds an
\* object, since one that overlapped with Close() was recycled twice.
Jammed(c) == killed /\ pc[c] = "putback" /\ Len(pTxcmd) = PoolSize

\* Every synchronous call returns: by its own flush, by the periodic flusher,
\* or when the transport is closed.  The ones that may stay are a call without
\* flush while there is no flusher, or none any more since a write has failed,
\* and one that overlaps with Close() and finds the pool jammed for ever.
WaitersReturn ==
    \A c \in Caller :
        pc[c] = "wait" ~> \/ pc[c] = "idle"
                          \/ ~flush(call[c]) /\ ~ticking /\ ~killed
                          \/ []Jammed(c)
=============================================================================
