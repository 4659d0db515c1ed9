------------------------------ MODULE Receive -------------------------------
(***************************************************************************)
(* The way of a message from the connection to its handler, after Frame    *)
(* has cut its frame out of the byte stream: unmessage() copies the data   *)
(* out of doRx()'s only packet buffer into a buffer of the pool pData,     *)
(* syncRx() lends it to the handler, and puts it back.                     *)
(*                                                                         *)
(* A buffer is a memory block; what it holds is the number of the frame    *)
(* whose bytes were last copied into it.  Tag encoders are left out.       *)
(***************************************************************************)
EXTENDS Frame, SequencesExt

CONSTANTS
    ChanSize,   \* capacity of rxch
    PoolSize    \* capacity of pData

ASSUME ReceiveAssumption == ChanSize \in Nat \ {0} /\ PoolSize \in Nat

\* Blocks that can be in use at a time: pooled, in rxch, doRx()'s, a handler's.
Block == 1..(PoolSize + ChanSize + 2)

\* doRx()'s packet, and the nil Data of a finish or an invalid message.
PacketBlock == 0
NoBlock == -1

VARIABLES
    pData,      \* free blocks
    mem,        \* mem[b]: capacity of block b, and the frame that it holds
    pending,    \* doRx()'s rxpkt, on its way into rxch
    rxch,       \* packets for syncRx()
    handling,   \* the packet whose handler runs
    nread       \* frames read

rvars == <<pData, mem, pending, rxch, handling, nread>>
rcvars == <<vars, rvars>>

RInit ==
    /\ Init
    /\ pData = <<>>
    /\ mem = [b \in Block \cup {PacketBlock} |->
                  [cap |-> IF b = PacketBlock THEN PeerBuffer ELSE 0,
                   no |-> 0]]
    /\ pending = <<>> /\ rxch = <<>> /\ handling = <<>>
    /\ nread = 0

-----------------------------------------------------------------------------
(* doRx(). *)

\* readtp() strips the opaque and then tagMsg off the packet: the length of
\* what unmessage() is given.
readtp(f) == packetlen(f) - hdrlen(f.opaque) - hdrlen(msglen(f)) - hdrlen(43)

\* unmessage() reads tags and values until the break that ends the map; the
\* message is refused when that is not within msgdata, and when its id is 0,
\* which no message of Frames has.
datapos(f) == 1 + hdrlen(44) + f.id + hdrlen(45) + hdrlen(f.data)
unmessage(f) == f.kind = "message" /\ datapos(f) + f.data < readtp(f)

\* make([]byte, size): a block that nobody refers to.
Referred == ToSet(pData) \cup {s[1].b : s \in {pending, handling} \ {<<>>}}
                         \cup {rxch[i].b : i \in DOMAIN rxch}
Fresh == CHOOSE b \in Block : b \notin Referred

\* getdata(): the next block of the pool if it is large enough, or a new one.
getdata(size) ==
    IF pData = <<>> THEN [b |-> Fresh, cap |-> size, pool |-> pData]
    ELSE IF mem[Head(pData)].cap < size
         THEN [b |-> Fresh, cap |-> size, pool |-> Tail(pData)]
         ELSE [b |-> Head(pData), cap |-> mem[Head(pData)].cap,
               pool |-> Tail(pData)]

\* Mutant of CopyData: the message refers to doRx()'s packet.
CopyDataNot(f) ==
    /\ pending' = <<[no |-> nread + 1, len |-> f.data, b |-> PacketBlock]>>
    /\ mem' = [mem EXCEPT ![PacketBlock].no = nread + 1]
    /\ UNCHANGED pData

\* The end of unmessage(): data is copied out of the packet.
CopyData(f) ==
    LET d == getdata(f.data) IN
    /\ pending' = <<[no |-> nread + 1, len |-> f.data, b |-> d.b]>>
    /\ mem' = [mem EXCEPT ![PacketBlock].no = nread + 1,
                          ![d.b] = [cap |-> d.cap, no |-> nread + 1]]
    /\ pData' = d.pool

\* A packet without data.
NoData(f) ==
    /\ pending' = <<[no |-> nread + 1, len |-> 0, b |-> NoBlock]>>
    /\ mem' = [mem EXCEPT ![PacketBlock].no = nread + 1]
    /\ UNCHANGED pData

\* unframepkt() reads the prefix once the previous packet is in rxch.
unframePrefix ==
    /\ pending = <<>>
    /\ ReadPrefix
    /\ UNCHANGED rvars

\* unframepkt() reads the packet and takes it apart.
unframepkt ==
    LET f == Head(conn) IN
    /\ ReadBody
    /\ nread' = nread + 1
    /\ IF unmessage(f) THEN CopyData(f) ELSE NoData(f)
    /\ UNCHANGED <<rxch, handling>>

\* putch().
putch ==
    /\ pending # <<>>
    /\ Len(rxch) < ChanSize
    /\ rxch' = rxch \o pending
    /\ pending' = <<>>
    /\ UNCHANGED <<vars, pData, mem, handling, nread>>

-----------------------------------------------------------------------------
(* syncRx(). *)

\* putdata(): a full pool leaves the block to the garbage collector.
putdata(b) == pData' = IF Len(pData) < PoolSize THEN Append(pData, b)
                                                ELSE pData

\* Mutant of handlepkt: the block is given back before the handler runs.
handlepktEarly ==
    /\ handling = <<>>
    /\ rxch # <<>>
    /\ handling' = <<Head(rxch)>>
    /\ rxch' = Tail(rxch)
    /\ IF Head(rxch).b # NoBlock THEN putdata(Head(rxch).b)
                                 ELSE UNCHANGED pData
    /\ UNCHANGED <<vars, mem, pending, nread>>

\* The handler, or the callback of the stream, is called.
handlepkt ==
    /\ handling = <<>>
    /\ rxch # <<>>
    /\ handling' = <<Head(rxch)>>
    /\ rxch' = Tail(rxch)
    /\ UNCHANGED <<vars, pData, mem, pending, nread>>

\* It has returned, and the data goes back to the pool.
Handled ==
    /\ handling # <<>>
    /\ handling' = <<>>
    /\ IF handling[1].b # NoBlock THEN putdata(handling[1].b)
                                  ELSE UNCHANGED pData
    /\ UNCHANGED <<vars, mem, pending, rxch, nread>>

-----------------------------------------------------------------------------

RNext == \/ \E f \in Frames : Write(f) /\ UNCHANGED rvars
         \/ unframePrefix
         \/ unframepkt
         \/ putch
         \/ handlepkt
         \/ Handled

RSpec == RInit /\ [][RNext]_rcvars

\* The connection delivers, doRx() and syncRx() run, handlers return.
RFairSpec ==
    /\ RSpec
    /\ WF_rcvars(unframePrefix \/ unframepkt \/ putch)
    /\ WF_rcvars(handlepkt \/ Handled)

-----------------------------------------------------------------------------
(* Properties. *)

\* Packets that are read and not yet handled.
InFlight == ToSet(pending) \cup ToSet(rxch) \cup ToSet(handling)

\* A message reaches its handler as it was sent: while it is queued, and as
\* long as the handler runs, its block is large enough for it and keeps the
\* bytes of its own frame, although doRx() reads on into its packet and takes
\* blocks from the pool.  The data of an open map is never refused.
DataIntact ==
    /\ \A k \in InFlight : k.b # NoBlock =>
           mem[k.b].no = k.no /\ k.len =< mem[k.b].cap
    /\ rx = "body" => (unmessage(Head(conn)) <=> Head(conn).kind = "message")

\* No block has two users: the pool has it once, and nobody else refers to it.
\* The pool stays within its capacity.
BlocksApart ==
    /\ Len(pData) =< PoolSize
    /\ \A i, j \in DOMAIN pData : i # j => pData[i] # pData[j]
    /\ \A k \in InFlight : k.b \notin ToSet(pData)
    /\ \A k, l \in InFlight : k # l /\ k.b # NoBlock => k.b # l.b

\* Every frame is read to its end, without another one following it, and its
\* message is handled.
EveryFrameHandled ==
    conn # <<>> ~> conn = <<>> /\ InFlight = {}
=============================================================================
