--------------------------- MODULE ReceiveProofs ----------------------------
(***************************************************************************)
(* Proofs about Frame and Receive: for all messages, opaques and buffer    *)
(* sizes, reader and writer agree on the extent of every frame; and for    *)
(* all channel and pool sizes the data of a message is its own until its   *)
(* handler returns.                                                        *)
(***************************************************************************)
EXTENDS Receive, TLAPS, SequenceTheorems, FiniteSetTheorems

-----------------------------------------------------------------------------
(* Frame. *)

\* What the proofs need of the constants.
LEMMA Sizes ==
    /\ BufferSize \in Nat /\ PeerBuffer \in Nat /\ BufferSize =< PeerBuffer
    /\ \A o \in Opaque : o \in Nat /\ o >= 266
    /\ \A d \in DataLen : d \in Nat
BY SizeAssumption DEF TagOpaqueStart

\* The parts of a frame are byte counts.
LEMMA FrameTypes ==
    ASSUME NEW f \in Frames
    PROVE  /\ f.opaque \in Nat /\ f.opaque >= 266
           /\ f.kind \in FrameKind
           /\ f.data \in Nat /\ f.id \in Nat
           /\ msglen(f) \in Nat /\ packetlen(f) \in Nat /\ framelen(f) \in Nat
<1>1. /\ f.opaque \in Opaque /\ f.kind \in FrameKind
      /\ f.data \in DataLen /\ f.id \in IdLen
    BY DEF Frames
<1>2. f.opaque \in Nat /\ f.opaque >= 266
    BY <1>1, Sizes
<1>3. f.data \in Nat /\ f.id \in Nat
    BY <1>1, Sizes DEF IdLen
<1>4. \A v \in Nat : hdrlen(v) \in Nat /\ bytes2cbor(v) \in Nat
    BY DEF hdrlen, bytes2cbor
<1>5. msglen(f) \in Nat
    BY <1>3, <1>4 DEF msglen
<1>6. packetlen(f) \in Nat
    BY <1>2, <1>4, <1>5 DEF packetlen
<1>7. framelen(f) \in Nat
    BY <1>4, <1>6 DEF framelen
<1> QED
    BY <1>1, <1>2, <1>3, <1>5, <1>6, <1>7

\* A packet is at least 4 bytes: an opaque takes 3 or 5 and a payload 1.  So
\* the 9 bytes of the first read are within the frame, and the part of them
\* that belongs to the packet is at most the packet.
LEMMA PrefixFits ==
    ASSUME NEW f \in Frames
    PROVE  /\ packetlen(f) >= 4
           /\ framelen(f) >= 9
           /\ padlen - 4 - hdrlen(itemlen(f)) =< bodylen(f)
           /\ bodylen(f) =< framelen(f)
<1>1. hdrlen(f.opaque) >= 3 /\ hdrlen(f.opaque) \in Nat
    BY FrameTypes DEF hdrlen
<1>2. \A v \in Nat : bytes2cbor(v) \in Nat /\ bytes2cbor(v) >= v + 1
    BY DEF hdrlen, bytes2cbor
<1>3. packetlen(f) >= 4
    BY <1>1, <1>2, FrameTypes DEF packetlen
<1>4. hdrlen(packetlen(f)) \in 1..5
    BY FrameTypes DEF hdrlen
<1> QED
    BY <1>2, <1>3, <1>4, FrameTypes DEF framelen, bodylen, itemlen, padlen

\* The two reads of unframepkt() together take the bytes of one frame.
LEMMA ReadsOneFrame ==
    ASSUME NEW f \in Frames
    PROVE  padlen + (bodylen(f) - (padlen - 4 - hdrlen(itemlen(f))))
               = framelen(f)
<1>1. hdrlen(packetlen(f)) \in Nat
    BY FrameTypes DEF hdrlen
<1> QED
    BY <1>1, FrameTypes DEF padlen, bodylen, itemlen, framelen, bytes2cbor

\* Every step preserves the invariant.
LEMMA NextInv == FrameInv /\ [Next]_vars => FrameInv'
<1> SUFFICES ASSUME FrameInv, [Next]_vars
             PROVE  FrameInv'
    OBVIOUS
<1>1. CASE UNCHANGED vars
    BY <1>1 DEF vars, FrameInv
<1>2. ASSUME NEW f \in Frames, Write(f) PROVE FrameInv'
  <2>1. conn' \in Seq(Frames) /\ conn' # <<>>
    BY <1>2 DEF Write, FrameInv
  <2>2. \A i \in 1..Len(conn') : framelen(conn'[i]) =< BufferSize
    BY <1>2 DEF Write, FrameInv
  <2>3. conn # <<>> => Head(conn') = Head(conn)
    BY <1>2 DEF Write, FrameInv
  <2> QED
    BY <1>2, <2>1, <2>2, <2>3 DEF Write, FrameInv
<1>3. CASE ReadPrefix
  <2>1. conn # <<>> /\ Head(conn) \in Frames
    BY <1>3 DEF ReadPrefix, Arrived, FrameInv
  <2>2. bodylen(Head(conn)) \in Int /\ hdrlen(itemlen(Head(conn))) \in Int
    BY <2>1, FrameTypes DEF bodylen, itemlen, hdrlen
  <2> QED
    BY <1>3, <2>1, <2>2 DEF ReadPrefix, FrameInv, padlen
<1>4. CASE ReadBody
  <2>1. conn # <<>> /\ Head(conn) \in Frames
    BY <1>4 DEF ReadBody, FrameInv
  <2>2. framelen(Head(conn)) =< BufferSize
    BY <2>1 DEF FrameInv
  <2>3. n =< ln /\ ln =< PeerBuffer
    BY <1>4, <2>1, <2>2, PrefixFits, FrameTypes, Sizes
    DEF ReadBody, FrameInv
  <2>4. off + (ln - n) - framelen(Head(conn)) = 0
    <3> DEFINE f == Head(conn)
    <3>1. /\ off = padlen /\ ln = bodylen(f)
          /\ n = padlen - 4 - hdrlen(itemlen(f))
        BY <1>4 DEF ReadBody, FrameInv
    <3>2. bodylen(f) \in Int /\ hdrlen(itemlen(f)) \in Int
        BY <2>1, FrameTypes DEF bodylen, itemlen, hdrlen
    <3>3. framelen(f) \in Int
        BY <2>1, FrameTypes
    <3>4. padlen + (bodylen(f) - (padlen - 4 - hdrlen(itemlen(f))))
              = framelen(f)
        BY <2>1, ReadsOneFrame
    <3> QED
        BY <3>1, <3>2, <3>3, <3>4 DEF padlen
  <2>5. /\ Tail(conn) \in Seq(Frames)
        /\ \A i \in 1..Len(Tail(conn)) : framelen(Tail(conn)[i]) =< BufferSize
    BY <2>1 DEF FrameInv
  <2> QED
    <3>1. /\ conn' = Tail(conn) /\ off' = 0 /\ rx' = "prefix"
          /\ UNCHANGED <<ln, n, nframe>>
        BY <1>4, <2>3, <2>4 DEF ReadBody
    <3> QED
        BY <2>5, <3>1 DEF FrameInv
<1> QED
    BY <1>1, <1>2, <1>3, <1>4 DEF Next

\* What the reader knows of the frame that it reads is right at every moment:
\* the counts that unframepkt() slices with are those of the frame written.
THEOREM AlwaysFrameInv == Spec => []FrameInv
<1>1. Init => FrameInv
    BY DEF Init, FrameInv
<1>2. FrameInv /\ [Next]_vars => FrameInv'
    BY NextInv
<1> QED
    BY <1>1, <1>2, PTL DEF Spec

\* Reader and writer stay in step for ever: unframepkt() neither panics nor
\* meets a wrong prefix on what a peer of the same buffersize has framed.
THEOREM AlwaysInSync == Spec => []InSync
<1>1. FrameInv => InSync
    BY DEF FrameInv, InSync
<1> QED
    BY <1>1, AlwaysFrameInv, PTL

-----------------------------------------------------------------------------
(* Receive: definitions. *)

Cell == [cap : Nat, no : Nat]
Rxpkt == [no : Nat, len : Nat, b : Block \cup {NoBlock}]

\* The packets that are read and not yet handled, oldest first.
Queue == (handling \o rxch) \o pending

\* The types of Receive's variables; doRx() has no packet while it reads.
RTypeInv ==
    /\ pData \in Seq(Block) /\ Len(pData) =< PoolSize
    /\ mem \in [Block \cup {PacketBlock} -> Cell]
    /\ pending \in Seq(Rxpkt) /\ Len(pending) =< 1
    /\ rxch \in Seq(Rxpkt) /\ Len(rxch) =< ChanSize
    /\ handling \in Seq(Rxpkt) /\ Len(handling) =< 1
    /\ nread \in Nat
    /\ rx = "body" => pending = <<>>

\* The packets Q, the pool s and the memory m agree: a packet with data has a
\* block of its own, which holds the packet's frame and is not in the pool.
\* The positions of Q are what is apart, not only its members.
Agree(Q, s, m) ==
    /\ \A i \in 1..Len(Q) : Q[i].b # NoBlock =>
           /\ m[Q[i].b].no = Q[i].no /\ Q[i].len =< m[Q[i].b].cap
           /\ Q[i].b \notin ToSet(s)
    /\ \A i, j \in 1..Len(Q) : i # j /\ Q[i].b # NoBlock => Q[i].b # Q[j].b
    /\ \A i, j \in 1..Len(s) : i # j => s[i] # s[j]

RecvInv ==
    /\ FrameInv
    /\ RTypeInv
    /\ Agree(Queue, pData, mem)

-----------------------------------------------------------------------------
(* Sequences. *)

\* The elements of a concatenation.
LEMMA CatElements ==
    ASSUME NEW S, NEW s \in Seq(S), NEW t \in Seq(S)
    PROVE  /\ s \o t \in Seq(S)
           /\ Len(s \o t) = Len(s) + Len(t)
           /\ ToSet(s \o t) = ToSet(s) \cup ToSet(t)
<1> DEFINE u == s \o t
           m == Len(s)
           k == Len(t)
<1>1. /\ m \in Nat /\ k \in Nat /\ DOMAIN s = 1..m /\ DOMAIN t = 1..k
      /\ DOMAIN u = 1..(m + k) /\ u \in Seq(S) /\ Len(u) = m + k
    OBVIOUS
<1>2. \A i \in 1..m : u[i] = s[i]
    OBVIOUS
<1>3. \A i \in 1..k : u[m + i] = t[i]
    OBVIOUS
<1>4. \A i \in (m + 1)..(m + k) : u[i] = t[i - m]
    OBVIOUS
<1>5. SUFFICES ToSet(u) = ToSet(s) \cup ToSet(t)
    BY <1>1
<1> HIDE DEF u, m, k
<1>6. ASSUME NEW i \in 1..(m + k)
      PROVE  u[i] \in ToSet(s) \cup ToSet(t)
  <2>1. CASE i \in 1..m
    BY <1>1, <1>2, <2>1 DEF ToSet
  <2>2. CASE i \notin 1..m
    <3>1. i \in (m + 1)..(m + k) /\ i - m \in 1..k
      BY <1>1, <2>2
    <3> QED
      BY <1>1, <1>4, <3>1 DEF ToSet
  <2> QED
    BY <2>1, <2>2
<1>7. ToSet(u) \subseteq ToSet(s) \cup ToSet(t)
    BY <1>1, <1>6 DEF ToSet
<1>8. /\ \A i \in 1..m : i \in 1..(m + k)
      /\ \A i \in 1..k : m + i \in 1..(m + k)
    BY <1>1
<1>9. ToSet(s) \subseteq ToSet(u)
    BY <1>1, <1>2, <1>8 DEF ToSet
<1>10. ToSet(t) \subseteq ToSet(u)
    BY <1>1, <1>3, <1>8 DEF ToSet
<1> QED
    BY <1>7, <1>9, <1>10

\* A sequence of at most one element.
LEMMA OneElement ==
    ASSUME NEW S, NEW s \in Seq(S), s # <<>>, Len(s) =< 1
    PROVE  s[1] \in S /\ s = <<s[1]>>
<1>1. Len(s) = 1
  <2>1. Len(s) \in Nat /\ Len(s) # 0
    BY EmptySeq
  <2> QED
    BY <2>1
<1> DEFINE t == <<s[1]>>
<1>2. s[1] \in S
    BY <1>1
<1>3. t \in Seq(S) /\ Len(t) = 1 /\ t[1] = s[1]
    BY <1>2
<1> HIDE DEF t
<1>4. s = t
    BY <1>1, <1>3, SeqEqual
<1> QED
    BY <1>2, <1>4 DEF t

\* The queue and its packets.
LEMMA QueueElements ==
    ASSUME RTypeInv
    PROVE  Queue \in Seq(Rxpkt) /\ ToSet(Queue) = InFlight
<1>1. /\ handling \o rxch \in Seq(Rxpkt)
      /\ ToSet(handling \o rxch) = ToSet(handling) \cup ToSet(rxch)
    BY CatElements DEF RTypeInv
<1>2. /\ Queue \in Seq(Rxpkt)
      /\ ToSet(Queue) = ToSet(handling \o rxch) \cup ToSet(pending)
  <2> DEFINE a == handling \o rxch
  <2>1. a \in Seq(Rxpkt) /\ pending \in Seq(Rxpkt)
    BY <1>1 DEF RTypeInv
  <2> HIDE DEF a
  <2>2. a \o pending \in Seq(Rxpkt)
        /\ ToSet(a \o pending) = ToSet(a) \cup ToSet(pending)
    BY <2>1, CatElements
  <2> QED
    BY <2>2 DEF a, Queue
<1> QED
    BY <1>1, <1>2 DEF InFlight

-----------------------------------------------------------------------------
(* A block for a message. *)

\* There are more blocks than can be in use when doRx() needs one.
LEMMA FreshExists ==
    ASSUME RTypeInv, pending = <<>>
    PROVE  Fresh \in Block /\ Fresh \notin Referred
<1> SUFFICES ASSUME Block \subseteq Referred
             PROVE  FALSE
    BY DEF Fresh
<1> DEFINE P == PoolSize
           C == ChanSize
           At(i) == IF i =< P THEN pData[i]
                    ELSE IF i =< P + C THEN rxch[i - P].b ELSE handling[1].b
           N == P + C + 1
           f == [b \in Block |-> CHOOSE i \in 1..N : At(i) = b]
<1>1. P \in Nat /\ C \in Nat
    BY ReceiveAssumption
<1>2. ASSUME NEW b \in Block
      PROVE  \E i \in 1..N : At(i) = b
  <2>1. b \in Referred
    OBVIOUS
  <2>2. CASE b \in ToSet(pData)
    <3>1. PICK i \in 1..Len(pData) : pData[i] = b
      BY <2>2 DEF ToSet, RTypeInv
    <3>2. i \in 1..N /\ i =< P
      BY <1>1, <3>1 DEF RTypeInv
    <3> QED
      BY <3>1, <3>2
  <2>3. CASE b \in {rxch[i].b : i \in DOMAIN rxch}
    <3>1. PICK i \in 1..Len(rxch) : rxch[i].b = b
      BY <2>3 DEF RTypeInv
    <3>2. /\ i + P \in 1..N /\ ~(i + P =< P) /\ i + P =< P + C
          /\ (i + P) - P = i
      BY <1>1, <3>1 DEF RTypeInv
    <3>3. At(i + P) = b
      BY <3>1, <3>2
    <3> QED
      BY <3>2, <3>3
  <2>4. CASE b \in {s[1].b : s \in {pending, handling} \ {<<>>}}
    <3>1. b = handling[1].b
      BY <2>4
    <3>2. N \in 1..N /\ ~(N =< P) /\ ~(N =< P + C)
      BY <1>1
    <3>3. At(N) = b
      BY <3>1, <3>2
    <3> QED
      BY <3>2, <3>3
  <2> QED
    BY <2>1, <2>2, <2>3, <2>4 DEF Referred
<1> HIDE DEF At
<1>3. \A b \in Block : f[b] \in 1..N /\ At(f[b]) = b
    BY <1>2
<1>4. f \in [Block -> 1..N]
    BY <1>3
<1> HIDE DEF f
<1>5. /\ IsFiniteSet(Block) /\ Cardinality(Block) = N + 1
      /\ IsFiniteSet(1..N) /\ Cardinality(1..N) = N
    BY <1>1, FS_Interval DEF Block
<1>6. Cardinality(1..N) < Cardinality(Block)
    BY <1>1, <1>5
<1>7. \E x, y \in Block : x # y /\ f[x] = f[y]
    BY <1>4, <1>5, <1>6, FS_PigeonHole
<1> QED
    BY <1>3, <1>7

\* getdata() returns a block that nobody uses, large enough, and leaves the
\* rest of the pool.
LEMMA getdataFree ==
    ASSUME RecvInv, pending = <<>>, NEW size \in Nat
    PROVE  LET d == getdata(size) IN
           /\ d.b \in Block /\ d.cap \in Nat /\ size =< d.cap
           /\ d.b \notin ToSet(d.pool)
           /\ \A k \in InFlight : k.b # d.b
           /\ d.pool = pData \/ (pData # <<>> /\ d.pool = Tail(pData))
<1>1. Fresh \in Block /\ Fresh \notin Referred
    BY FreshExists DEF RecvInv
<1>2. /\ Fresh \notin ToSet(pData)
      /\ \A k \in InFlight : k.b # Fresh
  <2>1. Fresh \notin ToSet(pData)
    BY <1>1 DEF Referred
  <2>2. ASSUME NEW k \in ToSet(rxch) PROVE k.b # Fresh
    BY <1>1 DEF Referred, ToSet
  <2>3. ToSet(pending) = {}
    BY DEF ToSet
  <2>4. ASSUME NEW k \in ToSet(handling) PROVE k.b # Fresh
    <3>1. PICK i \in 1..Len(handling) : k = handling[i]
      BY <2>4 DEF RecvInv, RTypeInv, ToSet
    <3>2. i = 1 /\ handling # <<>>
      BY <3>1 DEF RecvInv, RTypeInv
    <3>3. handling[1].b \in Referred
      BY <3>2 DEF Referred
    <3> QED
      BY <1>1, <3>1, <3>2, <3>3
  <2> QED
    BY <2>1, <2>2, <2>3, <2>4 DEF InFlight
<1>3. ASSUME pData # <<>>
      PROVE  /\ Head(pData) \in Block /\ Head(pData) = pData[1]
             /\ mem[Head(pData)].cap \in Nat
             /\ Tail(pData) \in Seq(Block)
             /\ ToSet(Tail(pData)) \subseteq ToSet(pData)
             /\ Head(pData) \notin ToSet(Tail(pData))
             /\ Head(pData) \in ToSet(pData)
  <2> DEFINE t == Tail(pData)
             l == Len(pData)
  <2>1. /\ l \in Nat /\ l >= 1 /\ DOMAIN pData = 1..l /\ DOMAIN t = 1..(l - 1)
        /\ \A i \in 1..(l - 1) : t[i] = pData[i + 1]
        /\ Head(pData) = pData[1] /\ pData[1] \in Block /\ t \in Seq(Block)
    BY <1>3 DEF RecvInv, RTypeInv
  <2>2. mem[Head(pData)].cap \in Nat
    BY <2>1 DEF RecvInv, RTypeInv, Cell
  <2>3. \A i, j \in 1..l : i # j => pData[i] # pData[j]
    BY DEF RecvInv, Agree
  <2> HIDE DEF t, l
  <2>4. \A i \in 1..(l - 1) : i + 1 \in 1..l /\ 1 \in 1..l /\ i + 1 # 1
    BY <2>1
  <2>5. ASSUME NEW b \in ToSet(t)
        PROVE  b \in ToSet(pData) /\ b # pData[1]
    <3>1. PICK i \in 1..(l - 1) : b = t[i]
      BY <2>1 DEF ToSet
    <3>2. /\ i + 1 \in 1..l /\ 1 \in 1..l /\ i + 1 # 1
          /\ b = pData[i + 1]
      BY <2>1, <2>4, <3>1
    <3> QED
      BY <2>1, <2>3, <3>2 DEF ToSet
  <2>6. pData[1] \in ToSet(pData)
    BY <2>1 DEF ToSet
  <2> QED
    BY <2>1, <2>2, <2>5, <2>6 DEF t
<1>4. \A k \in InFlight : k.b \in Block => k.b \notin ToSet(pData)
  <2>1. Queue \in Seq(Rxpkt) /\ ToSet(Queue) = InFlight
    BY QueueElements DEF RecvInv
  <2>2. \A b \in Block : b # NoBlock
    BY DEF Block, NoBlock
  <2>3. \A i \in DOMAIN Queue : Queue[i].b # NoBlock =>
            Queue[i].b \notin ToSet(pData)
    BY <2>1 DEF RecvInv, Agree
  <2> QED
    BY <2>1, <2>2, <2>3 DEF ToSet
<1>5. CASE pData = <<>>
    BY <1>1, <1>2, <1>5 DEF getdata
<1>6. CASE pData # <<>> /\ mem[Head(pData)].cap < size
    BY <1>1, <1>2, <1>3, <1>6 DEF getdata
<1>7. CASE pData # <<>> /\ ~(mem[Head(pData)].cap < size)
    BY <1>3, <1>4, <1>7 DEF getdata
<1> QED
    BY <1>5, <1>6, <1>7

-----------------------------------------------------------------------------
(* Receive implements Frame. *)

\* Every step of Receive is one of Frame, or leaves it alone.
LEMMA FrameStep == [RNext]_rcvars => [Next]_vars
<1> SUFFICES ASSUME RNext PROVE [Next]_vars
    BY DEF rcvars
<1>1. CASE \E f \in Frames : Write(f)
    BY <1>1 DEF Next
<1>2. CASE unframePrefix
    BY <1>2 DEF unframePrefix, Next
<1>3. CASE unframepkt
    BY <1>3 DEF unframepkt, Next
<1>4. CASE putch \/ handlepkt \/ Handled
    BY <1>4 DEF putch, handlepkt, Handled
<1> QED
    BY <1>1, <1>2, <1>3, <1>4 DEF RNext

-----------------------------------------------------------------------------
(* The steps. *)

\* What CopyData() does to the queue: a packet with a block of its own.
LEMMA AgreeCopy ==
    ASSUME NEW Q \in Seq(Rxpkt), NEW s \in Seq(Block), NEW t \in Seq(Block),
           NEW m \in [Block \cup {PacketBlock} -> Cell],
           NEW w \in [Block \cup {PacketBlock} -> Cell],
           NEW k \in Rxpkt, Agree(Q, s, m),
           t = s \/ (s # <<>> /\ t = Tail(s)),
           k.b # NoBlock, k.b \notin ToSet(t),
           \A i \in 1..Len(Q) : Q[i].b # k.b,
           w[k.b].no = k.no, k.len =< w[k.b].cap,
           \A b \in Block : b # k.b => w[b] = m[b]
    PROVE  Agree(Append(Q, k), t, w)
<1> DEFINE R == Append(Q, k)
           l == Len(Q)
<1>1. /\ l \in Nat /\ Len(R) = l + 1 /\ R[l + 1] = k
      /\ \A i \in 1..l : R[i] = Q[i] /\ Q[i] \in Rxpkt
      /\ \A i \in 1..(l + 1) : i \in 1..l \/ i = l + 1
    OBVIOUS
<1>2. /\ ToSet(t) \subseteq ToSet(s)
      /\ \A i, j \in 1..Len(t) : i # j => t[i] # t[j]
  <2>1. \A i, j \in 1..Len(s) : i # j => s[i] # s[j]
    BY DEF Agree
  <2>2. CASE t = s
    BY <2>1, <2>2
  <2>3. CASE s # <<>> /\ t = Tail(s)
    <3>1. /\ Len(s) \in Nat /\ Len(t) = Len(s) - 1 /\ DOMAIN s = 1..Len(s)
          /\ DOMAIN t = 1..Len(t) /\ \A i \in 1..Len(t) : t[i] = s[i + 1]
      BY <2>3
    <3>2. \A i \in 1..Len(t) : i + 1 \in 1..Len(s)
      BY <3>1
    <3>3. ToSet(t) \subseteq ToSet(s)
      BY <3>1, <3>2 DEF ToSet
    <3>4. ASSUME NEW i \in 1..Len(t), NEW j \in 1..Len(t), i # j
          PROVE  t[i] # t[j]
      <4>1. i + 1 # j + 1
        BY <3>4
      <4> QED
        BY <2>1, <3>1, <3>2, <4>1
    <3> QED
      BY <3>3, <3>4
  <2> QED
    BY <2>2, <2>3
<1> HIDE DEF R, l
<1>3. ASSUME NEW i \in 1..(l + 1), R[i].b # NoBlock
      PROVE  /\ w[R[i].b].no = R[i].no /\ R[i].len =< w[R[i].b].cap
             /\ R[i].b \notin ToSet(t)
  <2>1. CASE i = l + 1
    BY <1>1, <2>1
  <2>2. CASE i \in 1..l
    <3>1. R[i] = Q[i] /\ Q[i].b \in Block /\ Q[i].b # k.b
      BY <1>1, <1>3, <2>2 DEF Rxpkt, l
    <3>2. /\ m[Q[i].b].no = Q[i].no /\ Q[i].len =< m[Q[i].b].cap
          /\ Q[i].b \notin ToSet(s)
      BY <1>3, <2>2, <3>1 DEF Agree, l
    <3> QED
      BY <1>2, <3>1, <3>2
  <2> QED
    BY <1>1, <2>1, <2>2
<1>4. ASSUME NEW i \in 1..(l + 1), NEW j \in 1..(l + 1), i # j,
             R[i].b # NoBlock
      PROVE  R[i].b # R[j].b
  <2>1. CASE i \in 1..l /\ j \in 1..l
    BY <1>1, <1>4, <2>1 DEF Agree, l
  <2>2. CASE i = l + 1 /\ j \in 1..l
    BY <1>1, <2>2 DEF l
  <2>3. CASE i \in 1..l /\ j = l + 1
    BY <1>1, <2>3 DEF l
  <2> QED
    BY <1>1, <1>4, <2>1, <2>2, <2>3
<1> QED
    BY <1>1, <1>2, <1>3, <1>4 DEF Agree, R

\* A packet without data changes nothing of it.
LEMMA AgreeNoData ==
    ASSUME NEW Q \in Seq(Rxpkt), NEW s \in Seq(Block),
           NEW m \in [Block \cup {PacketBlock} -> Cell],
           NEW w \in [Block \cup {PacketBlock} -> Cell],
           NEW k \in Rxpkt, Agree(Q, s, m), k.b = NoBlock,
           \A b \in Block : w[b] = m[b]
    PROVE  Agree(Append(Q, k), s, w)
<1> DEFINE R == Append(Q, k)
           l == Len(Q)
<1>1. /\ l \in Nat /\ Len(R) = l + 1 /\ R[l + 1] = k
      /\ \A i \in 1..l : R[i] = Q[i] /\ Q[i] \in Rxpkt
      /\ \A i \in 1..(l + 1) : i \in 1..l \/ i = l + 1
    OBVIOUS
<1> HIDE DEF R, l
<1>2. \A i \in 1..(l + 1) : R[i].b # NoBlock =>
          i \in 1..l /\ R[i] = Q[i] /\ R[i].b \in Block
    BY <1>1 DEF Rxpkt
<1>3. ASSUME NEW i \in 1..(l + 1), R[i].b # NoBlock
      PROVE  /\ w[R[i].b].no = R[i].no /\ R[i].len =< w[R[i].b].cap
             /\ R[i].b \notin ToSet(s)
    BY <1>2, <1>3 DEF Agree, l
<1>4. ASSUME NEW i \in 1..(l + 1), NEW j \in 1..(l + 1), i # j,
             R[i].b # NoBlock
      PROVE  R[i].b # R[j].b
  <2>1. CASE j = l + 1
    BY <1>1, <1>4, <2>1
  <2>2. CASE j \in 1..l
    BY <1>1, <1>2, <1>4, <2>2 DEF Agree, l
  <2> QED
    BY <1>1, <2>1, <2>2
<1> QED
    BY <1>1, <1>3, <1>4 DEF Agree, R

\* The oldest packet is handled, and its block goes to the pool, or not.
LEMMA AgreeHandled ==
    ASSUME NEW Q \in Seq(Rxpkt), Q # <<>>, NEW s \in Seq(Block),
           NEW m \in [Block \cup {PacketBlock} -> Cell], Agree(Q, s, m),
           NEW t \in Seq(Block),
           t = s \/ (Q[1].b # NoBlock /\ t = Append(s, Q[1].b))
    PROVE  Agree(Tail(Q), t, m)
<1> DEFINE R == Tail(Q)
           l == Len(Q)
           h == Q[1].b
<1>1. /\ l \in Nat /\ l >= 1 /\ Len(R) = l - 1
      /\ \A i \in 1..(l - 1) : R[i] = Q[i + 1]
      /\ \A i \in 1..(l - 1) : i + 1 \in 1..l /\ i + 1 # 1 /\ 1 \in 1..l
    OBVIOUS
<1>2. 1 \in 1..l
    BY <1>1
<1>3. /\ ToSet(t) \subseteq ToSet(s) \cup {h}
      /\ ToSet(t) = ToSet(s) \/ h # NoBlock
      /\ \A i, j \in 1..Len(t) : i # j => t[i] # t[j]
  <2>1. \A i, j \in 1..Len(s) : i # j => s[i] # s[j]
    BY DEF Agree
  <2>2. CASE t = s
    BY <2>1, <2>2
  <2>3. CASE h # NoBlock /\ t = Append(s, h)
    <3>1. h \notin ToSet(s)
      BY <1>2, <2>3 DEF Agree
    <3>2. /\ Len(s) \in Nat /\ DOMAIN s = 1..Len(s) /\ DOMAIN t = 1..Len(t)
          /\ Len(t) = Len(s) + 1 /\ t[Len(s) + 1] = h
          /\ \A i \in 1..Len(s) : t[i] = s[i]
      BY <2>3
    <3>3. \A i \in 1..Len(t) : i \in 1..Len(s) \/ i = Len(s) + 1
      BY <3>2
    <3>4. \A i \in 1..Len(s) : s[i] # h
      BY <3>1, <3>2 DEF ToSet
    <3>5. \A i, j \in 1..Len(t) : i # j => t[i] # t[j]
      BY <2>1, <3>2, <3>3, <3>4
    <3>6. ToSet(t) \subseteq ToSet(s) \cup {h}
      BY <3>2, <3>3 DEF ToSet
    <3> QED
      BY <2>3, <3>5, <3>6
  <2> QED
    BY <2>2, <2>3
<1>4. \A i \in 1..(l - 1) : h # NoBlock => Q[i + 1].b # h
    BY <1>1 DEF Agree
<1> HIDE DEF R, l, h
<1>5. ASSUME NEW i \in 1..(l - 1), R[i].b # NoBlock
      PROVE  /\ m[R[i].b].no = R[i].no /\ R[i].len =< m[R[i].b].cap
             /\ R[i].b \notin ToSet(t)
  <2>1. /\ m[Q[i + 1].b].no = Q[i + 1].no
        /\ Q[i + 1].len =< m[Q[i + 1].b].cap
        /\ Q[i + 1].b \notin ToSet(s)
    BY <1>1, <1>5 DEF Agree, l
  <2> QED
    BY <1>1, <1>3, <1>4, <2>1
<1>6. ASSUME NEW i \in 1..(l - 1), NEW j \in 1..(l - 1), i # j,
             R[i].b # NoBlock
      PROVE  R[i].b # R[j].b
  <2>1. i + 1 # j + 1
    BY <1>6
  <2> QED
    BY <1>1, <1>6, <2>1 DEF Agree, l
<1> QED
    BY <1>1, <1>3, <1>5, <1>6 DEF Agree, R

-----------------------------------------------------------------------------

\* doRx() reads a packet, and it is the last of the queue.
LEMMA unframepktInv ==
    ASSUME RecvInv, FrameInv', unframepkt
    PROVE  RecvInv'
<1> DEFINE f == Head(conn)
           p == pending'[1]
<1>1. /\ rx = "body" /\ conn # <<>> /\ f \in Frames /\ pending = <<>>
      /\ nread' = nread + 1 /\ UNCHANGED <<rxch, handling>>
      /\ CopyData(f) \/ NoData(f)
    BY DEF unframepkt, ReadBody, RecvInv, RTypeInv, FrameInv
<1>2. f.data \in Nat /\ nread + 1 \in Nat
    BY <1>1, FrameTypes DEF RecvInv, RTypeInv
<1>3. /\ pData \in Seq(Block) /\ Len(pData) =< PoolSize /\ PoolSize \in Nat
      /\ mem \in [Block \cup {PacketBlock} -> Cell]
      /\ Queue \in Seq(Rxpkt) /\ ToSet(Queue) = InFlight
      /\ Agree(Queue, pData, mem)
    BY QueueElements, ReceiveAssumption DEF RecvInv, RTypeInv
<1>4. \A b \in Block : b # PacketBlock /\ b # NoBlock
    BY DEF Block, PacketBlock, NoBlock
<1>5. /\ pending' = <<p>> /\ p \in Rxpkt
      /\ mem' \in [Block \cup {PacketBlock} -> Cell]
      /\ pData' \in Seq(Block) /\ Len(pData') =< PoolSize
      /\ Agree(Append(Queue, p), pData', mem')
  <2>1. CASE CopyData(f)
    <3> DEFINE d == getdata(f.data)
               k == [no |-> nread + 1, len |-> f.data, b |-> d.b]
    <3>1. /\ d.b \in Block /\ d.cap \in Nat /\ f.data =< d.cap
          /\ d.b \notin ToSet(d.pool)
          /\ \A l \in InFlight : l.b # d.b
          /\ d.pool = pData \/ (pData # <<>> /\ d.pool = Tail(pData))
      BY <1>1, <1>2, getdataFree
    <3>2. /\ pending' = <<k>> /\ pData' = d.pool
          /\ mem' = [mem EXCEPT ![PacketBlock].no = nread + 1,
                                ![d.b] = [cap |-> d.cap, no |-> nread + 1]]
      BY <2>1 DEF CopyData
    <3>3. pData' \in Seq(Block) /\ Len(pData') =< PoolSize
      <4>1. pData # <<>> => /\ Tail(pData) \in Seq(Block)
                            /\ Len(Tail(pData)) =< PoolSize
        BY <1>3
      <4> QED
        BY <1>3, <3>1, <3>2, <4>1
    <3> HIDE DEF d
    <3>4. k \in Rxpkt /\ k.no = nread + 1 /\ k.len = f.data /\ k.b = d.b
      BY <1>2, <3>1 DEF Rxpkt
    <3>5. p = k
      BY <3>2
    <3>6. /\ mem' \in [Block \cup {PacketBlock} -> Cell]
          /\ mem'[d.b] = [cap |-> d.cap, no |-> nread + 1]
          /\ \A b \in Block : b # d.b => mem'[b] = mem[b]
      BY <1>2, <1>3, <1>4, <3>1, <3>2 DEF Cell
    <3>7. \A i \in 1..Len(Queue) : Queue[i].b # k.b
      BY <1>3, <3>1, <3>4 DEF ToSet
    <3> HIDE DEF k
    <3>8. Agree(Append(Queue, k), pData', mem')
      <4>1. /\ k.b # NoBlock /\ k.b \notin ToSet(pData')
            /\ mem'[k.b].no = k.no /\ k.len =< mem'[k.b].cap
            /\ \A b \in Block : b # k.b => mem'[b] = mem[b]
            /\ pData' = pData \/ (pData # <<>> /\ pData' = Tail(pData))
        BY <1>4, <3>1, <3>2, <3>4, <3>6
      <4> QED
        BY <1>3, <3>3, <3>4, <3>6, <3>7, <4>1, AgreeCopy
    <3> QED
      BY <3>2, <3>3, <3>4, <3>5, <3>6, <3>8
  <2>2. CASE NoData(f)
    <3> DEFINE k == [no |-> nread + 1, len |-> 0, b |-> NoBlock]
    <3>1. /\ pending' = <<k>> /\ pData' = pData
          /\ mem' = [mem EXCEPT ![PacketBlock].no = nread + 1]
      BY <2>2 DEF NoData
    <3>2. k \in Rxpkt /\ k.b = NoBlock
      BY <1>2 DEF Rxpkt
    <3>3. /\ mem' \in [Block \cup {PacketBlock} -> Cell]
          /\ \A b \in Block : mem'[b] = mem[b]
      BY <1>2, <1>3, <1>4, <3>1 DEF Cell
    <3>4. p = k
      BY <3>1
    <3> HIDE DEF k
    <3>5. Agree(Append(Queue, k), pData, mem')
      BY <1>3, <3>2, <3>3, AgreeNoData
    <3> QED
      BY <1>3, <3>1, <3>2, <3>3, <3>4, <3>5
  <2> QED
    BY <1>1, <2>1, <2>2
<1> HIDE DEF p
<1>6. Queue' = Append(Queue, p)
  <2> DEFINE a == handling \o rxch
  <2>1. a \in Seq(Rxpkt)
    BY CatElements DEF RecvInv, RTypeInv
  <2>2. Queue' = a \o <<p>> /\ Queue = a \o <<>>
    BY <1>1, <1>5 DEF Queue
  <2> HIDE DEF a
  <2>3. a \o <<>> = a
    BY <2>1
  <2>4. a \o <<p>> = Append(a, p)
    BY <1>5, <2>1
  <2> QED
    BY <2>2, <2>3, <2>4
<1>7. rx' # "body"
    BY <1>1 DEF unframepkt, ReadBody
<1>8. RTypeInv'
  <2>1. pending' \in Seq(Rxpkt) /\ Len(pending') =< 1
    BY <1>5
  <2>2. nread' \in Nat
    BY <1>1, <1>2
  <2>3. /\ rxch' \in Seq(Rxpkt) /\ Len(rxch') =< ChanSize
        /\ handling' \in Seq(Rxpkt) /\ Len(handling') =< 1
    BY <1>1 DEF RecvInv, RTypeInv
  <2> QED
    BY <1>5, <1>7, <2>1, <2>2, <2>3 DEF RTypeInv, Cell, Rxpkt
<1> QED
    BY <1>5, <1>6, <1>8 DEF RecvInv

\* It passes the packet on: the queue stays as it is.
LEMMA putchInv ==
    ASSUME RecvInv, putch
    PROVE  RTypeInv' /\ Queue' = Queue /\ UNCHANGED <<pData, mem>>
<1>1. /\ pending # <<>> /\ Len(rxch) < ChanSize
      /\ rxch' = rxch \o pending /\ pending' = <<>>
      /\ UNCHANGED <<vars, pData, mem, handling, nread>>
    BY DEF putch
<1>2. /\ handling \in Seq(Rxpkt) /\ rxch \in Seq(Rxpkt)
      /\ pending \in Seq(Rxpkt) /\ Len(pending) =< 1
      /\ ChanSize \in Nat
    BY ReceiveAssumption DEF RecvInv, RTypeInv
<1>3. rxch' \in Seq(Rxpkt) /\ Len(rxch') =< ChanSize
  <2>1. /\ rxch \o pending \in Seq(Rxpkt)
        /\ Len(rxch \o pending) = Len(rxch) + Len(pending)
    BY <1>2, CatElements
  <2>2. Len(rxch) \in Nat /\ Len(pending) \in Nat
    BY <1>2
  <2> QED
    BY <1>1, <1>2, <2>1, <2>2
<1>4. Queue' = Queue
  <2>1. Queue' = (handling \o (rxch \o pending)) \o <<>>
    BY <1>1 DEF Queue
  <2> DEFINE a == handling \o (rxch \o pending)
  <2>2. rxch \o pending \in Seq(Rxpkt)
    BY <1>2, CatElements
  <2>3. a \in Seq(Rxpkt)
    BY <1>2, <2>2, CatElements
  <2>4. a = (handling \o rxch) \o pending
    BY <1>2
  <2> HIDE DEF a
  <2>5. a \o <<>> = a
    BY <2>3
  <2> QED
    BY <2>1, <2>4, <2>5 DEF a, Queue
<1> QED
    BY <1>1, <1>2, <1>3, <1>4 DEF RecvInv, RTypeInv, Rxpkt, Cell, vars

\* syncRx() takes one and calls its handler: the queue stays as it is.
LEMMA handlepktInv ==
    ASSUME RecvInv, handlepkt
    PROVE  RTypeInv' /\ Queue' = Queue /\ UNCHANGED <<pData, mem>>
<1>1. /\ handling = <<>> /\ rxch # <<>> /\ handling' = <<Head(rxch)>>
      /\ rxch' = Tail(rxch) /\ UNCHANGED <<vars, pData, mem, pending, nread>>
    BY DEF handlepkt
<1>2. /\ rxch \in Seq(Rxpkt) /\ pending \in Seq(Rxpkt)
      /\ Len(rxch) =< ChanSize /\ ChanSize \in Nat
    BY ReceiveAssumption DEF RecvInv, RTypeInv
<1>3. /\ Head(rxch) \in Rxpkt /\ Tail(rxch) \in Seq(Rxpkt)
      /\ Len(Tail(rxch)) =< ChanSize
    BY <1>1, <1>2
<1>4. <<Head(rxch)>> \o Tail(rxch) = <<>> \o rxch
    BY <1>1, <1>2
<1>5. Queue' = Queue
  <2>1. /\ Queue' = (<<Head(rxch)>> \o Tail(rxch)) \o pending
        /\ Queue = (<<>> \o rxch) \o pending
    BY <1>1 DEF Queue
  <2> QED
    BY <1>4, <2>1
<1>6. handling' \in Seq(Rxpkt) /\ Len(handling') =< 1
    BY <1>1, <1>3
<1> QED
    BY <1>1, <1>2, <1>3, <1>5, <1>6 DEF RecvInv, RTypeInv, Rxpkt, Cell, vars

\* The handler has returned: the first packet leaves the queue.
LEMMA HandledInv ==
    ASSUME RecvInv, Handled
    PROVE  RTypeInv' /\ Agree(Queue', pData', mem')
<1> DEFINE h == handling[1]
<1>1. /\ handling # <<>> /\ handling' = <<>>
      /\ UNCHANGED <<vars, mem, pending, rxch, nread>>
      /\ IF h.b # NoBlock THEN putdata(h.b) ELSE UNCHANGED pData
    BY DEF Handled
<1>2. /\ handling \in Seq(Rxpkt) /\ Len(handling) =< 1
      /\ rxch \in Seq(Rxpkt) /\ pending \in Seq(Rxpkt)
      /\ pData \in Seq(Block) /\ Len(pData) =< PoolSize /\ PoolSize \in Nat
      /\ mem \in [Block \cup {PacketBlock} -> Cell]
    BY ReceiveAssumption DEF RecvInv, RTypeInv
<1>3. h \in Rxpkt /\ handling = <<h>>
    BY <1>1, <1>2, OneElement
<1>4. h.b # NoBlock => h.b \in Block
    BY <1>3 DEF Rxpkt
<1>5. /\ pData' \in Seq(Block) /\ Len(pData') =< PoolSize
      /\ pData' = pData \/ (h.b # NoBlock /\ pData' = Append(pData, h.b))
  <2> HIDE DEF h
  <2>1. \/ pData' = pData
        \/ /\ h.b # NoBlock /\ pData' = Append(pData, h.b)
           /\ Len(pData) < PoolSize
    BY <1>1 DEF putdata
  <2>2. h.b # NoBlock /\ Len(pData) < PoolSize =>
            /\ Append(pData, h.b) \in Seq(Block)
            /\ Len(Append(pData, h.b)) =< PoolSize
    BY <1>2, <1>4
  <2> QED
    BY <1>2, <2>1, <2>2
<1> HIDE DEF h
<1>6. RTypeInv'
  <2>1. handling' \in Seq(Rxpkt) /\ Len(handling') =< 1
    BY <1>1
  <2> QED
    BY <1>1, <1>5, <2>1 DEF RecvInv, RTypeInv, Rxpkt, Cell, vars
<1>7. /\ Queue \in Seq(Rxpkt) /\ Queue # <<>> /\ Queue[1] = h
      /\ Queue' = Tail(Queue)
  <2> DEFINE a == rxch \o pending
  <2>1. a \in Seq(Rxpkt)
    BY <1>2, CatElements
  <2>2. Queue = <<h>> \o a
    BY <1>2, <1>3 DEF Queue
  <2>3. Queue' = a
    <3>1. Queue' = (<<>> \o rxch) \o pending
      BY <1>1 DEF Queue
    <3>2. <<>> \o rxch = rxch
      BY <1>2
    <3> QED
      BY <3>1, <3>2
  <2> HIDE DEF a
  <2>4. LET u == <<h>> \o a IN
        u \in Seq(Rxpkt) /\ u # <<>> /\ u[1] = h /\ Tail(u) = a
    BY <1>3, <2>1
  <2> QED
    BY <2>2, <2>3, <2>4
<1>8. Agree(Tail(Queue), pData', mem)
    BY <1>2, <1>5, <1>7, AgreeHandled DEF RecvInv
<1> QED
    BY <1>1, <1>6, <1>7, <1>8

-----------------------------------------------------------------------------
(* The theorems. *)

\* Nothing is read, pooled or handled when the transport is created.
LEMMA RInitInv == RInit => RecvInv
<1> SUFFICES ASSUME RInit PROVE RecvInv
    OBVIOUS
<1> USE ReceiveAssumption
<1>1. FrameInv
    BY DEF RInit, Init, FrameInv
<1>2. mem \in [Block \cup {PacketBlock} -> Cell]
    BY Sizes DEF RInit, Cell
<1>3. RTypeInv
    BY <1>2 DEF RInit, RTypeInv, Init
<1>4. Len(Queue) = 0 /\ Len(pData) = 0
    BY DEF RInit, Queue
<1>5. Agree(Queue, pData, mem)
    BY <1>4 DEF Agree
<1> QED
    BY <1>1, <1>3, <1>5 DEF RecvInv

\* Every step preserves the invariant.
LEMMA RNextInv == RecvInv /\ [RNext]_rcvars => RecvInv'
<1> SUFFICES ASSUME RecvInv, [RNext]_rcvars PROVE RecvInv'
    OBVIOUS
<1>1. FrameInv'
    BY FrameStep, NextInv DEF RecvInv
<1>2. ASSUME UNCHANGED rvars, rx' # "body" \/ rx = "body" \/ pending = <<>>
      PROVE  RecvInv'
  <2>1. /\ UNCHANGED <<pData, mem, pending, rxch, handling, nread>>
        /\ Queue' = Queue
    BY <1>2 DEF rvars, Queue
  <2>2. RTypeInv'
    BY <1>2, <2>1 DEF RecvInv, RTypeInv, Rxpkt, Cell
  <2> QED
    BY <1>1, <2>1, <2>2 DEF RecvInv
<1>3. CASE UNCHANGED rcvars
    BY <1>2, <1>3 DEF rcvars, vars
<1>4. ASSUME NEW f \in Frames, Write(f), UNCHANGED rvars PROVE RecvInv'
    BY <1>2, <1>4 DEF Write
<1>5. CASE unframePrefix
    BY <1>2, <1>5 DEF unframePrefix
<1>6. CASE unframepkt
    BY <1>1, <1>6, unframepktInv
<1>7. CASE putch \/ handlepkt
    BY <1>1, <1>7, putchInv, handlepktInv DEF RecvInv
<1>8. CASE Handled
    BY <1>1, <1>8, HandledInv DEF RecvInv
<1> QED
    BY <1>3, <1>4, <1>5, <1>6, <1>7, <1>8 DEF RNext

\* The invariant holds throughout.
LEMMA AlwaysRecvInv == RSpec => []RecvInv
BY RInitInv, RNextInv, PTL DEF RSpec

\* doRx() with its pool and its channel reads frames as Frame says: what is
\* proved of Frame holds of it.
THEOREM ReceiveIsFrame == RSpec => Spec
<1>1. RInit => Init
    BY DEF RInit
<1> QED
    BY <1>1, FrameStep, PTL DEF RSpec, Spec

\* No block of memory has two users: getdata() never hands out one that is
\* queued in rxch or being handled, and putdata() never pools one twice,
\* whatever the sizes of channel and pool.
THEOREM AlwaysBlocksApart == RSpec => []BlocksApart
<1>1. RecvInv => BlocksApart
  <2> SUFFICES ASSUME RecvInv PROVE BlocksApart
    OBVIOUS
  <2>1. /\ Queue \in Seq(Rxpkt) /\ ToSet(Queue) = InFlight
        /\ pData \in Seq(Block)
    BY QueueElements DEF RecvInv, RTypeInv
  <2>2. Len(pData) =< PoolSize
    BY DEF RecvInv, RTypeInv
  <2>3. \A i, j \in DOMAIN pData : i # j => pData[i] # pData[j]
    BY <2>1 DEF RecvInv, Agree
  <2>4. NoBlock \notin ToSet(pData)
    <3>1. ToSet(pData) \subseteq Block
      BY <2>1 DEF ToSet
    <3> QED
      BY <3>1 DEF Block, NoBlock
  <2>5. ASSUME NEW k \in InFlight PROVE \E i \in 1..Len(Queue) : k = Queue[i]
    BY <2>1, <2>5 DEF ToSet
  <2>6. ASSUME NEW k \in InFlight PROVE k.b \notin ToSet(pData)
    BY <2>4, <2>5 DEF RecvInv, Agree
  <2>7. ASSUME NEW k \in InFlight, NEW l \in InFlight, k # l, k.b # NoBlock
        PROVE  k.b # l.b
    <3>1. PICK i \in 1..Len(Queue) : k = Queue[i]
      BY <2>5
    <3>2. PICK j \in 1..Len(Queue) : l = Queue[j]
      BY <2>5
    <3> QED
      BY <2>7, <3>1, <3>2 DEF RecvInv, Agree
  <2> QED
    BY <2>2, <2>3, <2>6, <2>7 DEF BlocksApart
<1> QED
    BY <1>1, AlwaysRecvInv, PTL

\* The map of a message ends within what unmessage() is given, and that of a
\* finish has no message: framepkt() and unmessage() agree on the lengths.
LEMMA unmessageFits ==
    ASSUME NEW f \in Frames
    PROVE  unmessage(f) <=> f.kind = "message"
<1>1. /\ f.data \in Nat /\ f.id \in Nat /\ msglen(f) \in Nat
      /\ f.opaque \in Nat /\ f.kind \in {"message", "finish"}
    BY FrameTypes DEF FrameKind
<1>2. /\ hdrlen(f.opaque) \in Nat /\ hdrlen(msglen(f)) \in Nat
      /\ hdrlen(f.data) \in Nat
    BY <1>1 DEF hdrlen
<1>3. hdrlen(43) = 2 /\ hdrlen(44) = 2 /\ hdrlen(45) = 2
    BY DEF hdrlen
<1>4. ASSUME f.kind = "message" PROVE datapos(f) + f.data < readtp(f)
  <2>1. packetlen(f) = hdrlen(f.opaque) + (hdrlen(msglen(f)) + msglen(f))
    BY <1>4 DEF packetlen, bytes2cbor
  <2>2. readtp(f) = msglen(f) - 2
    BY <1>1, <1>2, <1>3, <2>1 DEF readtp
  <2>3. msglen(f) = 2 + 1 + 2 + f.id + 2 + (hdrlen(f.data) + f.data) + 1
    BY <1>3 DEF msglen, bytes2cbor
  <2>4. datapos(f) = 1 + 2 + f.id + 2 + hdrlen(f.data)
    BY <1>3 DEF datapos
  <2> QED
    BY <1>1, <1>2, <2>2, <2>3, <2>4
<1> QED
    BY <1>1, <1>4 DEF unmessage

\* A handler sees the bytes of its own message: as long as the message waits
\* in rxch or is being handled nothing else is copied into its block, and
\* unmessage() refuses no message that a peer has framed.
THEOREM AlwaysDataIntact == RSpec => []DataIntact
<1>1. RecvInv => DataIntact
  <2> SUFFICES ASSUME RecvInv PROVE DataIntact
    OBVIOUS
  <2>1. Queue \in Seq(Rxpkt) /\ ToSet(Queue) = InFlight
    BY QueueElements DEF RecvInv
  <2>2. ASSUME NEW k \in InFlight, k.b # NoBlock
        PROVE  mem[k.b].no = k.no /\ k.len =< mem[k.b].cap
    <3>1. PICK i \in 1..Len(Queue) : k = Queue[i]
      BY <2>1, <2>2 DEF ToSet
    <3> QED
      BY <2>2, <3>1 DEF RecvInv, Agree
  <2>3. ASSUME rx = "body"
        PROVE  unmessage(Head(conn)) <=> Head(conn).kind = "message"
    <3>1. Head(conn) \in Frames
      BY <2>3 DEF RecvInv, FrameInv
    <3> QED
      BY <3>1, unmessageFits
  <2> QED
    BY <2>2, <2>3 DEF DataIntact
<1> QED
    BY <1>1, AlwaysRecvInv, PTL
=============================================================================
