--------------------------- MODULE ShutdownProofs ---------------------------
(***************************************************************************)
(* Proofs about Shutdown: for any routines, streams and sizes the types,   *)
(* and that an open transport loses a stream only where a tx() has failed. *)
(***************************************************************************)
EXTENDS Shutdown, TLAPS

-----------------------------------------------------------------------------
(* Definitions. *)

\* TypeOK; a routine in a call has a stream and the call is its own; the
\* deferred function of syncRx() runs only at its end.
PC == {"idle", "tell", "tx", "wait", "untell", "own"}
CState == [pc : PC, o : Opaque \cup {0}, m : Call \cup {Nil}, n : 0..MaxCall]

OwnCall(c) ==
    cs[c].pc # "idle" => /\ cs[c].o \in Opaque /\ cs[c].m \in Call
                         /\ cs[c].m.c = c /\ cs[c].m.n = cs[c].n

TypeInv ==
    /\ TypeOK
    /\ \A c \in Caller : OwnCall(c)
    /\ syncrx = "loop" => calling = {}

\* The time LeakOnlyByFailure speaks of.
Open == ~killed /\ syncrx = "loop"

\* Items of types T for stream o in sequence s: one, and at most one.
Is(k, o, T) == k.o = o /\ k.t \in T
Has(s, o, T) == \E i \in 1..Len(s) : Is(s[i], o, T)
Once(s, o, T) ==
    \A i, j \in 1..Len(s) : Is(s[i], o, T) /\ Is(s[j], o, T) => i = j

U == {"update"}
R == {"response", "finish"}

\* Whether routine c has a stream: one that is told of its end does not, the
\* stream is free while Stream()'s owner has yet to notice.
Holds(c) == cs[c].pc # "idle" /\ ~(cs[c].pc = "own" /\ cs[c].m \in done)

Pooled(o) == \E i \in 1..Len(pStrms) : pStrms[i] = o

\* Nothing of stream o is on its way from the remote.
Quiet(o) == ~Has(rxch, o, R) /\ \A a \in remote : a.o # o

\* syncRx() knows of stream o or is about to be told, once.
Known(o) == (o \in live <=> ~Has(rxch, o, U)) /\ Once(rxch, o, U)

\* The remote owes the answer to call m, on stream o, or the answer is in
\* rxch: not both, and only one.
Owed(o, m) ==
    /\ \A a \in remote : a.o = o => a.m = m /\ ~Has(rxch, o, R)
    /\ Once(rxch, o, R)
    /\ ~Has(rxch, o, IF m.k = "Stream" THEN {"response"} ELSE {"finish"})

\* What syncRx(), the remote and the callback know of the stream of routine c
\* at each point of its call.
Stage(c) ==
    LET o == cs[c].o
        m == cs[c].m
    IN  \/ /\ cs[c].pc = "tell" /\ m.k # "Post"
           /\ rxcallb[o] = m /\ m \notin done
           /\ o \notin live /\ ~Has(rxch, o, U) /\ Quiet(o)
        \/ /\ cs[c].pc = "tx" /\ m.k = "Post"
           /\ rxcallb[o] = Nil
           /\ o \notin live /\ ~Has(rxch, o, U) /\ Quiet(o)
        \/ /\ cs[c].pc = "tx" /\ m.k # "Post"
           /\ rxcallb[o] = m /\ m \notin done
           /\ Known(o) /\ Quiet(o)
        \/ /\ cs[c].pc \in {"wait", "own"}
           /\ m.k = "Stream" <=> cs[c].pc = "own"
           /\ rxcallb[o] = m
           /\ Known(o) /\ Owed(o, m)
           /\ m \in done => o \in live /\ Quiet(o)
        \/ /\ cs[c].pc = "untell"
           /\ Quiet(o)
           /\ \/ rxcallb[o] = Nil /\ o \in live /\ ~Has(rxch, o, U)
              \/ /\ rxcallb[o] # Nil /\ o \in failed
                 /\ o \in live \/ Has(rxch, o, U)

\* A stream that no routine has is in the pool, on its way there, or lost.
Free(o) == Pooled(o) /\ o \notin live /\ ~Has(rxch, o, U) /\ Quiet(o)

Returning(o) ==
    /\ ~Pooled(o) /\ rxcallb[o] = Nil /\ o \in live /\ Quiet(o)
    /\ Has(rxch, o, U) /\ Once(rxch, o, U)

Lost(o) ==
    /\ ~Pooled(o) /\ rxcallb[o] # Nil /\ o \in failed /\ Quiet(o)
    /\ o \in live \/ Has(rxch, o, U)

\* Calls are numbered, and a callback belongs to one stream.
Numbered ==
    /\ \A m \in done : m.n =< cs[m.c].n
    /\ \A o \in Opaque : rxcallb[o] # Nil => rxcallb[o].n =< cs[rxcallb[o].c].n
    /\ \A c \in Caller : \A o \in Opaque :
           cs[c].pc # "idle" /\ rxcallb[o] = cs[c].m => o = cs[c].o

Places ==
    /\ \A i, j \in 1..Len(pStrms) : pStrms[i] = pStrms[j] => i = j
    /\ \A c, d \in Caller : Holds(c) /\ Holds(d) /\ cs[c].o = cs[d].o => c = d
    /\ \A c \in Caller : Holds(c) => Stage(c) /\ ~Pooled(cs[c].o)
    /\ \A o \in Opaque :
           \/ \E c \in Caller : Holds(c) /\ cs[c].o = o
           \/ Free(o) \/ Returning(o) \/ Lost(o)

LeakInv == TypeInv /\ (Open => Numbered /\ Places)

-----------------------------------------------------------------------------
(* Types. *)

\* The parts of TypeInv by name.
LEMMA Types ==
    ASSUME TypeInv
    PROVE  /\ pStrms \in Seq(Opaque) /\ live \subseteq Opaque
           /\ todo \subseteq Opaque /\ calling \subseteq Opaque
           /\ rxcallb \in [Opaque -> Call \cup {Nil}]
           /\ rxch \in Seq(Item) /\ Len(rxch) =< RxchSize /\ RxchSize \in Nat
           /\ remote \subseteq [m : Call, o : Opaque]
           /\ rxpkt \subseteq [m : Call, o : Opaque]
           /\ cs \in [Caller -> CState]
           /\ done \subseteq Call /\ early \subseteq Call
           /\ failed \subseteq Opaque
           /\ \A c \in Caller : OwnCall(c)
BY ShutdownAssumption DEF TypeInv, TypeOK, CState, PC

\* What an invariant step has to show, the variables apart.
LEMMA TypeCombine ==
    ASSUME TypeInv,
           killed' \in BOOLEAN, crashed' \in BOOLEAN, conn' \in {"up", "down"},
           pStrms' \in Seq(Opaque), live' \subseteq Opaque,
           rxcallb' \in [Opaque -> Call \cup {Nil}],
           todo' \subseteq Opaque, calling' \subseteq Opaque,
           rxch' \in Seq(Item), Len(rxch') =< RxchSize,
           syncrx' \in {"loop", "exit", "flush", "stopped"},
           dorx' \in {"run", "stopped"},
           remote' \subseteq [m : Call, o : Opaque],
           rxpkt' \subseteq [m : Call, o : Opaque],
           cs' \in [Caller -> CState], \A c \in Caller : OwnCall(c)',
           done' \subseteq Call, early' \subseteq Call,
           failed' \subseteq Opaque,
           syncrx' = "loop" => calling' = {}
    PROVE  TypeInv'
BY DEF TypeInv, TypeOK, CState, PC

\* A routine goes on in its call ...
LEMMA GotoType ==
    ASSUME TypeInv, NEW c \in Caller, NEW pc \in PC, cs[c].pc # "idle",
           Goto(c, pc)
    PROVE  /\ cs' \in [Caller -> CState] /\ \A d \in Caller : OwnCall(d)'
           /\ cs'[c].pc = pc /\ cs'[c].o = cs[c].o /\ cs'[c].m = cs[c].m
           /\ cs'[c].n = cs[c].n
           /\ \A d \in Caller : d # c => cs'[d] = cs[d]
<1>1. cs \in [Caller -> CState] /\ \A d \in Caller : OwnCall(d)
    BY Types
<1>2. /\ cs' = [cs EXCEPT ![c].pc = pc] /\ cs[c] \in CState
    BY <1>1 DEF Goto
<1>3. /\ cs'[c] = [cs[c] EXCEPT !.pc = pc]
      /\ \A d \in Caller : d # c => cs'[d] = cs[d]
    BY <1>1, <1>2
<1>4. /\ cs'[c].pc = pc /\ cs'[c].o = cs[c].o /\ cs'[c].m = cs[c].m
      /\ cs'[c].n = cs[c].n /\ cs'[c] \in CState
    BY <1>2, <1>3 DEF CState
<1>5. cs' \in [Caller -> CState]
    BY <1>1, <1>2, <1>3, <1>4
<1>6. OwnCall(c)'
    BY <1>1, <1>4 DEF OwnCall
<1>7. \A d \in Caller : d # c => OwnCall(d)'
    BY <1>1, <1>3 DEF OwnCall
<1> QED
    BY <1>3, <1>4, <1>5, <1>6, <1>7

\* ... and returns from it.
LEMMA ReturnType ==
    ASSUME TypeInv, NEW c \in Caller, Return(c)
    PROVE  /\ cs' \in [Caller -> CState] /\ \A d \in Caller : OwnCall(d)'
           /\ cs'[c].pc = "idle" /\ cs'[c].n = cs[c].n
           /\ \A d \in Caller : d # c => cs'[d] = cs[d]
           /\ done' = done \ {cs[c].m} /\ early' = early \ {cs[c].m}
           /\ done' \subseteq Call /\ early' \subseteq Call
<1>1. /\ cs \in [Caller -> CState] /\ \A d \in Caller : OwnCall(d)
      /\ done \subseteq Call /\ early \subseteq Call
    BY Types
<1>2. /\ cs' = [cs EXCEPT ![c] = Idle(@.n)] /\ cs[c] \in CState
      /\ done' = done \ {cs[c].m} /\ early' = early \ {cs[c].m}
    BY <1>1 DEF Return
<1>3. /\ cs'[c] = Idle(cs[c].n)
      /\ \A d \in Caller : d # c => cs'[d] = cs[d]
    BY <1>1, <1>2
<1>4. /\ cs'[c].pc = "idle" /\ cs'[c].n = cs[c].n /\ cs'[c] \in CState
    BY <1>2, <1>3 DEF CState, Idle, PC
<1>5. cs' \in [Caller -> CState]
    BY <1>1, <1>2, <1>3, <1>4
<1> QED
    BY <1>1, <1>2, <1>3, <1>4, <1>5 DEF OwnCall

\* putch() keeps the channel within its capacity.
LEMMA putchType ==
    ASSUME TypeInv, NEW o \in Opaque, putch(Updated(o))
    PROVE  rxch' \in Seq(Item) /\ Len(rxch') =< RxchSize
<1>1. Updated(o) \in Item
    BY DEF Updated, Item
<1>2. rxch \in Seq(Item) /\ Len(rxch) =< RxchSize /\ RxchSize \in Nat
    BY Types
<1> QED
    BY <1>1, <1>2 DEF putch

\* A call begins.
LEMMA getlocalstreamType ==
    ASSUME TypeInv, NEW c \in Caller, NEW k \in KindOf[c], getlocalstream(c, k)
    PROVE  LET m == [c |-> c, n |-> cs[c].n + 1, k |-> k]
               o == Head(pStrms)
               s == [pc |-> IF k = "Post" THEN "tx" ELSE "tell",
                     o |-> o, m |-> m, n |-> m.n]
           IN  /\ TypeInv'
               /\ m \in Call /\ o \in Opaque /\ pStrms # <<>>
               /\ cs'[c] = s /\ \A d \in Caller : d # c => cs'[d] = cs[d]
<1> DEFINE m == [c |-> c, n |-> cs[c].n + 1, k |-> k]
           o == Head(pStrms)
           s == [pc |-> IF k = "Post" THEN "tx" ELSE "tell",
                 o |-> o, m |-> m, n |-> m.n]
<1>1. /\ cs[c].n < MaxCall /\ pStrms # <<>> /\ pStrms' = Tail(pStrms)
      /\ rxcallb' = [rxcallb EXCEPT ![o] = IF k = "Post" THEN Nil ELSE m]
      /\ cs' = [cs EXCEPT ![c] = s]
      /\ UNCHANGED <<close, live, rx, peer, done, history>>
    BY DEF getlocalstream
<1>2. /\ cs \in [Caller -> CState] /\ pStrms \in Seq(Opaque)
      /\ rxcallb \in [Opaque -> Call \cup {Nil}]
      /\ \A d \in Caller : OwnCall(d)
    BY Types
<1>3. k \in CallKind /\ MaxCall \in Nat
    BY ShutdownAssumption
<1>4. cs[c].n \in Nat /\ cs[c].n + 1 \in 1..MaxCall
    BY <1>1, <1>2, <1>3 DEF CState
<1>5. m \in Call /\ o \in Opaque
    BY <1>1, <1>2, <1>3, <1>4 DEF Call
<1>6. m.c = c /\ m.n = cs[c].n + 1
    OBVIOUS
<1> HIDE DEF m, o
<1>7. s \in CState
    BY <1>4, <1>5, <1>6 DEF CState, PC
<1>8. cs' \in [Caller -> CState] /\ cs'[c] = s
    BY <1>1, <1>2, <1>7
<1>9. \A d \in Caller : d # c => cs'[d] = cs[d]
    BY <1>1, <1>2
<1>10. \A d \in Caller : OwnCall(d)'
    BY <1>2, <1>5, <1>6, <1>8, <1>9 DEF OwnCall
<1>11. pStrms' \in Seq(Opaque) /\ rxcallb' \in [Opaque -> Call \cup {Nil}]
    BY <1>1, <1>2, <1>5
<1>12. TypeInv'
  <2>1. UNCHANGED <<killed, conn, live, rxch, syncrx, todo, calling, crashed,
                    dorx, remote, rxpkt, done, early, failed>>
    BY <1>1 DEF close, rx, peer, history
  <2> QED
    BY <1>8, <1>10, <1>11, <2>1, TypeCombine DEF TypeInv, TypeOK
<1> QED
    BY <1>1, <1>5, <1>8, <1>9, <1>12 DEF m, o

\* The other steps of a routine.
LEMMA ProceedType ==
    ASSUME TypeInv, NEW c \in Caller, Proceed(c)
    PROVE  TypeInv'
<1>0. /\ cs[c].pc # "idle" /\ cs[c].o \in Opaque /\ cs[c].m \in Call
  <2>1. cs[c].pc # "idle"
    BY DEF Proceed, Tell, Post, TxSucceeds, TxFails, RequestDone, putstream,
           StreamEnds
  <2> QED
    BY <2>1, Types DEF OwnCall
<1>1. CASE Tell(c)
  <2>1. cs' \in [Caller -> CState] /\ \A d \in Caller : OwnCall(d)'
    BY <1>0, <1>1, GotoType DEF Tell, PC
  <2>2. rxch' \in Seq(Item) /\ Len(rxch') =< RxchSize
    BY <1>0, <1>1, putchType DEF Tell
  <2>3. early' \subseteq Call
    BY <1>0, <1>1, Types DEF Tell
  <2>4. UNCHANGED <<killed, conn, pStrms, rxcallb, live, syncrx, todo, calling,
                    crashed, dorx, remote, rxpkt, done, failed>>
    BY <1>1 DEF Tell, close, tables, peer
  <2> QED
    BY <2>1, <2>2, <2>3, <2>4, TypeCombine DEF TypeInv, TypeOK
<1>2. CASE Post(c)
  <2>1. /\ cs' \in [Caller -> CState] /\ \A d \in Caller : OwnCall(d)'
        /\ done' \subseteq Call /\ early' \subseteq Call
    BY <1>2, ReturnType DEF Post
  <2>2. pStrms' \in Seq(Opaque)
    BY <1>0, <1>2, Types DEF Post
  <2>3. UNCHANGED <<killed, conn, rxcallb, live, rxch, syncrx, todo, calling,
                    crashed, dorx, remote, rxpkt, failed>>
    BY <1>2 DEF Post, close, rx, peer
  <2> QED
    BY <2>1, <2>2, <2>3, TypeCombine DEF TypeInv, TypeOK
<1>3. CASE TxSucceeds(c)
  <2>1. cs' \in [Caller -> CState] /\ \A d \in Caller : OwnCall(d)'
    <3>1. PICK pc \in PC : Goto(c, pc)
      BY <1>3 DEF TxSucceeds, PC
    <3> QED
      BY <1>0, <3>1, GotoType
  <2>2. remote' \subseteq [m : Call, o : Opaque]
    BY <1>0, <1>3, Types DEF TxSucceeds, Written
  <2>3. UNCHANGED <<killed, conn, pStrms, rxcallb, live, rxch, syncrx, todo,
                    calling, crashed, dorx, rxpkt, done, early, failed>>
    BY <1>3 DEF TxSucceeds, close, tables, rx, history
  <2> QED
    BY <2>1, <2>2, <2>3, TypeCombine DEF TypeInv, TypeOK
<1>4. CASE TxFails(c)
  <2>1. cs' \in [Caller -> CState] /\ \A d \in Caller : OwnCall(d)'
    BY <1>0, <1>4, GotoType DEF TxFails, PC
  <2>2. remote' \subseteq [m : Call, o : Opaque]
    BY <1>0, <1>4, Types DEF TxFails, Written
  <2>3. failed' \subseteq Opaque
    BY <1>0, <1>4, Types DEF TxFails
  <2>4. UNCHANGED <<killed, conn, pStrms, rxcallb, live, rxch, syncrx, todo,
                    calling, crashed, dorx, rxpkt, done, early>>
    BY <1>4 DEF TxFails, close, tables, rx
  <2> QED
    BY <2>1, <2>2, <2>3, <2>4, TypeCombine DEF TypeInv, TypeOK
<1>5. CASE RequestDone(c)
  <2>1. cs' \in [Caller -> CState] /\ \A d \in Caller : OwnCall(d)'
    BY <1>0, <1>5, GotoType DEF RequestDone, PC
  <2>2. rxcallb' \in [Opaque -> Call \cup {Nil}]
    BY <1>5, Types DEF RequestDone
  <2>3. UNCHANGED <<killed, conn, pStrms, live, rxch, syncrx, todo, calling,
                    crashed, dorx, remote, rxpkt, done, early, failed>>
    BY <1>5 DEF RequestDone, close, rx, peer, history
  <2> QED
    BY <2>1, <2>2, <2>3, TypeCombine DEF TypeInv, TypeOK
<1>6. CASE putstream(c)
  <2>1. /\ cs' \in [Caller -> CState] /\ \A d \in Caller : OwnCall(d)'
        /\ done' \subseteq Call /\ early' \subseteq Call
    BY <1>6, ReturnType DEF putstream
  <2>2. rxch' \in Seq(Item) /\ Len(rxch') =< RxchSize
    BY <1>0, <1>6, putchType DEF putstream
  <2>3. UNCHANGED <<killed, conn, pStrms, rxcallb, live, syncrx, todo, calling,
                    crashed, dorx, remote, rxpkt, failed>>
    BY <1>6 DEF putstream, close, tables, peer
  <2> QED
    BY <2>1, <2>2, <2>3, TypeCombine DEF TypeInv, TypeOK
<1>7. CASE StreamEnds(c)
  <2>1. /\ cs' \in [Caller -> CState] /\ \A d \in Caller : OwnCall(d)'
        /\ done' \subseteq Call /\ early' \subseteq Call
    BY <1>7, ReturnType DEF StreamEnds
  <2>2. UNCHANGED <<killed, conn, pStrms, rxcallb, live, rxch, syncrx, todo,
                    calling, crashed, dorx, remote, rxpkt, failed>>
    BY <1>7 DEF StreamEnds, close, tables, rx, peer
  <2> QED
    BY <2>1, <2>2, TypeCombine DEF TypeInv, TypeOK
<1> QED
    BY <1>1, <1>2, <1>3, <1>4, <1>5, <1>6, <1>7 DEF Proceed

\* Routines whose state stays.
LEMMA OwnCallKept ==
    ASSUME TypeInv, UNCHANGED cs
    PROVE  cs' \in [Caller -> CState] /\ \A d \in Caller : OwnCall(d)'
BY Types DEF OwnCall

\* An item is taken off rxch.
LEMMA TakesType ==
    ASSUME TypeInv, NEW k, Takes(k)
    PROVE  /\ k \in Item /\ rxch' \in Seq(Item) /\ Len(rxch') =< RxchSize
           /\ k = Head(rxch) /\ rxch' = Tail(rxch) /\ rxch # <<>>
<1>1. /\ rxch \in Seq(Item) /\ Len(rxch) =< RxchSize /\ RxchSize \in Nat
      /\ rxch # <<>>
    BY Types DEF Takes
<1>2. /\ Head(rxch) \in Item /\ Tail(rxch) \in Seq(Item)
      /\ Len(Tail(rxch)) =< RxchSize
    BY <1>1
<1> QED
    BY <1>1, <1>2 DEF Takes

\* The steps of syncRx().
LEMMA syncRxType ==
    ASSUME TypeInv, syncRx
    PROVE  TypeInv'
<1> DEFINE k == Head(rxch)
<1>1. cs' \in [Caller -> CState] /\ \A d \in Caller : OwnCall(d)'
    BY OwnCallKept
    DEF syncRx, streamupdate, handlepkt, syncRxBreaks, ExitVisits, ExitCalls,
        ExitDone, flushrxch
<1>2. CASE streamupdate
  <2>1. k \in Item /\ rxch' \in Seq(Item) /\ Len(rxch') =< RxchSize
    BY <1>2, TakesType DEF streamupdate
  <2>2. k.o \in Opaque
    BY <2>1 DEF Item
  <2> HIDE DEF k
  <2>3. /\ live' = IF rxcallb[k.o] # Nil THEN live \cup {k.o}
                                         ELSE live \ {k.o}
        /\ pStrms' = IF rxcallb[k.o] = Nil /\ k.o \in live
                     THEN Append(pStrms, k.o) ELSE pStrms
    BY <1>2 DEF streamupdate, k
  <2>4. live' \subseteq Opaque /\ pStrms' \in Seq(Opaque)
    BY <2>2, <2>3, Types
  <2>5. UNCHANGED <<killed, conn, rxcallb, syncrx, todo, calling, crashed,
                    dorx, remote, rxpkt, done, early, failed>>
    BY <1>2 DEF streamupdate, close, peer, history
  <2> QED
    BY <1>1, <2>1, <2>4, <2>5, TypeCombine DEF TypeInv, TypeOK
<1>3. CASE handlepkt
  <2> DEFINE m == IF k.o \in live THEN rxcallb[k.o] ELSE Nil
             ends == k.t = "finish" /\ k.o \in live
  <2>1. k \in Item /\ rxch' \in Seq(Item) /\ Len(rxch') =< RxchSize
    BY <1>3, TakesType DEF handlepkt
  <2>2. k.o \in Opaque
    BY <2>1 DEF Item
  <2>3. /\ done' = done \/ (m # Nil /\ done' = done \cup {m})
        /\ syncrx' \in {"exit", "loop"} /\ syncrx = "loop"
        /\ todo' = live \/ todo' = todo
        /\ live' = IF ends THEN live \ {k.o} ELSE live
        /\ pStrms' = IF ends THEN Append(pStrms, k.o) ELSE pStrms
        /\ UNCHANGED <<close, rxcallb, calling, crashed, peer, cs, history>>
    BY <1>3 DEF handlepkt
  <2>4. m # Nil => m \in Call
    BY <2>2, Types
  <2> HIDE DEF k, m, ends
  <2>5. /\ live' \subseteq Opaque /\ pStrms' \in Seq(Opaque)
        /\ todo' \subseteq Opaque /\ done' \subseteq Call
    BY <2>2, <2>3, <2>4, Types
  <2>6. UNCHANGED <<killed, conn, rxcallb, calling, crashed, dorx, remote,
                    rxpkt, early, failed>>
    BY <2>3 DEF close, peer, history
  <2> QED
    BY <1>1, <2>1, <2>3, <2>5, <2>6, TypeCombine DEF TypeInv, TypeOK
<1>4. CASE syncRxBreaks \/ ExitDone
  <2>1. /\ todo' \subseteq Opaque /\ syncrx' \in {"exit", "flush"}
        /\ UNCHANGED <<close, tables, rxch, calling, crashed, peer, done,
                       history>>
    BY <1>4, Types DEF syncRxBreaks, ExitDone
  <2>2. UNCHANGED <<killed, conn, pStrms, rxcallb, live, rxch, calling,
                    crashed, dorx, remote, rxpkt, done, early, failed>>
    BY <2>1 DEF close, tables, peer, history
  <2> QED
    BY <1>1, <2>1, <2>2, TypeCombine DEF TypeInv, TypeOK
<1>5. ASSUME NEW o \in todo, ExitVisits(o) PROVE TypeInv'
  <2>1. /\ todo' \subseteq Opaque /\ calling' \subseteq Opaque
        /\ syncrx = "exit"
        /\ UNCHANGED <<close, tables, rxch, syncrx, crashed, peer, done,
                       history>>
    BY <1>5, Types DEF ExitVisits
  <2>2. UNCHANGED <<killed, conn, pStrms, rxcallb, live, rxch, syncrx,
                    crashed, dorx, remote, rxpkt, done, early, failed>>
    BY <2>1 DEF close, tables, peer, history
  <2> QED
    BY <1>1, <2>1, <2>2, TypeCombine DEF TypeInv, TypeOK
<1>6. ASSUME NEW o \in calling, ExitCalls(o) PROVE TypeInv'
  <2>1. /\ calling' = {} /\ crashed' \in BOOLEAN
        /\ done' = done \/ (rxcallb[o] # Nil /\ done' = done \cup {rxcallb[o]})
        /\ UNCHANGED <<close, tables, rxch, syncrx, todo, peer, history>>
    BY <1>6 DEF ExitCalls, Panics
  <2>2. done' \subseteq Call
    BY <2>1, Types
  <2>3. UNCHANGED <<killed, conn, pStrms, rxcallb, live, rxch, syncrx, todo,
                    dorx, remote, rxpkt, early, failed>>
    BY <2>1 DEF close, tables, peer, history
  <2> QED
    BY <1>1, <2>1, <2>2, <2>3, TypeCombine DEF TypeInv, TypeOK
<1>7. CASE flushrxch
  <2>1. /\ syncrx' \in {"flush", "stopped"}
        /\ UNCHANGED <<close, tables, todo, crashed, peer, done, history>>
    BY <1>7 DEF flushrxch
  <2>2. /\ rxch' \in Seq(Item) /\ Len(rxch') =< RxchSize
        /\ calling' \subseteq Opaque
    <3>1. CASE Takes(k)
      <4>1. k \in Item /\ rxch' \in Seq(Item) /\ Len(rxch') =< RxchSize
        BY <3>1, TakesType
      <4>2. k.o \in Opaque
        BY <4>1 DEF Item
      <4>3. calling' \subseteq calling \cup {k.o}
        BY <1>7 DEF flushrxch
      <4> QED
        BY <4>1, <4>2, <4>3, Types
    <3>2. CASE UNCHANGED <<rxch, calling>>
      BY <3>2, Types
    <3> QED
      BY <1>7, <3>1, <3>2 DEF flushrxch
  <2>3. UNCHANGED <<killed, conn, pStrms, rxcallb, live, todo, crashed, dorx,
                    remote, rxpkt, done, early, failed>>
    BY <2>1 DEF close, tables, peer, history
  <2> QED
    BY <1>1, <2>1, <2>2, <2>3, TypeCombine DEF TypeInv, TypeOK
<1> QED
    BY <1>2, <1>3, <1>4, <1>5, <1>6, <1>7 DEF syncRx

\* The remote, doRx() and Close().
LEMMA EnvironmentType ==
    ASSUME TypeInv, doRx \/ ConnBreaks \/ CloseKillch \/ CloseConn
    PROVE  TypeInv'
<1>1. cs' \in [Caller -> CState] /\ \A d \in Caller : OwnCall(d)'
    BY OwnCallKept
    DEF doRx, doRxReads, doRxPuts, doRxStops, ConnBreaks, CloseKillch, CloseConn
<1>2. ASSUME NEW a \in remote, doRxPuts(a) PROVE TypeInv'
  <2>1. PICK good \in BOOLEAN :
            rxch' = Append(rxch,
                [t |-> IF a.m.k = "Stream" THEN "finish" ELSE "response",
                 o |-> a.o, good |-> good])
    BY <1>2 DEF doRxPuts
  <2>2. a.o \in Opaque
    BY Types
  <2>3. [t |-> IF a.m.k = "Stream" THEN "finish" ELSE "response",
         o |-> a.o, good |-> good] \in Item
    BY <2>2 DEF Item
  <2>4. Len(rxch) < RxchSize /\ remote' = remote \ {a} /\ rxpkt' = {}
    BY <1>2 DEF doRxPuts
  <2>5. rxch' \in Seq(Item) /\ Len(rxch') =< RxchSize
    BY <2>1, <2>3, <2>4, Types
  <2>6. UNCHANGED <<killed, conn, pStrms, rxcallb, live, syncrx, todo, calling,
                    crashed, dorx, done, early, failed>>
    BY <1>2 DEF doRxPuts, close, tables, history
  <2> QED
    BY <1>1, <2>4, <2>5, <2>6, TypeCombine, Types DEF TypeInv, TypeOK
<1>4. ASSUME NEW a \in remote, doRxReads(a) PROVE TypeInv'
  <2>1. rxpkt' \subseteq [m : Call, o : Opaque]
    BY <1>4, Types DEF doRxReads
  <2>2. UNCHANGED <<killed, conn, pStrms, rxcallb, live, rxch, syncrx, todo,
                    calling, crashed, dorx, remote, done, early, failed>>
    BY <1>4 DEF doRxReads, close, tables, rx, history
  <2> QED
    BY <1>1, <2>1, <2>2, TypeCombine DEF TypeInv, TypeOK
<1>3. CASE doRxStops \/ ConnBreaks \/ CloseKillch \/ CloseConn
  <2>1. /\ killed' \in BOOLEAN /\ conn' \in {"up", "down"}
        /\ dorx' \in {"run", "stopped"}
        /\ UNCHANGED <<pStrms, rxcallb, live, rxch, syncrx, todo, calling,
                       crashed, remote, rxpkt, done, early, failed>>
    BY <1>3 DEF TypeInv, TypeOK, doRxStops, ConnBreaks, CloseKillch, CloseConn,
                close, tables, rx, peer, history
  <2> QED
    BY <1>1, <2>1, TypeCombine DEF TypeInv, TypeOK
<1> QED
    BY <1>2, <1>3, <1>4 DEF doRx

\* Every step preserves the types.
LEMMA NextType == TypeInv /\ [Next]_vars => TypeInv'
<1> SUFFICES ASSUME TypeInv, [Next]_vars PROVE TypeInv'
    OBVIOUS
<1>1. CASE UNCHANGED vars
    BY <1>1 DEF vars, close, tables, rx, peer, history, TypeInv, TypeOK,
                OwnCall
<1>2. ASSUME NEW c \in Caller, NEW k \in KindOf[c], getlocalstream(c, k)
      PROVE  TypeInv'
    BY <1>2, getlocalstreamType
<1> QED
    BY <1>1, <1>2, ProceedType, syncRxType, EnvironmentType DEF Next

\* The types hold when the transport is created.
LEMMA InitType == Init => TypeInv
<1> SUFFICES ASSUME Init PROVE TypeInv
    OBVIOUS
<1> USE ShutdownAssumption
<1>1. pStrms \in Seq(Opaque)
    BY DEF Init, Opaque
<1>2. \A c \in Caller : cs[c] = Idle(0) /\ Idle(0) \in CState
    BY DEF Init, CState, PC, Idle
<1>3. cs \in [Caller -> CState] /\ \A c \in Caller : OwnCall(c)
    BY <1>2 DEF Init, OwnCall, Idle
<1>4. rxch \in Seq(Item) /\ Len(rxch) =< RxchSize
    BY DEF Init
<1>5. rxcallb \in [Opaque -> Call \cup {Nil}]
    BY DEF Init
<1>6. /\ killed = FALSE /\ conn = "up" /\ crashed = FALSE /\ live = {}
      /\ syncrx = "loop" /\ todo = {} /\ calling = {} /\ dorx = "run"
      /\ remote = {} /\ rxpkt = {} /\ done = {} /\ early = {} /\ failed = {}
    BY DEF Init
<1> QED
    BY <1>1, <1>3, <1>4, <1>5, <1>6 DEF TypeInv, TypeOK, CState, PC

\* Type correctness while the transport is used and closed: rxch stays within
\* its capacity.
THEOREM TypeCorrect == Spec => []TypeOK
<1>1. TypeInv => TypeOK
    BY DEF TypeInv
<1> QED
    BY <1>1, InitType, NextType, PTL DEF Spec

-----------------------------------------------------------------------------
(* Items of rxch. *)

\* An item is sent ...
LEMMA AppendItem ==
    ASSUME NEW s \in Seq(Item), NEW k \in Item, NEW o, NEW T
    PROVE  /\ Has(Append(s, k), o, T) <=> Has(s, o, T) \/ Is(k, o, T)
           /\ Once(s, o, T) /\ ~(Has(s, o, T) /\ Is(k, o, T)) =>
                  Once(Append(s, k), o, T)
           /\ ~Has(s, o, T) => Once(s, o, T)
<1> DEFINE t == Append(s, k)
           l == Len(s)
<1>1. /\ l \in Nat /\ Len(t) = l + 1 /\ t[l + 1] = k
      /\ \A i \in 1..l : t[i] = s[i]
      /\ \A i \in 1..(l + 1) : i \in 1..l \/ i = l + 1
      /\ \A i \in 1..l : i \in 1..(l + 1)
      /\ l + 1 \in 1..(l + 1)
    OBVIOUS
<1> HIDE DEF t, l, Is
<1>2. Has(t, o, T) <=> Has(s, o, T) \/ Is(k, o, T)
  <2>1. ASSUME Has(t, o, T) PROVE Has(s, o, T) \/ Is(k, o, T)
    BY <1>1, <2>1 DEF Has, l
  <2>2. ASSUME Has(s, o, T) PROVE Has(t, o, T)
    BY <1>1, <2>2 DEF Has, l
  <2>3. ASSUME Is(k, o, T) PROVE Has(t, o, T)
    BY <1>1, <2>3 DEF Has
  <2> QED
    BY <2>1, <2>2, <2>3
<1>3. ASSUME Once(s, o, T), ~(Has(s, o, T) /\ Is(k, o, T))
      PROVE  Once(t, o, T)
  <2> SUFFICES ASSUME NEW i \in 1..(l + 1), NEW j \in 1..(l + 1),
                      Is(t[i], o, T), Is(t[j], o, T)
               PROVE  i = j
    BY <1>1 DEF Once
  <2>1. CASE i \in 1..l /\ j \in 1..l
    BY <1>1, <1>3, <2>1 DEF Once, l
  <2>2. CASE i \in 1..l /\ j = l + 1
    BY <1>1, <1>3, <2>2 DEF Has, l
  <2>3. CASE i = l + 1 /\ j \in 1..l
    BY <1>1, <1>3, <2>3 DEF Has, l
  <2> QED
    BY <1>1, <2>1, <2>2, <2>3
<1>4. ~Has(s, o, T) => Once(s, o, T)
    BY DEF Has, Once
<1> QED
    BY <1>2, <1>3, <1>4 DEF t

\* ... and taken.
LEMMA TailItem ==
    ASSUME NEW s \in Seq(Item), s # <<>>, NEW o, NEW T
    PROVE  /\ Has(s, o, T) <=> Has(Tail(s), o, T) \/ Is(Head(s), o, T)
           /\ Once(s, o, T) => Once(Tail(s), o, T)
           /\ Once(s, o, T) /\ Is(Head(s), o, T) => ~Has(Tail(s), o, T)
<1> DEFINE t == Tail(s)
           l == Len(s)
           k == Head(s)
<1>1. /\ l \in Nat /\ l >= 1 /\ Len(t) = l - 1 /\ s[1] = k
      /\ \A i \in 1..(l - 1) : t[i] = s[i + 1]
    OBVIOUS
<1>2. /\ \A i \in 1..(l - 1) : i + 1 \in 1..l /\ i + 1 # 1
      /\ 1 \in 1..l
      /\ \A i \in 1..l : i = 1 \/ (i - 1 \in 1..(l - 1) /\ (i - 1) + 1 = i)
    BY <1>1
<1> HIDE DEF t, l, k, Is
<1>3. Has(s, o, T) <=> Has(t, o, T) \/ Is(k, o, T)
  <2>1. ASSUME Has(s, o, T) PROVE Has(t, o, T) \/ Is(k, o, T)
    <3>1. PICK i \in 1..l : Is(s[i], o, T)
      BY <2>1 DEF Has, l
    <3>2. CASE i = 1
      BY <1>1, <3>1, <3>2
    <3>3. CASE i # 1
      <4>1. i - 1 \in 1..(l - 1) /\ t[i - 1] = s[i]
        BY <1>1, <1>2, <3>3
      <4> QED
        BY <1>1, <3>1, <4>1 DEF Has
    <3> QED
      BY <3>2, <3>3
  <2>2. ASSUME Has(t, o, T) PROVE Has(s, o, T)
    BY <1>1, <1>2, <2>2 DEF Has, l
  <2>3. ASSUME Is(k, o, T) PROVE Has(s, o, T)
    BY <1>1, <1>2, <2>3 DEF Has, l
  <2> QED
    BY <2>1, <2>2, <2>3
<1>4. ASSUME Once(s, o, T) PROVE Once(t, o, T)
  <2> SUFFICES ASSUME NEW i \in 1..(l - 1), NEW j \in 1..(l - 1),
                      Is(t[i], o, T), Is(t[j], o, T)
               PROVE  i = j
    BY <1>1 DEF Once
  <2>1. i + 1 = j + 1
    BY <1>1, <1>2, <1>4 DEF Once, l
  <2> QED
    BY <1>1, <2>1
<1>5. ASSUME Once(s, o, T), Is(k, o, T), Has(t, o, T) PROVE FALSE
    BY <1>1, <1>2, <1>5 DEF Once, Has, l
<1> QED
    BY <1>3, <1>4, <1>5 DEF t, k

\* A stream is put into the pool ...
LEMMA AppendPool ==
    ASSUME NEW s \in Seq(Opaque), NEW x \in Opaque
    PROVE  /\ \A o : (\E i \in 1..Len(Append(s, x)) : Append(s, x)[i] = o)
                         <=> o = x \/ \E i \in 1..Len(s) : s[i] = o
           /\ /\ \A i, j \in 1..Len(s) : s[i] = s[j] => i = j
              /\ \A i \in 1..Len(s) : s[i] # x
              => \A i, j \in 1..Len(Append(s, x)) :
                     Append(s, x)[i] = Append(s, x)[j] => i = j
<1> DEFINE t == Append(s, x)
           l == Len(s)
<1>1. /\ l \in Nat /\ Len(t) = l + 1 /\ t[l + 1] = x
      /\ \A i \in 1..l : t[i] = s[i]
      /\ \A i \in 1..(l + 1) : i \in 1..l \/ i = l + 1
      /\ \A i \in 1..l : i \in 1..(l + 1)
      /\ l + 1 \in 1..(l + 1)
    OBVIOUS
<1> HIDE DEF t, l
<1>2. \A o : (\E i \in 1..Len(t) : t[i] = o)
                 <=> o = x \/ \E i \in 1..l : s[i] = o
    BY <1>1
<1>3. ASSUME \A i, j \in 1..l : s[i] = s[j] => i = j, \A i \in 1..l : s[i] # x
      PROVE  \A i, j \in 1..Len(t) : t[i] = t[j] => i = j
    BY <1>1, <1>3
<1> QED
    BY <1>2, <1>3 DEF t, l

\* ... and taken from it.
LEMMA TailPool ==
    ASSUME NEW s \in Seq(Opaque), s # <<>>,
           \A i, j \in 1..Len(s) : s[i] = s[j] => i = j
    PROVE  /\ \A o : (\E i \in 1..Len(Tail(s)) : Tail(s)[i] = o)
                         <=> o # Head(s) /\ \E i \in 1..Len(s) : s[i] = o
           /\ \A i, j \in 1..Len(Tail(s)) : Tail(s)[i] = Tail(s)[j] => i = j
           /\ \E i \in 1..Len(s) : s[i] = Head(s)
<1> DEFINE t == Tail(s)
           l == Len(s)
           x == Head(s)
<1>1. /\ l \in Nat /\ l >= 1 /\ Len(t) = l - 1 /\ s[1] = x
      /\ \A i \in 1..(l - 1) : t[i] = s[i + 1]
    OBVIOUS
<1>2. /\ \A i \in 1..(l - 1) : i + 1 \in 1..l /\ i + 1 # 1
      /\ 1 \in 1..l
      /\ \A i \in 1..l : i = 1 \/ (i - 1 \in 1..(l - 1) /\ (i - 1) + 1 = i)
    BY <1>1
<1>3. \A i, j \in 1..l : s[i] = s[j] => i = j
    OBVIOUS
<1> HIDE DEF t, l, x
<1>4. ASSUME NEW i \in 1..(l - 1) PROVE t[i] # x
    BY <1>1, <1>2, <1>3
<1>5. ASSUME NEW o, o # x, NEW i \in 1..l, s[i] = o
      PROVE  \E j \in 1..(l - 1) : t[j] = o
  <2>1. i - 1 \in 1..(l - 1) /\ t[i - 1] = s[i]
    BY <1>1, <1>2, <1>5
  <2> QED
    BY <1>5, <2>1
<1>6. \A o : (\E i \in 1..(l - 1) : t[i] = o)
                 <=> o # x /\ \E i \in 1..l : s[i] = o
  <2>1. ASSUME NEW o, NEW i \in 1..(l - 1), t[i] = o
        PROVE  o # x /\ \E j \in 1..l : s[j] = o
    <3>1. i + 1 \in 1..l /\ s[i + 1] = o
      BY <1>1, <1>2, <2>1
    <3> QED
      BY <1>4, <2>1, <3>1
  <2> QED
    BY <1>5, <2>1
<1>7. ASSUME NEW i \in 1..(l - 1), NEW j \in 1..(l - 1), t[i] = t[j]
      PROVE  i = j
  <2>1. i + 1 = j + 1
    BY <1>1, <1>2, <1>3, <1>7
  <2> QED
    BY <1>1, <2>1
<1> QED
    BY <1>1, <1>2, <1>6, <1>7 DEF t, l, x

-----------------------------------------------------------------------------
(* Steps and the places of streams. *)

\* A step leaves stream o where it is, and what is known of it.
Same(o) ==
    /\ Pooled(o)' <=> Pooled(o)
    /\ o \in live' <=> o \in live
    /\ o \in failed => o \in failed'
    /\ rxcallb'[o] = rxcallb[o]
    /\ \A T \in {U, R, {"response"}, {"finish"}} :
           /\ Has(rxch', o, T) <=> Has(rxch, o, T)
           /\ Once(rxch, o, T) => Once(rxch', o, T)
    /\ \A a \in remote' : a.o = o => a \in remote

\* Then a stream that no routine has stays in its place ...
LEMMA SamePlace ==
    ASSUME NEW o, Same(o)
    PROVE  /\ Free(o) => Free(o)'
           /\ Returning(o) => Returning(o)'
           /\ Lost(o) => Lost(o)'
<1>1. Quiet(o) => Quiet(o)'
    BY DEF Same, Quiet
<1>2. /\ Has(rxch', o, U) <=> Has(rxch, o, U)
      /\ Once(rxch, o, U) => Once(rxch', o, U)
    BY DEF Same
<1> QED
    BY <1>1, <1>2 DEF Same, Free, Returning, Lost

\* ... and one that a routine has is still at the same stage.
LEMMA SameStage ==
    ASSUME NEW c \in Caller, NEW o \in Opaque, NEW m \in Call,
           cs[c].o = o, cs[c].m = m, Same(o), cs'[c] = cs[c],
           m \in done' <=> m \in done, Stage(c)
    PROVE  Stage(c)'
<1>1. Quiet(o) => /\ ~Has(rxch', o, R)
                  /\ \A a \in remote' : a.o # o
    BY DEF Same, Quiet
<1>2. /\ Has(rxch', o, U) <=> Has(rxch, o, U)
      /\ Once(rxch, o, U) => Once(rxch', o, U)
      /\ o \in live' <=> o \in live
      /\ o \in failed => o \in failed'
      /\ rxcallb'[o] = rxcallb[o]
    BY DEF Same
<1>3. Known(o) => /\ o \in live' <=> ~Has(rxch', o, U)
                  /\ Once(rxch', o, U)
    BY <1>2 DEF Known
<1>4. Owed(o, m) =>
          /\ \A a \in remote' : a.o = o => a.m = m /\ ~Has(rxch', o, R)
          /\ Once(rxch', o, R)
          /\ ~Has(rxch', o, IF m.k = "Stream" THEN {"response"}
                                              ELSE {"finish"})
    BY DEF Same, Owed
<1>5. /\ cs'[c].o = o /\ cs'[c].m = m /\ cs'[c].pc = cs[c].pc
      /\ m \in done' <=> m \in done
    OBVIOUS
<1>6. /\ Quiet(o) => Quiet(o)'
      /\ Known(o) => Known(o)'
      /\ Owed(o, m) => Owed(o, m)'
    BY <1>1, <1>3, <1>4 DEF Quiet, Known, Owed
<1> QED
    BY <1>2, <1>5, <1>6 DEF Stage, Quiet, Known, Owed

\* A step of at most one routine, which has stream x or gets it, and of
\* syncRx() on x: the other streams and routines are as they were.
LEMMA PlacesStep ==
    ASSUME TypeInv, Places, NEW x, NEW C \in SUBSET Caller,
           \A o \in Opaque : o # x => Same(o),
           \A i, j \in 1..Len(pStrms') : pStrms'[i] = pStrms'[j] => i = j,
           \A c, d \in C : c = d,
           \A d \in Caller \ C :
               /\ cs'[d] = cs[d]
               /\ cs[d].pc # "idle" => (cs[d].m \in done' <=> cs[d].m \in done)
               /\ Holds(d) => cs[d].o # x,
           \A c \in C : /\ Holds(c) => cs[c].o = x
                        /\ Holds(c)' => /\ cs'[c].o = x /\ Stage(c)'
                                        /\ ~Pooled(x)',
           x \in Opaque => \/ \E c \in C : Holds(c)'
                           \/ Free(x)' \/ Returning(x)' \/ Lost(x)'
    PROVE  Places'
<1>1. ASSUME NEW d \in Caller \ C
      PROVE  /\ Holds(d)' <=> Holds(d)
             /\ cs'[d] = cs[d]
             /\ Holds(d) => cs[d].o # x /\ cs[d].o \in Opaque
  <2>1. cs'[d] = cs[d]
    OBVIOUS
  <2>2. Holds(d)' <=> Holds(d)
    BY <2>1 DEF Holds
  <2> QED
    BY <2>1, <2>2, Types DEF Holds, OwnCall
<1>2. ASSUME NEW d \in Caller \ C, Holds(d)
      PROVE  Stage(d)' /\ ~Pooled(cs[d].o)'
  <2>0. /\ cs[d].o \in Opaque /\ cs[d].m \in Call
        /\ cs[d].m \in done' <=> cs[d].m \in done
    BY <1>2, Types DEF Holds, OwnCall
  <2>1. PICK o \in Opaque : o = cs[d].o
    BY <2>0
  <2>2. PICK m \in Call : m = cs[d].m
    BY <2>0
  <2>3. Stage(d) /\ ~Pooled(o)
    BY <1>2, <2>1 DEF Places, Pooled
  <2>4. Same(o) /\ (m \in done' <=> m \in done)
    BY <1>1, <1>2, <2>0, <2>1, <2>2
  <2>5. Stage(d)'
    BY <1>1, <2>1, <2>2, <2>3, <2>4, SameStage
  <2>6. ~ \E i \in 1..Len(pStrms') : pStrms'[i] = o
    BY <2>3, <2>4 DEF Same, Pooled
  <2> QED
    BY <1>1, <2>1, <2>5, <2>6 DEF Pooled
<1>3. ASSUME NEW c \in Caller, NEW d \in Caller, Holds(c)', Holds(d)',
             cs'[c].o = cs'[d].o
      PROVE  c = d
  <2>1. CASE c \in C /\ d \in C
    BY <2>1
  <2>2. CASE c \in C /\ d \notin C
    BY <1>1, <1>3, <2>2
  <2>3. CASE c \notin C /\ d \in C
    BY <1>1, <1>3, <2>3
  <2>4. CASE c \notin C /\ d \notin C
    BY <1>1, <1>3, <2>4 DEF Places
  <2> QED
    BY <2>1, <2>2, <2>3, <2>4
<1>4. ASSUME NEW c \in Caller, Holds(c)'
      PROVE  Stage(c)' /\ ~Pooled(cs[c].o)'
  <2>1. CASE c \in C
    <3>1. Stage(c)' /\ cs'[c].o = x /\ ~Pooled(x)'
      BY <1>4, <2>1
    <3>2. ~ \E i \in 1..Len(pStrms') : pStrms'[i] = x
      BY <3>1 DEF Pooled
    <3> QED
      BY <3>1, <3>2 DEF Pooled
  <2>2. CASE c \notin C
    BY <1>1, <1>2, <1>4, <2>2
  <2> QED
    BY <2>1, <2>2
<1>5. ASSUME NEW o \in Opaque
      PROVE  \/ \E c \in Caller : Holds(c)' /\ cs'[c].o = o
             \/ Free(o)' \/ Returning(o)' \/ Lost(o)'
  <2>1. CASE o = x
    <3>1. CASE \E c \in C : Holds(c)'
      BY <2>1, <3>1
    <3>2. CASE Free(x)' \/ Returning(x)' \/ Lost(x)'
      BY <2>1, <3>2
      DEF Free, Returning, Lost, Quiet, Pooled
    <3> QED
      BY <2>1, <3>1, <3>2
  <2>2. CASE o # x
    <3>1. CASE \E c \in Caller : Holds(c) /\ cs[c].o = o
      <4>1. PICK c \in Caller : Holds(c) /\ cs[c].o = o
        BY <3>1
      <4>2. c \notin C
        BY <2>2, <4>1
      <4> QED
        BY <1>1, <4>1, <4>2
    <3>2. CASE Free(o) \/ Returning(o) \/ Lost(o)
      BY <2>2, <3>2, SamePlace
    <3> QED
      BY <3>1, <3>2 DEF Places
  <2> QED
    BY <2>1, <2>2
<1> QED
    BY <1>3, <1>4, <1>5 DEF Places

\* When a step leaves stream o where it is.
LEMMA SameBecause ==
    ASSUME TypeInv, NEW o \in Opaque, Pooled(o)' <=> Pooled(o),
           o \in live' <=> o \in live, o \in failed => o \in failed',
           rxcallb'[o] = rxcallb[o],
           \/ rxch' = rxch
           \/ \E k \in Item : k.o # o /\ rxch' = Append(rxch, k)
           \/ rxch # <<>> /\ Head(rxch).o # o /\ rxch' = Tail(rxch),
           \A a \in remote' : a.o = o => a \in remote
    PROVE  Same(o)
<1>0. rxch \in Seq(Item)
    BY Types
<1>1. ASSUME NEW T
      PROVE  /\ Has(rxch', o, T) <=> Has(rxch, o, T)
             /\ Once(rxch, o, T) => Once(rxch', o, T)
  <2>1. CASE rxch' = rxch
    BY <2>1
  <2>2. CASE \E k \in Item : k.o # o /\ rxch' = Append(rxch, k)
    <3>1. PICK k \in Item : k.o # o /\ rxch' = Append(rxch, k)
      BY <2>2
    <3>2. ~Is(k, o, T)
      BY <3>1 DEF Is
    <3> QED
      BY <1>0, <3>1, <3>2, AppendItem
  <2>3. CASE rxch # <<>> /\ Head(rxch).o # o /\ rxch' = Tail(rxch)
    <3>1. ~Is(Head(rxch), o, T)
      BY <2>3 DEF Is
    <3> QED
      BY <1>0, <2>3, <3>1, TailItem
  <2> QED
    BY <2>1, <2>2, <2>3
<1> QED
    BY <1>1 DEF Same

\* The stream of a routine in a call, and the call.
LEMMA Holder ==
    ASSUME TypeInv, Places, NEW c \in Caller, Holds(c)
    PROVE  /\ cs[c].o \in Opaque /\ cs[c].m \in Call /\ cs[c].m # Nil
           /\ cs[c].m.c = c
           /\ \A d \in Caller : d # c => /\ Holds(d) => cs[d].o # cs[c].o
                                         /\ cs[d].pc # "idle" =>
                                                cs[d].m # cs[c].m
           /\ Stage(c) /\ ~Pooled(cs[c].o)
<1>1. cs[c].o \in Opaque /\ cs[c].m \in Call /\ cs[c].m.c = c
    BY Types DEF Holds, OwnCall
<1>2. cs[c].m # Nil
    BY <1>1 DEF Call, Nil
<1>3. \A d \in Caller : d # c /\ cs[d].pc # "idle" => cs[d].m # cs[c].m
    BY <1>1, Types DEF OwnCall
<1> QED
    BY <1>1, <1>2, <1>3 DEF Places

\* An item of one type is an item.
LEMMA HasOne ==
    ASSUME NEW s, NEW o
    PROVE  /\ Has(s, o, {"response"}) => Has(s, o, R)
           /\ Has(s, o, {"finish"}) => Has(s, o, R)
BY DEF Has, Is, R

-----------------------------------------------------------------------------

\* A call begins: a free stream gets an owner.
LEMMA getlocalstreamPlaces ==
    ASSUME TypeInv, Numbered, Places, NEW c \in Caller, NEW k \in KindOf[c],
           getlocalstream(c, k)
    PROVE  Places'
<1>0. pStrms # <<>> /\ pStrms \in Seq(Opaque)
    BY Types DEF getlocalstream
<1>1. PICK x \in Opaque : x = Head(pStrms)
    BY <1>0
<1>2. PICK m \in Call : m = [c |-> c, n |-> cs[c].n + 1, k |-> k]
    BY getlocalstreamType
<1>3. /\ cs'[c].pc = (IF k = "Post" THEN "tx" ELSE "tell")
      /\ cs'[c].o = x /\ cs'[c].m = m
      /\ \A d \in Caller : d # c => cs'[d] = cs[d]
  <2>1. /\ cs'[c] = [pc |-> IF k = "Post" THEN "tx" ELSE "tell",
                     o |-> x, m |-> m, n |-> m.n]
        /\ \A d \in Caller : d # c => cs'[d] = cs[d]
    BY <1>1, <1>2, getlocalstreamType
  <2> QED
    BY <2>1
<1>4. /\ cs[c].pc = "idle" /\ pStrms' = Tail(pStrms)
      /\ rxcallb' = [rxcallb EXCEPT ![x] = IF k = "Post" THEN Nil ELSE m]
      /\ UNCHANGED <<live, rxch, remote, done, failed>>
    BY <1>1, <1>2 DEF getlocalstream, rx, peer, history
<1>5. /\ \A o : Pooled(o)' <=> o # x /\ Pooled(o)
      /\ \A i, j \in 1..Len(pStrms') : pStrms'[i] = pStrms'[j] => i = j
      /\ Pooled(x)
  <2>1. \A i, j \in 1..Len(pStrms) : pStrms[i] = pStrms[j] => i = j
    BY DEF Places
  <2>2. /\ \A o : (\E i \in 1..Len(Tail(pStrms)) : Tail(pStrms)[i] = o)
                    <=> o # x /\ \E i \in 1..Len(pStrms) : pStrms[i] = o
        /\ \A i, j \in 1..Len(Tail(pStrms)) :
               Tail(pStrms)[i] = Tail(pStrms)[j] => i = j
        /\ \E i \in 1..Len(pStrms) : pStrms[i] = x
    BY <1>0, <1>1, <2>1, TailPool
  <2> QED
    BY <1>4, <2>2, Zenon DEF Pooled
<1>6. \A d \in Caller : Holds(d) => cs[d].o # x
  <2> TAKE d \in Caller
  <2>1. Holds(d) => ~Pooled(cs[d].o)
    BY DEF Places
  <2> QED
    BY <1>5, <2>1 DEF Pooled
<1>7. x \notin live /\ ~Has(rxch, x, U) /\ Quiet(x)
    BY <1>5, <1>6 DEF Places, Free, Returning, Lost
<1>8. m \notin done
  <2>1. m.c = c /\ m.n = cs[c].n + 1 /\ cs[c].n \in Nat
    BY <1>2, Types DEF CState
  <2>2. m \in done => m.n =< cs[m.c].n
    BY DEF Numbered
  <2> QED
    BY <2>1, <2>2
<1>9. ASSUME NEW o \in Opaque, o # x PROVE Same(o)
  <2>1. rxcallb'[o] = rxcallb[o]
    BY <1>4, <1>9, Types
  <2>2. Pooled(o)' <=> Pooled(o)
    BY <1>5, <1>9
  <2> QED
    BY <1>4, <2>1, <2>2, SameBecause
<1>10. Stage(c)'
  <2>1. rxcallb'[x] = (IF k = "Post" THEN Nil ELSE m) /\ m.k = k
    BY <1>2, <1>4, Types
  <2>2. Quiet(x)' /\ ~Has(rxch', x, U) /\ x \notin live' /\ m \notin done'
    BY <1>4, <1>7, <1>8 DEF Quiet
  <2> QED
    BY <1>3, <2>1, <2>2 DEF Stage, Quiet
<1>11. ~Holds(c) /\ Holds(c)' /\ ~Pooled(x)'
    BY <1>3, <1>4, <1>5 DEF Holds
<1>12. {c} \in SUBSET Caller
    OBVIOUS
<1> QED
    BY <1>3, <1>4, <1>5, <1>6, <1>9, <1>10, <1>11, <1>12, PlacesStep

\* syncRx() is told of the stream.
LEMMA TellPlaces ==
    ASSUME TypeInv, Open, Places, NEW c \in Caller, Tell(c)
    PROVE  Places'
<1>0. cs[c].pc = "tell" /\ Holds(c)
    BY DEF Tell, Holds
<1>1. PICK x \in Opaque : x = cs[c].o
    BY <1>0, Holder
<1>2. PICK m \in Call : m = cs[c].m
    BY <1>0, Holder
<1>3. /\ \A d \in Caller : d # c /\ Holds(d) => cs[d].o # x
      /\ Stage(c) /\ ~Pooled(x)
    BY <1>0, <1>1, Holder DEF Pooled
<1>4. /\ cs'[c].pc = "tx" /\ cs'[c].o = x /\ cs'[c].m = m
      /\ \A d \in Caller : d # c => cs'[d] = cs[d]
    BY <1>0, <1>1, <1>2, GotoType DEF Tell, PC
<1>5. PICK k \in Item : k.o = x /\ k.t = "update" /\ rxch' = Append(rxch, k)
  <2>1. Updated(x) \in Item /\ Updated(x).o = x /\ Updated(x).t = "update"
    BY DEF Updated, Item
  <2>2. rxch' = Append(rxch, Updated(x))
    BY <1>1 DEF Tell, putch, Open
  <2> QED
    BY <2>1, <2>2
<1>6. UNCHANGED <<pStrms, rxcallb, live, remote, done, failed>>
    BY DEF Tell, tables, peer
<1>7. ASSUME NEW o \in Opaque, o # x PROVE Same(o)
  <2>1. Pooled(o)' <=> Pooled(o)
    BY <1>6 DEF Pooled
  <2> QED
    BY <1>5, <1>6, <1>7, <2>1, SameBecause
<1>8. /\ m.k # "Post" /\ rxcallb[x] = m /\ m \notin done
      /\ x \notin live /\ ~Has(rxch, x, U) /\ Quiet(x)
    BY <1>0, <1>1, <1>2, <1>3 DEF Stage, Quiet
<1>9. /\ Has(rxch', x, U) /\ Once(rxch', x, U) /\ ~Has(rxch', x, R)
  <2>1. Is(k, x, U) /\ ~Is(k, x, R)
    BY <1>5 DEF Is, U, R
  <2> QED
    BY <1>5, <1>8, <2>1, AppendItem, Types DEF Quiet
<1>10. Stage(c)'
  <2>1. Known(x)' /\ Quiet(x)'
    BY <1>6, <1>8, <1>9 DEF Known, Quiet
  <2> QED
    BY <1>4, <1>6, <1>8, <2>1 DEF Stage, Known, Quiet
<1>11. Holds(c)' /\ ~Pooled(x)'
    BY <1>3, <1>4, <1>6 DEF Holds, Pooled
<1>12. \A i, j \in 1..Len(pStrms') : pStrms'[i] = pStrms'[j] => i = j
    BY <1>6 DEF Places
<1>13. {c} \in SUBSET Caller
    OBVIOUS
<1> QED
    BY <1>1, <1>3, <1>4, <1>6, <1>7, <1>10, <1>11, <1>12, <1>13, PlacesStep

\* A routine that goes on with its stream x and its call m.
LEMMA GotoPlaces ==
    ASSUME TypeInv, Places, NEW c \in Caller, Holds(c), NEW x \in Opaque,
           x = cs[c].o, NEW pc \in PC, Goto(c, pc),
           UNCHANGED <<pStrms, rxch, live, done>>,
           \A o \in Opaque : o # x => rxcallb'[o] = rxcallb[o],
           \A o \in Opaque : o \in failed => o \in failed',
           \A a \in remote' : a.o # x => a \in remote,
           Stage(c)', Holds(c)'
    PROVE  Places'
<1>0. cs[c].pc # "idle"
    BY DEF Holds
<1>1. /\ cs'[c].o = x /\ \A d \in Caller : d # c => cs'[d] = cs[d]
    BY <1>0, GotoType
<1>2. /\ \A d \in Caller : d # c /\ Holds(d) => cs[d].o # x
      /\ ~Pooled(x)
    BY Holder DEF Pooled
<1>3. ASSUME NEW o \in Opaque, o # x PROVE Same(o)
  <2>1. Pooled(o)' <=> Pooled(o)
    BY DEF Pooled
  <2>2. \A a \in remote' : a.o = o => a \in remote
    BY <1>3
  <2> QED
    BY <1>3, <2>1, <2>2, SameBecause
<1>4. ~Pooled(x)'
    BY <1>2 DEF Pooled
<1>5. \A i, j \in 1..Len(pStrms') : pStrms'[i] = pStrms'[j] => i = j
    BY DEF Places
<1> DEFINE C == {c}
<1>6. /\ C \in SUBSET Caller /\ \A b, d \in C : b = d
      /\ \A d \in Caller \ C :
             /\ cs'[d] = cs[d]
             /\ cs[d].pc # "idle" => (cs[d].m \in done' <=> cs[d].m \in done)
             /\ Holds(d) => cs[d].o # x
    BY <1>1, <1>2
<1>7. /\ \A d \in C : /\ Holds(d) => cs[d].o = x
                      /\ Holds(d)' => /\ cs'[d].o = x /\ Stage(d)'
                                      /\ ~Pooled(x)'
      /\ \E d \in C : Holds(d)'
    BY <1>1, <1>4
<1> HIDE DEF C
<1> QED
    BY <1>3, <1>5, <1>6, <1>7, PlacesStep

\* The packet is written, or not.
LEMMA TxPlaces ==
    ASSUME TypeInv, Open, Places, NEW c \in Caller,
           TxSucceeds(c) \/ TxFails(c)
    PROVE  Places'
<1>0. cs[c].pc = "tx" /\ cs[c].m.k # "Post" /\ Holds(c)
    BY DEF TxSucceeds, TxFails, Holds
<1>1. PICK x \in Opaque : x = cs[c].o
    BY <1>0, Holder
<1>2. PICK m \in Call : m = cs[c].m /\ m # Nil
    BY <1>0, Holder
<1>3. /\ rxcallb[x] = m /\ m \notin done /\ Known(x) /\ Quiet(x)
  <2>1. Stage(c)
    BY <1>0 DEF Places
  <2> QED
    BY <1>0, <1>1, <1>2, <2>1 DEF Stage, Known, Quiet
<1>4. UNCHANGED <<pStrms, rxcallb, rxch, live, done>>
    BY DEF TxSucceeds, TxFails, tables, rx
<1>5. CASE TxSucceeds(c)
  <2> DEFINE pc == IF m.k = "Stream" THEN "own" ELSE "wait"
  <2>1. Goto(c, pc) /\ pc \in PC /\ UNCHANGED failed
    BY <1>2, <1>5 DEF TxSucceeds, PC, history
  <2>2. /\ cs'[c].pc = pc /\ cs'[c].o = x /\ cs'[c].m = m
    BY <1>0, <1>1, <1>2, <2>1, GotoType
  <2>3. remote' = remote \cup {[m |-> m, o |-> x]}
    BY <1>1, <1>2, <1>5 DEF TxSucceeds, Written
  <2>4. \A a \in remote' : /\ a.o = x => a.m = m
                           /\ a.o # x => a \in remote
    BY <1>3, <2>3 DEF Quiet
  <2>5. Known(x)' /\ Owed(x, m)'
    <3>1. Known(x)'
      BY <1>3, <1>4 DEF Known
    <3>2. ~Has(rxch, x, R) /\ ~Has(rxch, x, {"response"})
          /\ ~Has(rxch, x, {"finish"})
      BY <1>3, HasOne DEF Quiet
    <3>3. Once(rxch, x, R)
      BY <3>2, AppendItem DEF Has, Once
    <3> QED
      BY <1>4, <2>4, <3>1, <3>2, <3>3 DEF Owed
  <2>6. Stage(c)'
    <3>1. pc \in {"wait", "own"} /\ (m.k = "Stream" <=> pc = "own")
      OBVIOUS
    <3>2. rxcallb'[x] = m /\ m \notin done'
      BY <1>3, <1>4
    <3> HIDE DEF pc
    <3> QED
      BY <2>2, <2>5, <3>1, <3>2 DEF Stage, Known, Owed
  <2>7. Holds(c)'
    BY <1>3, <1>4, <2>2 DEF Holds
  <2> HIDE DEF pc
  <2> QED
    BY <1>0, <1>1, <1>4, <2>1, <2>4, <2>6, <2>7, GotoPlaces
<1>6. CASE TxFails(c)
  <2>1. /\ Goto(c, "untell") /\ "untell" \in PC /\ failed' = failed \cup {x}
        /\ UNCHANGED remote
    BY <1>1, <1>6 DEF TxFails, PC, Open
  <2>2. /\ cs'[c].pc = "untell" /\ cs'[c].o = x /\ cs'[c].m = m
    BY <1>0, <1>1, <1>2, <2>1, GotoType
  <2>3. Quiet(x)' /\ (x \in live' \/ Has(rxch', x, U)) /\ x \in failed'
    BY <1>3, <1>4, <2>1 DEF Known, Quiet
  <2>4. Stage(c)'
    BY <1>2, <1>3, <1>4, <2>2, <2>3 DEF Stage, Quiet
  <2>5. Holds(c)'
    BY <2>2 DEF Holds
  <2> QED
    BY <1>0, <1>1, <1>4, <2>1, <2>4, <2>5, GotoPlaces
<1> QED
    BY <1>5, <1>6

\* Request() has its response.
LEMMA RequestDonePlaces ==
    ASSUME TypeInv, Places, NEW c \in Caller, RequestDone(c)
    PROVE  Places'
<1>0. cs[c].pc = "wait" /\ cs[c].m \in done /\ Holds(c)
    BY DEF RequestDone, Holds
<1>1. PICK x \in Opaque : x = cs[c].o
    BY <1>0, Holder
<1>2. x \in live /\ Quiet(x) /\ ~Has(rxch, x, U)
  <2>1. Stage(c)
    BY <1>0 DEF Places
  <2> QED
    BY <1>0, <1>1, <2>1 DEF Stage, Known, Quiet
<1>3. /\ UNCHANGED <<pStrms, rxch, live, done, remote, failed>>
      /\ rxcallb' = [rxcallb EXCEPT ![x] = Nil]
      /\ Goto(c, "untell") /\ "untell" \in PC
    BY <1>1 DEF RequestDone, rx, peer, history, PC
<1>4. cs'[c].pc = "untell" /\ cs'[c].o = x
    BY <1>0, <1>1, <1>3, GotoType
<1>5. /\ rxcallb'[x] = Nil
      /\ \A o \in Opaque : o # x => rxcallb'[o] = rxcallb[o]
    BY <1>3, Types
<1>6. Stage(c)'
  <2>1. Quiet(x)' /\ x \in live' /\ ~Has(rxch', x, U)
    BY <1>2, <1>3 DEF Quiet
  <2> QED
    BY <1>4, <1>5, <2>1 DEF Stage, Quiet
<1>7. Holds(c)'
    BY <1>4 DEF Holds
<1> QED
    BY <1>0, <1>1, <1>3, <1>5, <1>6, <1>7, GotoPlaces

\* A routine gives its stream up and returns.
LEMMA ReturnPlaces ==
    ASSUME TypeInv, Places, NEW c \in Caller, Return(c), NEW x,
           cs[c].pc # "idle", Holds(c) => cs[c].o = x,
           \A d \in Caller : d # c /\ Holds(d) => cs[d].o # x,
           \A o \in Opaque : o # x => Same(o),
           \A i, j \in 1..Len(pStrms') : pStrms'[i] = pStrms'[j] => i = j,
           x \in Opaque => Free(x)' \/ Returning(x)' \/ Lost(x)'
    PROVE  Places'
<1>1. /\ cs'[c].pc = "idle" /\ \A d \in Caller : d # c => cs'[d] = cs[d]
      /\ done' = done \ {cs[c].m}
    BY ReturnType
<1>2. \A d \in Caller : d # c /\ cs[d].pc # "idle" =>
          (cs[d].m \in done' <=> cs[d].m \in done)
  <2>1. \A d \in Caller : d # c /\ cs[d].pc # "idle" => cs[d].m # cs[c].m
    BY Types DEF OwnCall
  <2> QED
    BY <1>1, <2>1
<1>3. ~Holds(c)'
    BY <1>1 DEF Holds
<1> DEFINE C == {c}
<1>4. /\ C \in SUBSET Caller /\ \A b, d \in C : b = d
      /\ \A d \in Caller \ C :
             /\ cs'[d] = cs[d]
             /\ cs[d].pc # "idle" => (cs[d].m \in done' <=> cs[d].m \in done)
             /\ Holds(d) => cs[d].o # x
      /\ \A d \in C : (Holds(d) => cs[d].o = x) /\ ~Holds(d)'
    BY <1>1, <1>2, <1>3
<1> HIDE DEF C
<1> QED
    BY <1>4, PlacesStep

\* The pool when stream x is put into it.
LEMMA PutPool ==
    ASSUME TypeInv, Places, NEW x \in Opaque, ~Pooled(x),
           pStrms' = Append(pStrms, x)
    PROVE  /\ \A o : Pooled(o)' <=> o = x \/ Pooled(o)
           /\ \A i, j \in 1..Len(pStrms') : pStrms'[i] = pStrms'[j] => i = j
<1>1. /\ \A i, j \in 1..Len(pStrms) : pStrms[i] = pStrms[j] => i = j
      /\ \A i \in 1..Len(pStrms) : pStrms[i] # x
      /\ pStrms \in Seq(Opaque)
    BY Types DEF Places, Pooled
<1> DEFINE t == Append(pStrms, x)
<1>2. /\ \A o : (\E i \in 1..Len(t) : t[i] = o)
                  <=> o = x \/ \E i \in 1..Len(pStrms) : pStrms[i] = o
      /\ \A i, j \in 1..Len(t) : t[i] = t[j] => i = j
    BY <1>1, AppendPool
<1> QED
    BY <1>2, Zenon DEF Pooled

\* Post() gives its stream back to the pool.
LEMMA PostPlaces ==
    ASSUME TypeInv, Places, NEW c \in Caller, Post(c)
    PROVE  Places'
<1>0. cs[c].pc = "tx" /\ cs[c].m.k = "Post" /\ Holds(c)
    BY DEF Post, Holds
<1>1. PICK x \in Opaque : x = cs[c].o
    BY <1>0, Holder
<1>2. /\ \A d \in Caller : d # c /\ Holds(d) => cs[d].o # x
      /\ Stage(c) /\ ~Pooled(x)
    BY <1>0, <1>1, Holder DEF Pooled
<1>3. x \notin live /\ ~Has(rxch, x, U) /\ Quiet(x)
    BY <1>0, <1>1, <1>2 DEF Stage, Quiet
<1>4. /\ UNCHANGED <<rxcallb, rxch, live, remote, failed>>
      /\ pStrms' = Append(pStrms, x) /\ pStrms \in Seq(Opaque) /\ Return(c)
    BY <1>1, Types DEF Post, rx, peer
<1>5. /\ \A o : Pooled(o)' <=> o = x \/ Pooled(o)
      /\ \A i, j \in 1..Len(pStrms') : pStrms'[i] = pStrms'[j] => i = j
    BY <1>2, <1>4, PutPool
<1>6. ASSUME NEW o \in Opaque, o # x PROVE Same(o)
  <2>1. Pooled(o)' <=> Pooled(o)
    BY <1>5, <1>6
  <2> QED
    BY <1>4, <2>1, SameBecause
<1>7. Free(x)'
  <2>1. Pooled(x)' /\ x \notin live' /\ ~Has(rxch', x, U) /\ Quiet(x)'
    BY <1>3, <1>4, <1>5 DEF Quiet
  <2> QED
    BY <2>1 DEF Free
<1> QED
    BY <1>0, <1>1, <1>2, <1>4, <1>5, <1>6, <1>7, ReturnPlaces

\* putstream() tells syncRx(), which will find rxcallb cleared, or not.
LEMMA putstreamPlaces ==
    ASSUME TypeInv, Open, Places, NEW c \in Caller, putstream(c)
    PROVE  Places'
<1>0. cs[c].pc = "untell" /\ Holds(c)
    BY DEF putstream, Holds
<1>1. PICK x \in Opaque : x = cs[c].o
    BY <1>0, Holder
<1>2. /\ \A d \in Caller : d # c /\ Holds(d) => cs[d].o # x
      /\ Stage(c) /\ ~Pooled(x)
    BY <1>0, <1>1, Holder DEF Pooled
<1>3. /\ Quiet(x)
      /\ \/ rxcallb[x] = Nil /\ x \in live /\ ~Has(rxch, x, U)
         \/ rxcallb[x] # Nil /\ x \in failed
    BY <1>0, <1>1, <1>2 DEF Stage, Quiet
<1>4. UNCHANGED <<pStrms, rxcallb, live, remote, failed>> /\ Return(c)
    BY DEF putstream, tables, peer
<1>5. PICK k \in Item : k.o = x /\ k.t = "update" /\ rxch' = Append(rxch, k)
  <2>1. Updated(x) \in Item /\ Updated(x).o = x /\ Updated(x).t = "update"
    BY DEF Updated, Item
  <2>2. rxch' = Append(rxch, Updated(x))
    BY <1>1 DEF putstream, putch, Open
  <2> QED
    BY <2>1, <2>2
<1>6. ASSUME NEW o \in Opaque, o # x PROVE Same(o)
  <2>1. Pooled(o)' <=> Pooled(o)
    BY <1>4 DEF Pooled
  <2> QED
    BY <1>4, <1>5, <1>6, <2>1, SameBecause
<1>7. /\ Has(rxch', x, U) /\ ~Has(rxch', x, R)
      /\ ~Has(rxch, x, U) => Once(rxch', x, U)
  <2>1. Is(k, x, U) /\ ~Is(k, x, R)
    BY <1>5 DEF Is, U, R
  <2> QED
    BY <1>3, <1>5, <2>1, AppendItem, Types DEF Quiet
<1>8. Quiet(x)' /\ ~Pooled(x)'
    BY <1>2, <1>3, <1>4, <1>7 DEF Quiet, Pooled
<1>9. Returning(x)' \/ Lost(x)'
    BY <1>3, <1>4, <1>7, <1>8 DEF Returning, Lost
<1>10. \A i, j \in 1..Len(pStrms') : pStrms'[i] = pStrms'[j] => i = j
    BY <1>4 DEF Places
<1> QED
    BY <1>0, <1>1, <1>2, <1>4, <1>6, <1>9, <1>10, ReturnPlaces

\* The owner of a stream notices its end: the stream is free by then.
LEMMA StreamEndsPlaces ==
    ASSUME TypeInv, Places, NEW c \in Caller, StreamEnds(c)
    PROVE  Places'
<1>1. cs[c].pc = "own" /\ ~Holds(c) /\ cs[c].pc # "idle"
    BY DEF StreamEnds, Holds
<1>2. UNCHANGED <<pStrms, rxcallb, live, rxch, remote, failed>> /\ Return(c)
    BY DEF StreamEnds, tables, rx, peer
<1>3. 0 \notin Opaque
    BY DEF Opaque
<1>4. \A d \in Caller : Holds(d) => cs[d].o # 0
    BY <1>3, Holder
<1>5. ASSUME NEW o \in Opaque PROVE Same(o)
  <2>1. Pooled(o)' <=> Pooled(o)
    BY <1>2 DEF Pooled
  <2> QED
    BY <1>2, <2>1, SameBecause
<1>6. \A i, j \in 1..Len(pStrms') : pStrms'[i] = pStrms'[j] => i = j
    BY <1>2 DEF Places
<1> QED
    BY <1>1, <1>2, <1>3, <1>4, <1>5, <1>6, ReturnPlaces

-----------------------------------------------------------------------------

\* A step of syncRx() or doRx() on stream x.
LEMMA ItemPlaces ==
    ASSUME TypeInv, Places, UNCHANGED cs, NEW x \in Opaque,
           \A o \in Opaque : o # x => Same(o),
           \A i, j \in 1..Len(pStrms') : pStrms'[i] = pStrms'[j] => i = j,
           \A d \in Caller : cs[d].pc # "idle" /\ ~(Holds(d) /\ cs[d].o = x) =>
               (cs[d].m \in done' <=> cs[d].m \in done),
           \A c \in Caller : Holds(c) /\ cs[c].o = x /\ Holds(c)' =>
               Stage(c)' /\ ~Pooled(x)',
           \/ \E c \in Caller : Holds(c) /\ cs[c].o = x /\ Holds(c)'
           \/ Free(x)' \/ Returning(x)' \/ Lost(x)'
    PROVE  Places'
<1> DEFINE C == {c \in Caller : Holds(c) /\ cs[c].o = x}
<1>1. C \in SUBSET Caller
    OBVIOUS
<1>2. \A b, d \in C : b = d
    BY DEF Places
<1>3. \A d \in Caller \ C :
          /\ cs'[d] = cs[d]
          /\ cs[d].pc # "idle" => (cs[d].m \in done' <=> cs[d].m \in done)
          /\ Holds(d) => cs[d].o # x
    OBVIOUS
<1>4. \A d \in C : /\ Holds(d) => cs[d].o = x
                   /\ Holds(d)' => cs'[d].o = x /\ Stage(d)' /\ ~Pooled(x)'
    OBVIOUS
<1>5. (\E c \in C : Holds(c)') \/ Free(x)' \/ Returning(x)' \/ Lost(x)'
    OBVIOUS
<1> HIDE DEF C
<1> QED
    BY <1>1, <1>2, <1>3, <1>4, <1>5, PlacesStep

\* streamupdate() takes a stream into livestreams or to the pool.
LEMMA streamupdatePlaces ==
    ASSUME TypeInv, Places, streamupdate
    PROVE  Places'
<1>0. /\ rxch # <<>> /\ rxch' = Tail(rxch) /\ rxch \in Seq(Item)
      /\ Head(rxch) \in Item /\ Head(rxch).t = "update"
    BY TakesType, Types DEF streamupdate
<1>1. PICK k \in Item : k = Head(rxch)
    BY <1>0
<1>2. PICK x \in Opaque : x = k.o
    BY DEF Item
<1>3. /\ live' = IF rxcallb[x] # Nil THEN live \cup {x} ELSE live \ {x}
      /\ pStrms' = IF rxcallb[x] = Nil /\ x \in live THEN Append(pStrms, x)
                                                    ELSE pStrms
      /\ UNCHANGED <<rxcallb, remote, cs, done, failed>>
    BY <1>1, <1>2 DEF streamupdate, peer, history
<1>4. /\ Has(rxch, x, U) /\ (Has(rxch', x, R) <=> Has(rxch, x, R))
      /\ Once(rxch, x, R) => Once(rxch', x, R)
      /\ Once(rxch, x, U) => ~Has(rxch', x, U) /\ Once(rxch', x, U)
  <2>1. Is(k, x, U) /\ ~Is(k, x, R)
    BY <1>0, <1>1, <1>2 DEF Is, U, R
  <2> QED
    BY <1>0, <1>1, <2>1, TailItem
<1>5. \A T \in {{"response"}, {"finish"}} :
          Has(rxch', x, T) => Has(rxch, x, T)
    BY <1>0, TailItem
<1>6. ~Free(x) /\ \A a \in remote : a.o = x => a \in remote'
    BY <1>3, <1>4 DEF Free
<1>7. Quiet(x) => Quiet(x)'
    BY <1>3, <1>4 DEF Quiet
<1>8. ~Pooled(x)
  <2>1. CASE \E c \in Caller : Holds(c) /\ cs[c].o = x
    BY <2>1 DEF Places, Pooled
  <2>2. CASE Returning(x) \/ Lost(x)
    BY <2>2 DEF Returning, Lost
  <2> QED
    BY <1>6, <2>1, <2>2 DEF Places
<1>9. /\ \A o : o # x => (Pooled(o)' <=> Pooled(o))
      /\ \A i, j \in 1..Len(pStrms') : pStrms'[i] = pStrms'[j] => i = j
      /\ Pooled(x)' <=> rxcallb[x] = Nil /\ x \in live
  <2>1. CASE rxcallb[x] = Nil /\ x \in live
    BY <1>3, <1>8, <2>1, PutPool
  <2>2. CASE ~(rxcallb[x] = Nil /\ x \in live)
    BY <1>3, <1>8, <2>2 DEF Places, Pooled
  <2> QED
    BY <2>1, <2>2
<1>10. ASSUME NEW o \in Opaque, o # x PROVE Same(o)
  <2>1. Pooled(o)' <=> Pooled(o)
    BY <1>9, <1>10
  <2>2. o \in live' <=> o \in live
    BY <1>3, <1>10
  <2> QED
    BY <1>0, <1>1, <1>2, <1>3, <1>10, <2>1, <2>2, SameBecause
<1>11. \A d \in Caller : Holds(d)' <=> Holds(d)
    BY <1>3 DEF Holds
<1>12. ASSUME NEW c \in Caller, Holds(c), cs[c].o = x
       PROVE  Stage(c)' /\ ~Pooled(x)'
  <2>1. PICK m \in Call : m = cs[c].m /\ m # Nil
    BY <1>12, Holder
  <2>2. Stage(c) /\ cs'[c] = cs[c]
    BY <1>3, <1>12 DEF Places
  <2>3. CASE cs[c].pc = "untell"
    <3>1. Quiet(x) /\ rxcallb[x] # Nil /\ x \in failed
      BY <1>4, <1>12, <2>2, <2>3 DEF Stage, Quiet
    <3>2. Quiet(x)' /\ x \in live' /\ x \in failed' /\ rxcallb'[x] # Nil
      BY <1>3, <1>7, <3>1
    <3> QED
      BY <1>9, <1>12, <2>2, <2>3, <3>1, <3>2 DEF Stage, Quiet
  <2>4. CASE cs[c].pc # "untell"
    <3>1. /\ rxcallb[x] = m /\ Known(x)
          /\ \/ cs[c].pc = "tx" /\ m.k # "Post" /\ m \notin done /\ Quiet(x)
             \/ /\ cs[c].pc \in {"wait", "own"} /\ Owed(x, m)
                /\ m.k = "Stream" <=> cs[c].pc = "own"
                /\ m \in done => x \in live /\ Quiet(x)
      BY <1>4, <1>12, <2>1, <2>2, <2>4 DEF Stage, Known, Quiet, Owed
    <3>2. Known(x)' /\ x \in live' /\ rxcallb'[x] = m
      BY <1>3, <1>4, <2>1, <3>1 DEF Known
    <3>3. Owed(x, m) => Owed(x, m)'
      BY <1>3, <1>4, <1>5 DEF Owed
    <3>4. ~Pooled(x)'
      BY <1>9, <2>1, <3>1
    <3>5. cs'[c].o = x /\ cs'[c].m = m /\ cs'[c].pc = cs[c].pc /\ done' = done
      BY <1>3, <1>12, <2>1
    <3> QED
      BY <1>7, <3>1, <3>2, <3>3, <3>4, <3>5 DEF Stage, Known, Quiet, Owed
  <2> QED
    BY <2>3, <2>4
<1>13. CASE \E c \in Caller : Holds(c) /\ cs[c].o = x
    BY <1>3, <1>9, <1>10, <1>11, <1>12, <1>13, ItemPlaces
<1>14. CASE ~ \E c \in Caller : Holds(c) /\ cs[c].o = x
  <2>1. Returning(x) \/ Lost(x)
    BY <1>6, <1>14 DEF Places
  <2>2. Returning(x) => Free(x)'
    BY <1>3, <1>4, <1>7, <1>9 DEF Returning, Free
  <2>3. Lost(x) => Lost(x)'
    BY <1>3, <1>7, <1>9 DEF Lost
  <2> QED
    BY <1>3, <1>9, <1>10, <1>11, <1>14, <2>1, <2>2, <2>3, ItemPlaces
<1> QED
    BY <1>13, <1>14

\* handlepkt() passes an answer to the routine that it is for; a finish gives
\* the stream back to the pool.
LEMMA handlepktPlaces ==
    ASSUME TypeInv, Numbered, Places, handlepkt, syncrx' = "loop"
    PROVE  Places'
<1>0. /\ rxch # <<>> /\ rxch' = Tail(rxch) /\ rxch \in Seq(Item)
      /\ Head(rxch) \in Item /\ Head(rxch).t # "update"
    BY TakesType, Types DEF handlepkt
<1>1. PICK k \in Item : k = Head(rxch)
    BY <1>0
<1>2. PICK x \in Opaque : x = k.o
    BY DEF Item
<1>3. k.t \in {"response", "finish"}
    BY <1>0, <1>1 DEF Item
<1>4. /\ done' = IF x \in live /\ rxcallb[x] # Nil THEN done \cup {rxcallb[x]}
                                                 ELSE done
      /\ live' = IF k.t = "finish" /\ x \in live THEN live \ {x} ELSE live
      /\ pStrms' = IF k.t = "finish" /\ x \in live THEN Append(pStrms, x)
                                                   ELSE pStrms
      /\ UNCHANGED <<rxcallb, remote, cs, failed>>
  <2> DEFINE m == IF k.o \in live THEN rxcallb[k.o] ELSE Nil
             panic == k.t = "response" /\ m # Nil /\ Panics(m, k.good)
             ends == k.t = "finish" /\ k.o \in live
  <2>1. /\ done' = IF panic \/ m = Nil THEN done ELSE done \cup {m}
        /\ syncrx' = IF panic THEN "exit" ELSE "loop"
        /\ live' = IF ends THEN live \ {k.o} ELSE live
        /\ pStrms' = IF ends THEN Append(pStrms, k.o) ELSE pStrms
        /\ UNCHANGED <<rxcallb, remote, cs, failed>>
    BY <1>1 DEF handlepkt, peer, history
  <2>2. ~panic
    BY <2>1
  <2> HIDE DEF panic
  <2> QED
    BY <1>2, <2>1, <2>2
<1>5. /\ Has(rxch, x, R) /\ Has(rxch, x, {k.t})
      /\ Has(rxch', x, U) <=> Has(rxch, x, U)
      /\ Once(rxch, x, U) => Once(rxch', x, U)
      /\ Once(rxch, x, R) => ~Has(rxch', x, R) /\ Once(rxch', x, R)
  <2>1. Is(k, x, R) /\ Is(k, x, {k.t}) /\ ~Is(k, x, U)
    BY <1>2, <1>3 DEF Is, U, R
  <2> QED
    BY <1>0, <1>1, <2>1, TailItem
<1>6. ~Quiet(x)
    BY <1>5 DEF Quiet
<1>7. PICK c \in Caller : Holds(c) /\ cs[c].o = x
    BY <1>6 DEF Places, Free, Returning, Lost
<1>8. PICK m \in Call : m = cs[c].m /\ m # Nil
    BY <1>7, Holder
<1>9. /\ cs[c].pc \in {"wait", "own"}
      /\ m.k = "Stream" <=> cs[c].pc = "own"
      /\ rxcallb[x] = m /\ Known(x) /\ Owed(x, m) /\ m \notin done
  <2>1. Stage(c)
    BY <1>7 DEF Places
  <2> QED
    BY <1>6, <1>7, <1>8, <2>1 DEF Stage, Known, Owed, Quiet
<1>10. /\ \A a \in remote' : a.o # x
       /\ ~Has(rxch', x, R) /\ Once(rxch', x, R)
       /\ k.t = "finish" <=> cs[c].pc = "own"
    BY <1>3, <1>4, <1>5, <1>9 DEF Owed
<1>11. Quiet(x)' /\ Owed(x, m)'
    BY <1>10, HasOne DEF Quiet, Owed
<1>12. \A d \in Caller : cs[d].pc # "idle" /\ ~(Holds(d) /\ cs[d].o = x) =>
           (cs[d].m \in done' <=> cs[d].m \in done)
  <2> TAKE d \in Caller
  <2> HAVE cs[d].pc # "idle" /\ ~(Holds(d) /\ cs[d].o = x)
  <2>1. CASE rxcallb[x] = cs[d].m
    <3>1. cs[d].o = x
      BY <2>1 DEF Numbered
    <3>2. cs[d].m \in done
      BY <3>1 DEF Holds
    <3> QED
      BY <1>4, <3>2
  <2>2. CASE rxcallb[x] # cs[d].m
    BY <1>4, <2>2
  <2> QED
    BY <2>1, <2>2
<1>13. ~Pooled(x) /\ \A d \in Caller : Holds(d) /\ cs[d].o = x => d = c
    BY <1>7 DEF Places, Pooled
<1>14. \A o \in Opaque : /\ o # x => (o \in live' <=> o \in live)
                         /\ o \in failed => o \in failed'
    BY <1>4
<1>15. ASSUME NEW o \in Opaque, o # x, Pooled(o)' <=> Pooled(o)
       PROVE  Same(o)
    BY <1>0, <1>1, <1>2, <1>4, <1>14, <1>15, SameBecause
<1>16. CASE k.t = "finish" /\ x \in live
  <2>1. /\ \A o : Pooled(o)' <=> o = x \/ Pooled(o)
        /\ \A i, j \in 1..Len(pStrms') : pStrms'[i] = pStrms'[j] => i = j
    BY <1>4, <1>13, <1>16, PutPool
  <2>2. Free(x)'
    <3>1. ~Has(rxch', x, U) /\ x \notin live' /\ Pooled(x)'
      BY <1>4, <1>5, <1>9, <1>16, <2>1 DEF Known
    <3> QED
      BY <1>11, <3>1 DEF Free
  <2>3. ~Holds(c)'
    <3>1. cs'[c].pc = "own" /\ cs'[c].m = m /\ m \in done'
      BY <1>4, <1>8, <1>9, <1>10, <1>16
    <3> QED
      BY <3>1 DEF Holds
  <2> QED
    BY <1>4, <1>12, <1>13, <1>15, <2>1, <2>2, <2>3, ItemPlaces
<1>17. CASE ~(k.t = "finish" /\ x \in live)
  <2>1. UNCHANGED <<pStrms, live>>
    BY <1>4, <1>17
  <2>2. /\ \A o : Pooled(o)' <=> Pooled(o)
        /\ \A i, j \in 1..Len(pStrms') : pStrms'[i] = pStrms'[j] => i = j
    BY <2>1 DEF Pooled, Places
  <2>3. Known(x)'
    BY <1>5, <1>9, <2>1 DEF Known
  <2>4. m \in done' => x \in live'
    BY <1>4, <1>9, <2>1
  <2>5. cs'[c].o = x /\ cs'[c].m = m /\ cs'[c].pc = cs[c].pc
        /\ rxcallb'[x] = m
    BY <1>4, <1>7, <1>8, <1>9
  <2>6. Stage(c)' /\ ~Pooled(x)'
    BY <1>9, <1>11, <1>13, <2>2, <2>3, <2>4, <2>5
    DEF Stage, Known, Owed, Quiet
  <2>7. Holds(c)'
    <3>1. cs[c].pc = "own" => m \notin done'
      BY <1>4, <1>9, <1>10, <1>17
    <3> QED
      BY <1>9, <2>5, <3>1 DEF Holds
  <2> QED
    BY <1>4, <1>7, <1>12, <1>13, <1>15, <2>2, <2>6, <2>7, ItemPlaces
<1> QED
    BY <1>16, <1>17

\* doRx() queues the answer that the remote owes.
LEMMA doRxPutsPlaces ==
    ASSUME TypeInv, Places, NEW a \in remote, doRxPuts(a)
    PROVE  Places'
<1>0. a \in [m : Call, o : Opaque] /\ remote \subseteq [m : Call, o : Opaque]
    BY Types
<1>1. PICK x \in Opaque : x = a.o
    BY <1>0
<1>2. PICK k \in Item :
          /\ k.o = x /\ rxch' = Append(rxch, k)
          /\ k.t = IF a.m.k = "Stream" THEN "finish" ELSE "response"
  <2>1. PICK good \in BOOLEAN :
            rxch' = Append(rxch,
                [t |-> IF a.m.k = "Stream" THEN "finish" ELSE "response",
                 o |-> a.o, good |-> good])
    BY DEF doRxPuts
  <2> DEFINE k == [t |-> IF a.m.k = "Stream" THEN "finish" ELSE "response",
                   o |-> a.o, good |-> good]
  <2>2. /\ k \in Item /\ k.o = x
        /\ k.t = IF a.m.k = "Stream" THEN "finish" ELSE "response"
    BY <1>1 DEF Item
  <2> QED
    BY <2>1, <2>2
<1>3. /\ UNCHANGED <<pStrms, rxcallb, live, cs, done, failed>>
      /\ remote' = remote \ {a}
    BY DEF doRxPuts, tables, history
<1>4. ~Quiet(x)
    BY <1>1 DEF Quiet
<1>5. PICK c \in Caller : Holds(c) /\ cs[c].o = x
    BY <1>4 DEF Places, Free, Returning, Lost
<1>6. PICK m \in Call : m = cs[c].m /\ m # Nil
    BY <1>5, Holder
<1>7. /\ cs[c].pc \in {"wait", "own"}
      /\ m.k = "Stream" <=> cs[c].pc = "own"
      /\ rxcallb[x] = m /\ Known(x) /\ Owed(x, m) /\ m \notin done
  <2>1. Stage(c)
    BY <1>5 DEF Places
  <2> QED
    BY <1>4, <1>5, <1>6, <2>1 DEF Stage, Known, Owed, Quiet
<1>8. /\ a.m = m /\ ~Has(rxch, x, R) /\ Once(rxch, x, R)
      /\ \A b \in remote' : b.o # x
  <2>1. a.m = m /\ ~Has(rxch, x, R) /\ Once(rxch, x, R)
    BY <1>1, <1>7 DEF Owed
  <2>2. ASSUME NEW b \in remote, b.o = x PROVE b = a
    BY <1>0, <1>1, <1>7, <2>1, <2>2 DEF Owed
  <2> QED
    BY <1>3, <2>1, <2>2
<1>9. Owed(x, m)'
  <2> DEFINE T == IF m.k = "Stream" THEN {"response"} ELSE {"finish"}
  <2>1. ~Has(rxch, x, T) /\ ~Is(k, x, T)
    BY <1>2, <1>7, <1>8 DEF Owed, Is
  <2>2. Once(rxch', x, R) /\ ~Has(rxch', x, T)
    BY <1>2, <1>8, <2>1, AppendItem, Types
  <2> QED
    BY <1>8, <2>2 DEF Owed
<1>10. Known(x)'
  <2>1. ~Is(k, x, U)
    BY <1>2 DEF Is, U
  <2> QED
    BY <1>2, <1>3, <1>7, <2>1, AppendItem, Types DEF Known
<1>11. /\ cs'[c].o = x /\ cs'[c].m = m /\ cs'[c].pc = cs[c].pc
       /\ rxcallb'[x] = m /\ m \notin done'
    BY <1>3, <1>5, <1>6, <1>7
<1>12. /\ \A o : Pooled(o)' <=> Pooled(o)
       /\ \A i, j \in 1..Len(pStrms') : pStrms'[i] = pStrms'[j] => i = j
    BY <1>3 DEF Pooled, Places
<1>13. ~Pooled(x) /\ \A d \in Caller : Holds(d) /\ cs[d].o = x => d = c
    BY <1>5 DEF Places, Pooled
<1>14. Stage(c)' /\ ~Pooled(x)'
    BY <1>7, <1>9, <1>10, <1>11, <1>12, <1>13 DEF Stage, Known, Owed
<1>15. Holds(c)'
    BY <1>7, <1>11 DEF Holds
<1>16. ASSUME NEW o \in Opaque, o # x PROVE Same(o)
    BY <1>2, <1>3, <1>12, <1>16, SameBecause
<1> QED
    BY <1>3, <1>5, <1>12, <1>13, <1>14, <1>15, <1>16, ItemPlaces

-----------------------------------------------------------------------------
(* The numbers of the calls. *)

\* Nil is the callback of no call.
LEMMA NilNoCall == Nil \notin Call
<1>1. Nil.n = 0 /\ \A m \in Call : m.n \in 1..MaxCall
    BY DEF Nil, Call
<1> QED
    BY <1>1

\* A step that begins no call: callbacks are cleared, or called.
LEMMA NumberedKept ==
    ASSUME TypeInv, Numbered,
           \A c \in Caller :
               /\ cs'[c].n = cs[c].n
               /\ cs'[c].pc # "idle" => /\ cs[c].pc # "idle"
                                        /\ cs'[c].m = cs[c].m
                                        /\ cs'[c].o = cs[c].o,
           \A o \in Opaque : rxcallb'[o] = rxcallb[o] \/ rxcallb'[o] = Nil,
           \A m \in done' :
               \/ m \in done
               \/ \E o \in Opaque : rxcallb[o] # Nil /\ m = rxcallb[o]
    PROVE  Numbered'
<1>1. /\ done \subseteq Call /\ rxcallb \in [Opaque -> Call \cup {Nil}]
      /\ \A c \in Caller : cs[c].pc # "idle" => cs[c].m \in Call
    BY Types DEF OwnCall
<1>2. \A m \in Call : m.c \in Caller
    BY DEF Call
<1>3. ASSUME NEW m \in done' PROVE m.n =< cs'[m.c].n
  <2>1. m \in Call /\ m.n =< cs[m.c].n
    BY <1>1, <1>3 DEF Numbered
  <2> QED
    BY <1>2, <2>1
<1>4. ASSUME NEW o \in Opaque, rxcallb'[o] # Nil
      PROVE  rxcallb'[o].n =< cs'[rxcallb'[o].c].n
  <2>1. PICK m \in Call : m = rxcallb[o] /\ m = rxcallb'[o] /\ m # Nil
    BY <1>1, <1>4
  <2>2. m.n =< cs[m.c].n
    BY <2>1 DEF Numbered
  <2> QED
    BY <1>2, <2>1, <2>2
<1>5. ASSUME NEW c \in Caller, NEW o \in Opaque, cs'[c].pc # "idle",
             rxcallb'[o] = cs'[c].m
      PROVE  o = cs'[c].o
  <2>1. /\ cs[c].pc # "idle" /\ cs'[c].m = cs[c].m /\ cs'[c].o = cs[c].o
        /\ cs[c].m # Nil
    BY <1>1, <1>5, NilNoCall
  <2>2. rxcallb[o] = cs[c].m
    BY <1>5, <2>1
  <2> QED
    BY <2>1, <2>2 DEF Numbered
<1> QED
    BY <1>3, <1>4, <1>5 DEF Numbered

\* A new call has a number of its own.
LEMMA getlocalstreamNumbered ==
    ASSUME TypeInv, Numbered, NEW c \in Caller, NEW k \in KindOf[c],
           getlocalstream(c, k)
    PROVE  Numbered'
<1>0. /\ done \subseteq Call /\ rxcallb \in [Opaque -> Call \cup {Nil}]
      /\ cs \in [Caller -> CState]
      /\ \A d \in Caller : cs[d].pc # "idle" => cs[d].m \in Call
                                                /\ cs[d].m.c = d
    BY Types DEF OwnCall
<1>1. PICK x \in Opaque, m \in Call :
          /\ m = [c |-> c, n |-> cs[c].n + 1, k |-> k] /\ x = Head(pStrms)
          /\ cs'[c].o = x /\ cs'[c].m = m /\ cs'[c].n = m.n
          /\ \A d \in Caller : d # c => cs'[d] = cs[d]
  <2> DEFINE m == [c |-> c, n |-> cs[c].n + 1, k |-> k]
             s == [pc |-> IF k = "Post" THEN "tx" ELSE "tell",
                   o |-> Head(pStrms), m |-> m, n |-> m.n]
  <2>1. /\ m \in Call /\ Head(pStrms) \in Opaque /\ cs'[c] = s
        /\ \A d \in Caller : d # c => cs'[d] = cs[d]
    BY getlocalstreamType
  <2>2. s.o = Head(pStrms) /\ s.m = m /\ s.n = m.n
    OBVIOUS
  <2> HIDE DEF s
  <2> QED
    BY <2>1, <2>2
<1>2. m.c = c /\ m.n = cs[c].n + 1 /\ cs[c].n \in Nat
    BY <1>0, <1>1 DEF CState
<1>3. /\ rxcallb'[x] \in {Nil, m} /\ done' = done
      /\ \A o \in Opaque : o # x => rxcallb'[o] = rxcallb[o]
    BY <1>0, <1>1 DEF getlocalstream
<1>4. \A h \in Call : h.c \in Caller /\ h.n \in Nat
    BY DEF Call
<1>5. \A d \in Caller : cs[d].n \in Nat
    BY <1>0 DEF CState
<1>6. \A h \in Call : h.n =< cs[h.c].n => h.n =< cs'[h.c].n
  <2> TAKE h \in Call
  <2>1. h.c \in Caller /\ h.n \in Nat /\ cs[h.c].n \in Nat
    BY <1>4, <1>5
  <2>2. cs'[h.c].n = IF h.c = c THEN cs[c].n + 1 ELSE cs[h.c].n
    BY <1>1, <1>2, <2>1
  <2> QED
    BY <2>1, <2>2
<1>7. \A h \in done' : h.n =< cs'[h.c].n
    BY <1>0, <1>3, <1>6 DEF Numbered
<1>8. ASSUME NEW o \in Opaque, rxcallb'[o] # Nil
      PROVE  rxcallb'[o].n =< cs'[rxcallb'[o].c].n
  <2>1. CASE o = x
    BY <1>1, <1>2, <1>3, <1>8, <2>1
  <2>2. CASE o # x
    <3>1. PICK h \in Call : h = rxcallb[o] /\ h = rxcallb'[o] /\ h # Nil
      BY <1>0, <1>3, <1>8, <2>2
    <3> QED
      BY <1>6, <3>1 DEF Numbered
  <2> QED
    BY <2>1, <2>2
<1>9. ASSUME NEW d \in Caller, NEW o \in Opaque, cs'[d].pc # "idle",
             rxcallb'[o] = cs'[d].m
      PROVE  o = cs'[d].o
  <2>1. CASE d = c /\ o # x
    <3>1. rxcallb[o] = m /\ m # Nil
      BY <1>1, <1>3, <1>9, <2>1, NilNoCall
    <3> QED
      BY <1>2, <3>1 DEF Numbered
  <2>2. CASE d # c
    <3>1. cs'[d] = cs[d] /\ cs[d].m \in Call /\ cs[d].m.c = d
      BY <1>0, <1>1, <1>9, <2>2
    <3>2. o # x
      BY <1>2, <1>3, <1>9, <2>2, <3>1, NilNoCall
    <3> QED
      BY <1>3, <1>9, <3>1, <3>2 DEF Numbered
  <2> QED
    BY <1>1, <2>1, <2>2
<1> QED
    BY <1>7, <1>8, <1>9 DEF Numbered

\* The routines that go on ...
LEMMA ProceedNumbered ==
    ASSUME TypeInv, Numbered, NEW c \in Caller, Proceed(c)
    PROVE  Numbered'
<1>1. cs[c].pc # "idle"
    BY DEF Proceed, Tell, Post, TxSucceeds, TxFails, RequestDone, putstream,
           StreamEnds
<1>2. /\ done' \subseteq done
      /\ (\E pc \in PC : Goto(c, pc)) \/ Return(c)
    BY DEF Proceed, Tell, Post, TxSucceeds, TxFails, RequestDone, putstream,
           StreamEnds, Return, PC
<1>3. \A d \in Caller :
          /\ cs'[d].n = cs[d].n
          /\ cs'[d].pc # "idle" => /\ cs[d].pc # "idle"
                                   /\ cs'[d].m = cs[d].m /\ cs'[d].o = cs[d].o
    BY <1>1, <1>2, GotoType, ReturnType
<1>4. \A o \in Opaque : rxcallb'[o] = rxcallb[o] \/ rxcallb'[o] = Nil
  <2>1. \/ rxcallb' = rxcallb
        \/ rxcallb' = [rxcallb EXCEPT ![cs[c].o] = Nil]
    BY DEF Proceed, Tell, Post, TxSucceeds, TxFails, RequestDone, putstream,
           StreamEnds, tables
  <2> QED
    BY <2>1, Types
<1> QED
    BY <1>2, <1>3, <1>4, NumberedKept

\* ... and syncRx(), which calls a callback.
LEMMA syncRxNumbered ==
    ASSUME TypeInv, Numbered, streamupdate \/ handlepkt
    PROVE  Numbered'
<1>1. UNCHANGED <<cs, rxcallb>>
    BY DEF streamupdate, handlepkt
<1>2. CASE streamupdate
    BY <1>1, <1>2, NumberedKept DEF streamupdate
<1>3. CASE handlepkt
  <2>1. PICK k \in Item : k = Head(rxch)
    BY <1>3, TakesType DEF handlepkt
  <2>2. k.o \in Opaque
    BY DEF Item
  <2>3. \/ done' = done
        \/ rxcallb[k.o] # Nil /\ done' = done \cup {rxcallb[k.o]}
    BY <1>3, <2>1 DEF handlepkt
  <2> QED
    BY <1>1, <2>2, <2>3, NumberedKept
<1> QED
    BY <1>2, <1>3

-----------------------------------------------------------------------------
(* The invariant. *)

\* Steps that change nothing of the places.
LEMMA KeptPlaces ==
    ASSUME Numbered, Places,
           UNCHANGED <<pStrms, rxcallb, live, rxch, remote, cs, done, failed>>
    PROVE  Numbered' /\ Places'
<1>1. Numbered'
    BY DEF Numbered
<1>2. /\ \A o : Pooled(o)' <=> Pooled(o)
      /\ \A o : Free(o)' <=> Free(o)
      /\ \A o : Returning(o)' <=> Returning(o)
      /\ \A o : Lost(o)' <=> Lost(o)
    BY DEF Pooled, Free, Returning, Lost, Quiet
<1>3. \A c : (Holds(c)' <=> Holds(c)) /\ (Stage(c)' <=> Stage(c))
    BY DEF Holds, Stage, Known, Owed, Quiet
<1>4. Places'
    BY <1>2, <1>3 DEF Places
<1> QED
    BY <1>1, <1>4

\* A transport that is open was open, and the deferred function of syncRx()
\* has not begun.
LEMMA OpenBefore ==
    ASSUME TypeInv, Next, Open'
    PROVE  /\ Open
           /\ \/ \E c \in Caller : \/ \E k \in KindOf[c] : getlocalstream(c, k)
                                   \/ Proceed(c)
              \/ streamupdate \/ handlepkt
              \/ \E a \in remote : doRxReads(a) \/ doRxPuts(a)
              \/ doRxStops \/ ConnBreaks \/ CloseConn
<1>0. ~killed' /\ syncrx' = "loop" /\ killed \in BOOLEAN
    BY DEF Open, TypeInv, TypeOK
<1>1. ~syncRxBreaks /\ ~ExitDone /\ ~flushrxch
    BY <1>0 DEF syncRxBreaks, ExitDone, flushrxch
<1>2. ASSUME NEW o \in todo, ExitVisits(o) PROVE FALSE
    BY <1>0, <1>2 DEF ExitVisits
<1>3. ASSUME NEW o \in calling, ExitCalls(o) PROVE FALSE
    BY <1>0, <1>3 DEF ExitCalls, TypeInv
<1>4. ~CloseKillch
    BY <1>0 DEF CloseKillch
<1>5. \/ \E c \in Caller : \/ \E k \in KindOf[c] : getlocalstream(c, k)
                           \/ Proceed(c)
      \/ streamupdate \/ handlepkt
      \/ \E a \in remote : doRxReads(a) \/ doRxPuts(a)
      \/ doRxStops \/ ConnBreaks \/ CloseConn
    BY <1>1, <1>2, <1>3, <1>4 DEF Next, syncRx, doRx
<1>6. killed' = killed
    BY <1>5 DEF getlocalstream, Proceed, Tell, Post, TxSucceeds, TxFails,
        RequestDone, putstream, StreamEnds, streamupdate, handlepkt,
        doRxReads, doRxPuts, doRxStops, ConnBreaks, CloseConn, close
<1>7. syncrx = "loop"
    BY <1>0, <1>5 DEF getlocalstream, Proceed, Tell, Post, TxSucceeds, TxFails,
        RequestDone, putstream, StreamEnds, streamupdate, handlepkt,
        doRxReads, doRxPuts, doRxStops, ConnBreaks, CloseConn, rx
<1> QED
    BY <1>0, <1>5, <1>6, <1>7 DEF Open

\* The routines keep every stream in its place.
LEMMA ProceedPlaces ==
    ASSUME TypeInv, Open, Places, NEW c \in Caller, Proceed(c)
    PROVE  Places'
BY TellPlaces, PostPlaces, TxPlaces, RequestDonePlaces, putstreamPlaces,
   StreamEndsPlaces DEF Proceed

\* Every step preserves the invariant.
LEMMA NextLeak == LeakInv /\ [Next]_vars => LeakInv'
<1> SUFFICES ASSUME LeakInv, [Next]_vars PROVE LeakInv'
    OBVIOUS
<1>1. TypeInv /\ TypeInv'
    BY NextType DEF LeakInv
<1> SUFFICES ASSUME Open' PROVE Numbered' /\ Places'
    BY <1>1 DEF LeakInv
<1>2. CASE UNCHANGED vars
  <2>1. UNCHANGED <<pStrms, rxcallb, live, rxch, remote, cs, done, failed,
                    killed, syncrx>>
    BY <1>2 DEF vars, close, tables, rx, peer, history
  <2> QED
    BY <2>1, KeptPlaces DEF Open, LeakInv
<1>3. CASE Next
  <2>1. /\ Open /\ Numbered /\ Places
        /\ \/ \E c \in Caller : \/ \E k \in KindOf[c] : getlocalstream(c, k)
                                \/ Proceed(c)
           \/ streamupdate \/ handlepkt
           \/ \E a \in remote : doRxReads(a) \/ doRxPuts(a)
           \/ doRxStops \/ ConnBreaks \/ CloseConn
    BY <1>1, <1>3, OpenBefore DEF LeakInv
  <2>2. ASSUME NEW c \in Caller, NEW k \in KindOf[c], getlocalstream(c, k)
        PROVE  Numbered' /\ Places'
    BY <1>1, <2>1, <2>2, getlocalstreamNumbered, getlocalstreamPlaces
  <2>3. ASSUME NEW c \in Caller, Proceed(c) PROVE Numbered' /\ Places'
    BY <1>1, <2>1, <2>3, ProceedNumbered, ProceedPlaces
  <2>4. CASE streamupdate
    BY <1>1, <2>1, <2>4, syncRxNumbered, streamupdatePlaces
  <2>5. CASE handlepkt
    BY <1>1, <2>1, <2>5, syncRxNumbered, handlepktPlaces DEF Open
  <2>6. ASSUME NEW a \in remote, doRxPuts(a) PROVE Numbered' /\ Places'
    <3>1. UNCHANGED <<cs, rxcallb, done>>
      BY <2>6 DEF doRxPuts, tables
    <3>2. Numbered'
      BY <1>1, <2>1, <3>1, NumberedKept
    <3> QED
      BY <1>1, <2>1, <2>6, <3>2, doRxPutsPlaces
  <2>7. CASE \/ \E a \in remote : doRxReads(a)
             \/ doRxStops \/ ConnBreaks \/ CloseConn
    <3>1. UNCHANGED <<pStrms, rxcallb, live, rxch, remote, cs, done, failed>>
      BY <2>7 DEF doRxReads, doRxStops, ConnBreaks, CloseConn, tables, rx,
                  peer, history
    <3> QED
      BY <2>1, <3>1, KeptPlaces
  <2> QED
    BY <2>1, <2>2, <2>3, <2>4, <2>5, <2>6, <2>7
<1> QED
    BY <1>2, <1>3

\* At first every stream is in the pool.
LEMMA InitLeak == Init => LeakInv
<1> SUFFICES ASSUME Init PROVE LeakInv
    OBVIOUS
<1>1. TypeInv
    BY InitType
<1>2. /\ pStrms = [i \in 1..NumStrm |-> i] /\ NumStrm \in Nat
      /\ live = {} /\ rxch = <<>> /\ remote = {} /\ done = {}
      /\ rxcallb = [o \in Opaque |-> Nil]
    BY ShutdownAssumption DEF Init
<1>3. \A c \in Caller : cs[c].pc = "idle"
    BY DEF Init, Idle
<1>4. Numbered
    BY <1>2, <1>3 DEF Numbered
<1>5. Len(pStrms) = NumStrm /\ \A i \in 1..NumStrm : pStrms[i] = i
    BY <1>2
<1>6. \A o \in Opaque : Pooled(o)
    BY <1>5 DEF Pooled, Opaque
<1>7. \A o, T : ~Has(rxch, o, T)
    BY <1>2 DEF Has
<1>8. \A o \in Opaque : Free(o)
    BY <1>2, <1>6, <1>7 DEF Free, Quiet
<1>9. Places
    BY <1>3, <1>5, <1>8 DEF Places, Holds
<1> QED
    BY <1>1, <1>4, <1>9 DEF LeakInv

\* A stream that nobody has is in the pool, or still in rxch, or lost.
LEMMA LeakByFailure == LeakInv => LeakOnlyByFailure
<1> SUFFICES ASSUME LeakInv, Open, NEW o \in Opaque \ Accounted
             PROVE  o \in failed /\ o \in live
    BY DEF LeakOnlyByFailure, Open
<1>1. TypeInv /\ Places
    BY DEF LeakInv
<1>2. /\ \A i \in 1..Len(pStrms) : pStrms[i] # o
      /\ \A c \in Caller : cs[c].pc # "idle" => cs[c].o # o
      /\ \A i \in 1..Len(rxch) : rxch[i].o # o
  <2>1. DOMAIN pStrms = 1..Len(pStrms) /\ DOMAIN rxch = 1..Len(rxch)
    BY <1>1, Types
  <2> QED
    BY <2>1 DEF Accounted
<1>3. ~Pooled(o) /\ \A T : ~Has(rxch, o, T)
    BY <1>2 DEF Pooled, Has, Is
<1>4. ~ \E c \in Caller : Holds(c) /\ cs[c].o = o
    BY <1>2 DEF Holds
<1>5. Lost(o)
    BY <1>1, <1>3, <1>4 DEF Places, Free, Returning
<1> QED
    BY <1>3, <1>5 DEF Lost

\* Until killch is closed and while syncRx() runs, a stream object that no
\* routine has, that is not in pStrms and of which rxch holds nothing is one
\* whose tx() has failed: streams come back to the pool on every other path.
THEOREM LeakOnlyOnFailure == Spec => []LeakOnlyByFailure
BY InitLeak, NextLeak, LeakByFailure, PTL DEF Spec
=============================================================================
