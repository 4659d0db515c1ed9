------------------------------ MODULE Shutdown ------------------------------
(***************************************************************************)
(* One end of a connection while its transport is being closed: the calls  *)
(* that are under way, the callbacks that syncRx() makes on its way out,   *)
(* and the streams that never come back to their pool.                     *)
(*                                                                         *)
(* Close() closes killch and later the connection.  Every routine selects  *)
(* on killch beside its own channel, and Go picks any case that is ready:  *)
(* a call may go on as if nothing had happened.  Module TxPath is about    *)
(* tx(), txasync() and doTx(); here a transmission is one step with the    *)
(* outcomes they have.  The remote is an environment that answers, or      *)
(* breaks the connection.                                                  *)
(***************************************************************************)
EXTENDS Naturals, Sequences, FiniteSets

CONSTANTS
    Caller,     \* application routines
    KindOf,     \* KindOf[c]: the calls that routine c makes
    NumStrm,    \* stream objects in pStrms
    RxchSize,   \* "chansize", capacity of rxch
    MaxCall     \* bound: calls made by a routine

\* "Request" is called with a nil response; "Ping" stands for every Request()
\* with a response message whose Decode() indexes its argument, as those of
\* pingMsg and whoamiMsg do.
CallKind == {"Post", "Request", "Ping", "Stream"}

ASSUME ShutdownAssumption ==
    /\ KindOf \in [Caller -> SUBSET CallKind]
    /\ NumStrm \in Nat
    /\ RxchSize \in Nat \ {0}
    /\ MaxCall \in Nat

\* The opaques of the stream objects.
Opaque == 1..NumStrm

\* A call, and with it the closure that it installs as rxcallb.
Call == [c : Caller, n : 1..MaxCall, k : CallKind]
Nil == [n |-> 0]

\* rxch carries stream updates, responses and finishes.  A message is good
\* when Decode() can read it.
Item == [t : {"update", "response", "finish"}, o : Opaque, good : BOOLEAN]

VARIABLES
    killed,     \* killch is closed
    conn,       \* "up", or "down": broken or closed
    crashed,    \* a panic that nobody recovers has ended the process
    pStrms,     \* the channel of free stream objects
    rxcallb,    \* rxcallb[o]: callback of stream object o
    live,       \* opaques in livestreams
    rxch,
    syncrx,     \* "loop", then its deferred function: "exit", "flush"; "stopped"
    todo,       \* the streams that range over livestreams has still to visit
    calling,    \* streams whose rxcallb was found not nil and is called next
    remote,     \* what was sent and whose answer is not in rxch yet: [m, o]
    rxpkt,      \* the one of these, if any, whose answer doRx() has read
    dorx,       \* "run" or "stopped"
    cs,         \* cs[c]: pc, stream and call of routine c
    done,       \* calls whose callback was called: donech is closed
    early,      \* history: calls that syncRx() was told of before killch closed
    failed      \* history: streams on which a tx() has failed before that

close == <<killed, conn>>
tables == <<pStrms, rxcallb, live>>
rx == <<rxch, syncrx, todo, calling, crashed>>
peer == <<dorx, remote, rxpkt>>
history == <<early, failed>>
vars == <<close, tables, rx, peer, cs, done, history>>

\* A routine that is in no call, after n calls.
Idle(n) == [pc |-> "idle", o |-> 0, m |-> Nil, n |-> n]

Init ==
    /\ killed = FALSE /\ conn = "up" /\ crashed = FALSE
    /\ pStrms = [i \in 1..NumStrm |-> i]
    /\ rxcallb = [o \in Opaque |-> Nil]
    /\ live = {} /\ rxch = <<>> /\ syncrx = "loop"
    /\ todo = {} /\ calling = {}
    /\ dorx = "run" /\ remote = {} /\ rxpkt = {}
    /\ cs = [c \in Caller |-> Idle(0)]
    /\ done = {} /\ early = {} /\ failed = {}

-----------------------------------------------------------------------------
(* Helpers. *)

Goto(c, pc) == cs' = [cs EXCEPT ![c].pc = pc]

\* The call of routine c returns; its donech is garbage.
Return(c) ==
    /\ cs' = [cs EXCEPT ![c] = Idle(@.n)]
    /\ done' = done \ {cs[c].m}
    /\ early' = early \ {cs[c].m}

\* Mutant of putch: rxch is made with room for a batch too, as txch is.
putchRoomy(item) ==
    \/ /\ Len(rxch) < RxchSize + 1
       /\ rxch' = Append(rxch, item)
    \/ /\ killed
       /\ UNCHANGED rxch

\* putch(): `ch <- val` or `<-t.killch`, whichever is ready.
putch(item) ==
    \/ /\ Len(rxch) < RxchSize
       /\ rxch' = Append(rxch, item)
    \/ /\ killed
       /\ UNCHANGED rxch

Updated(o) == [t |-> "update", o |-> o, good |-> TRUE]

\* Whether the callback of call m panics: resp.Decode() of what it was given.
Panics(m, good) == m.k = "Ping" /\ ~good

-----------------------------------------------------------------------------
(* Application routines. *)

\* getlocalstream(), first half.  There is no case for killch.
getlocalstream(c, k) ==
    LET m == [c |-> c, n |-> cs[c].n + 1, k |-> k]
        o == Head(pStrms)
    IN
    /\ cs[c].pc = "idle"
    /\ cs[c].n < MaxCall
    /\ pStrms # <<>>
    /\ pStrms' = Tail(pStrms)
    /\ rxcallb' = [rxcallb EXCEPT ![o] = IF k = "Post" THEN Nil ELSE m]
    /\ cs' = [cs EXCEPT ![c] = [pc |-> IF k = "Post" THEN "tx" ELSE "tell",
                                o |-> o, m |-> m, n |-> m.n]]
    /\ UNCHANGED <<close, live, rx, peer, done, history>>

\* getlocalstream(), second half: tell syncRx().
Tell(c) ==
    /\ cs[c].pc = "tell"
    /\ putch(Updated(cs[c].o))
    /\ early' = IF killed THEN early ELSE early \cup {cs[c].m}
    /\ Goto(c, "tx")
    /\ UNCHANGED <<close, tables, syncrx, todo, calling, crashed, peer,
                   done, failed>>

\* txasync() of Post(), whatever it returns: the deferred putstream() gives
\* the stream back without telling syncRx().
Post(c) ==
    /\ cs[c].pc = "tx"
    /\ cs[c].m.k = "Post"
    /\ pStrms' = Append(pStrms, cs[c].o)
    /\ Return(c)
    /\ UNCHANGED <<close, rxcallb, live, rx, peer, failed>>

\* The packet of routine c is written.  doTx() may go on writing after killch
\* is closed, until it happens to choose that case of its select.
Written(c) ==
    /\ conn = "up"
    /\ remote' = remote \cup {[m |-> cs[c].m, o |-> cs[c].o]}

\* tx() returns nil: Request() goes on to wait on donech, Stream() returns
\* the stream.
TxSucceeds(c) ==
    /\ cs[c].pc = "tx"
    /\ cs[c].m.k # "Post"
    /\ Written(c)
    /\ Goto(c, IF cs[c].m.k = "Stream" THEN "own" ELSE "wait")
    /\ UNCHANGED <<close, tables, rx, dorx, rxpkt, done, history>>

\* tx() returns an error: the write failed, or it saw killch, perhaps after
\* the packet was written.  Request() and Stream() leave rxcallb as it is and
\* go to putstream().
TxFails(c) ==
    /\ cs[c].pc = "tx"
    /\ cs[c].m.k # "Post"
    /\ \/ /\ killed \/ conn = "down"
          /\ UNCHANGED remote
       \/ killed /\ Written(c)
    /\ failed' = IF killed THEN failed ELSE failed \cup {cs[c].o}
    /\ Goto(c, "untell")
    /\ UNCHANGED <<close, tables, rx, dorx, rxpkt, done, early>>

\* Mutant of RequestDone: rxcallb is not cleared.
RequestDoneKeeps(c) ==
    /\ cs[c].pc = "wait"
    /\ cs[c].m \in done
    /\ Goto(c, "untell")
    /\ UNCHANGED <<close, tables, rx, peer, done, history>>

\* `<-donech` of Request(), and rxcallb = nil.
RequestDone(c) ==
    /\ cs[c].pc = "wait"
    /\ cs[c].m \in done
    /\ rxcallb' = [rxcallb EXCEPT ![cs[c].o] = Nil]
    /\ Goto(c, "untell")
    /\ UNCHANGED <<close, pStrms, live, rx, peer, done, history>>

\* putstream(), telling syncRx().
putstream(c) ==
    /\ cs[c].pc = "untell"
    /\ putch(Updated(cs[c].o))
    /\ Return(c)
    /\ UNCHANGED <<close, tables, syncrx, todo, calling, crashed, peer,
                   failed>>

\* The owner of a stream learns from its callback that it is closed.
StreamEnds(c) ==
    /\ cs[c].pc = "own"
    /\ cs[c].m \in done
    /\ Return(c)
    /\ UNCHANGED <<close, tables, rx, peer, failed>>

-----------------------------------------------------------------------------
(* The remote and doRx(). *)

\* The remote responds, or closes the stream, and doRx() reads it.
doRxReads(a) ==
    /\ dorx = "run"
    /\ conn = "up"
    /\ rxpkt = {}
    /\ rxpkt' = {a}
    /\ UNCHANGED <<close, tables, rx, dorx, remote, cs, done, history>>

\* putch() of what was read, which does not need the connection any more.
doRxPuts(a) ==
    /\ dorx = "run"
    /\ a \in rxpkt
    /\ Len(rxch) < RxchSize
    /\ rxpkt' = {}
    /\ remote' = remote \ {a}
    /\ \E good \in IF a.m.k = "Ping" THEN BOOLEAN ELSE {TRUE} :
        rxch' = Append(rxch,
            [t |-> IF a.m.k = "Stream" THEN "finish" ELSE "response",
             o |-> a.o, good |-> good])
    /\ UNCHANGED <<close, tables, syncrx, todo, calling, crashed, dorx,
                   cs, done, history>>

ConnBreaks ==
    /\ ~killed
    /\ conn = "up"
    /\ conn' = "down"
    /\ UNCHANGED <<killed, tables, rx, peer, cs, done, history>>

\* A failed read, or a putch() that saw killch: `go t.Close()`.
doRxStops ==
    /\ dorx = "run"
    /\ IF rxpkt = {} THEN conn = "down" ELSE killed
    /\ dorx' = "stopped"
    /\ UNCHANGED <<close, tables, rx, remote, rxpkt, cs, done, history>>

-----------------------------------------------------------------------------
(* syncRx(): its loop, and the deferred function. *)

\* Whether syncRx() can take item k off rxch.
Takes(k) ==
    /\ rxch # <<>>
    /\ k = Head(rxch)
    /\ rxch' = Tail(rxch)

\* streamupdate(): the stream enters livestreams, or leaves it for the pool.
streamupdate ==
    LET k == Head(rxch) IN
    /\ syncrx = "loop"
    /\ Takes(k)
    /\ k.t = "update"
    /\ live' = IF rxcallb[k.o] # Nil THEN live \cup {k.o} ELSE live \ {k.o}
    /\ pStrms' = IF rxcallb[k.o] = Nil /\ k.o \in live THEN Append(pStrms, k.o)
                                                      ELSE pStrms
    /\ UNCHANGED <<close, rxcallb, syncrx, todo, calling, crashed, peer,
                   cs, done, history>>

\* handlepkt(), a response or a finish.  On a live stream the callback is
\* called; one that panics takes syncRx() to its deferred function, which
\* recovers it.  Without a live stream, as when putch() chose killch, the
\* response is dispatched as if it were a request and the finish is dropped.
handlepkt ==
    LET k == Head(rxch)
        m == IF k.o \in live THEN rxcallb[k.o] ELSE Nil
        panic == k.t = "response" /\ m # Nil /\ Panics(m, k.good)
        ends == k.t = "finish" /\ k.o \in live
    IN  /\ syncrx = "loop"
        /\ Takes(k)
        /\ k.t # "update"
        /\ done' = IF panic \/ m = Nil THEN done ELSE done \cup {m}
        /\ syncrx' = IF panic THEN "exit" ELSE "loop"
        /\ todo' = IF panic THEN live ELSE todo
        /\ live' = IF ends THEN live \ {k.o} ELSE live
        /\ pStrms' = IF ends THEN Append(pStrms, k.o) ELSE pStrms
        /\ UNCHANGED <<close, rxcallb, calling, crashed, peer, cs,
                       history>>

\* `case <-t.killch`: the deferred function begins.
syncRxBreaks ==
    /\ syncrx = "loop"
    /\ killed
    /\ syncrx' = "exit"
    /\ todo' = live
    /\ UNCHANGED <<close, tables, rxch, calling, crashed, peer, cs, done,
                   history>>

\* `for _, stream := range livestreams`: the test of rxcallb ...
ExitVisits(o) ==
    /\ syncrx = "exit"
    /\ calling = {}
    /\ todo' = todo \ {o}
    /\ calling' = IF rxcallb[o] # Nil THEN {o} ELSE {}
    /\ UNCHANGED <<close, tables, rxch, syncrx, crashed, peer, cs, done,
                   history>>

\* ... and the call, for which rxcallb is read again: Request() may have set
\* it to nil.  Nothing recovers a panic of the deferred function itself.
ExitCalls(o) ==
    LET m == rxcallb[o]
        panic == m = Nil \/ Panics(m, FALSE)
    IN  /\ calling' = {}
        /\ crashed' = panic
        /\ done' = IF panic THEN done ELSE done \cup {m}
        /\ UNCHANGED <<close, tables, rxch, syncrx, todo, peer, cs,
                       history>>

ExitDone ==
    /\ syncrx = "exit"
    /\ todo = {}
    /\ calling = {}
    /\ syncrx' = "flush"
    /\ UNCHANGED <<close, tables, rxch, todo, calling, crashed, peer, cs,
                   done, history>>

\* Mutant of flushrxch: it returns at once.
flushrxchNothing ==
    /\ syncrx = "flush"
    /\ syncrx' = "stopped"
    /\ UNCHANGED <<close, tables, rxch, todo, calling, crashed, peer, cs,
                   done, history>>

\* flushrxch(): updates that are still in rxch are told as well; it returns
\* when rxch is empty.
flushrxch ==
    LET k == Head(rxch) IN
    /\ syncrx = "flush"
    /\ \/ /\ calling = {}
          /\ Takes(k)
          /\ calling' = IF k.t = "update" /\ rxcallb[k.o] # Nil THEN {k.o}
                                                                ELSE {}
          /\ UNCHANGED syncrx
       \/ /\ calling = {}
          /\ rxch = <<>>
          /\ syncrx' = "stopped"
          /\ UNCHANGED <<rxch, calling>>
    /\ UNCHANGED <<close, tables, todo, crashed, peer, cs, done, history>>

-----------------------------------------------------------------------------
(* Transport.Close(), by the application or by `go t.Close()`. *)

\* Mutant of closing: doRx() closes the transport only after a panic.
closingSyncOnly == ~killed /\ syncrx # "loop"

\* doRx() at its end, and the recovery of syncRx(), start `go t.Close()`.
closing == ~killed /\ (dorx = "stopped" \/ syncrx # "loop")

CloseKillch ==
    /\ ~killed
    /\ killed' = TRUE
    /\ UNCHANGED <<conn, tables, rx, peer, cs, done, history>>

CloseConn ==
    /\ killed
    /\ conn = "up"
    /\ conn' = "down"
    /\ UNCHANGED <<killed, tables, rx, peer, cs, done, history>>

-----------------------------------------------------------------------------

syncRx == \/ streamupdate
          \/ handlepkt
          \/ syncRxBreaks
          \/ \E o \in todo : ExitVisits(o)
          \/ \E o \in calling : ExitCalls(o)
          \/ ExitDone
          \/ flushrxch

doRx == \/ \E a \in remote : doRxReads(a) \/ doRxPuts(a)
        \/ doRxStops

Proceed(c) == \/ Tell(c)
              \/ Post(c)
              \/ TxSucceeds(c)
              \/ TxFails(c)
              \/ RequestDone(c)
              \/ putstream(c)
              \/ StreamEnds(c)

Next ==
    /\ ~crashed
    /\ \/ \E c \in Caller : \/ \E k \in KindOf[c] : getlocalstream(c, k)
                            \/ Proceed(c)
       \/ syncRx
       \/ doRx
       \/ ConnBreaks
       \/ CloseKillch
       \/ CloseConn

Spec == Init /\ [][Next]_vars

\* Go runs every routine that can run.  Nobody has to call, to answer, or to
\* close the transport, unless the transport has started to close itself.
Fairness ==
    /\ WF_vars(~crashed /\ syncRx)
    /\ WF_vars(~crashed /\ \E a \in remote : doRxPuts(a))
    /\ WF_vars(~crashed /\ doRxStops)
    /\ WF_vars(~crashed /\ closing /\ CloseKillch)
    /\ WF_vars(~crashed /\ CloseConn)
    /\ \A c \in Caller : WF_vars(~crashed /\ Proceed(c))

FairSpec == Spec /\ Fairness

-----------------------------------------------------------------------------
(* Properties. *)

\* The types of the variables; rxch stays within its capacity.
TypeOK ==
    /\ killed \in BOOLEAN /\ crashed \in BOOLEAN
    /\ conn \in {"up", "down"}
    /\ pStrms \in Seq(Opaque) /\ live \subseteq Opaque
    /\ todo \subseteq Opaque /\ calling \subseteq Opaque
    /\ rxcallb \in [Opaque -> Call \cup {Nil}]
    /\ rxch \in Seq(Item) /\ Len(rxch) =< RxchSize
    /\ syncrx \in {"loop", "exit", "flush", "stopped"}
    /\ dorx \in {"run", "stopped"}
    /\ remote \subseteq [m : Call, o : Opaque]
    /\ rxpkt \subseteq [m : Call, o : Opaque]
    /\ cs \in [Caller -> [pc : {"idle", "tell", "tx", "wait", "untell",
                                "own"},
                          o : Opaque \cup {0}, m : Call \cup {Nil},
                          n : 0..MaxCall]]
    /\ done \subseteq Call /\ early \subseteq Call /\ failed \subseteq Opaque

\* Routine c depends on its callback: it waits on donech or owns a stream.
Waits(c) == cs[c].pc \in {"wait", "own"}

\* The comment on Close() says that closing killch closes all active streams,
\* the one in syncRx() that waiting routines are unblocked: a Request() that
\* waits on donech, and the owner of a stream, are told, if syncRx() was told
\* of their stream before killch was closed.
ToldOfClose ==
    \A c \in Caller :
        killed /\ Waits(c) /\ cs[c].m \in early ~> crashed \/ ~Waits(c)

\* A transport that lost its connection, or whose syncRx() panicked, closes
\* itself, and both its receiving routines end: doRx(), also when it waits for
\* room in rxch, and syncRx().
AllStop ==
    conn = "down" \/ dorx = "stopped" \/ syncrx # "loop"
        ~> crashed \/ (killed /\ dorx = "stopped" /\ syncrx = "stopped")

\* The streams that somebody still has or will give back.
Accounted ==
    {pStrms[i] : i \in DOMAIN pStrms}
           \cup {cs[c].o : c \in {d \in Caller : cs[d].pc # "idle"}}
           \cup {rxch[i].o : i \in DOMAIN rxch}

\* Until killch is closed a stream object leaks only on a failed tx(): it
\* stays in livestreams, its callback set, until syncRx() ends.
LeakOnlyByFailure ==
    ~killed /\ syncrx = "loop" => Opaque \ Accounted \subseteq failed \cap live

\* README.md says that syncRx() recovers from panics, closes all live pending
\* streams and exits: the process survives the end of a transport.
NoCrash == ~crashed
=============================================================================
