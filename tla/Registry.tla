------------------------------ MODULE Registry ------------------------------
(***************************************************************************)
(* The global table of named transports and the life of a transport from   *)
(* NewTransport() to Close().                                              *)
(*                                                                         *)
(* `transports` points to a map that is never changed: addtransport() and  *)
(* deltransport() load the pointer, build a changed copy and install it    *)
(* with a compare-and-swap, and start over when the pointer has moved.     *)
(* Any number of routines call Close() on a transport, the application's   *)
(* and those that doRx(), doTx() and syncRx() spawn.                       *)
(***************************************************************************)
EXTENDS Naturals

CONSTANTS
    Transport,      \* transports that may ever be created
    Name,           \* their names
    NameOf,         \* NameOf[t], the name given to NewTransport()
    None,           \* no transport
    Bad,            \* transports whose settings NewTransport() rejects
    Closer          \* routines that call Close()

ASSUME RegistryAssumption ==
    /\ NameOf \in [Transport -> Name]
    /\ None \notin Transport
    /\ Bad \subseteq Transport

VARIABLES
    version,        \* the pointer `transports`, as a count of its changes
    transports,     \* the map it points to
    creator,        \* creator[t]: the routine in NewTransport() for t
    closer,         \* closer[r]: what routine r does in Close()
    killed,         \* transports whose killch is closed
    connclosed,     \* transports whose connection is closed
    deleted         \* history: transports taken off the map

vars == <<version, transports, creator, closer, killed, connclosed, deleted>>

Map == [Name -> Transport \cup {None}]

\* What a routine remembers of its atomic.LoadPointer().
Loaded == [version : Nat, map : Map]
Now == [version |-> version, map |-> transports]

Init ==
    /\ version = 0
    /\ transports = [n \in Name |-> None]
    /\ creator = [t \in Transport |-> [pc |-> "start", old |-> Now]]
    /\ closer = [r \in Closer |-> [pc |-> "idle", t |-> None, old |-> Now]]
    /\ killed = {}
    /\ connclosed = {}
    /\ deleted = {}

-----------------------------------------------------------------------------
(* NewTransport(). *)

\* Mutant of CompareAndSwap: the copy is stored whatever the pointer is.
StorePointer(old, new) ==
    /\ version' = version + 1
    /\ transports' = new

\* atomic.CompareAndSwapPointer() that succeeds.  No two maps have the same
\* address while a routine still refers to the older one.
CompareAndSwap(old, new) ==
    /\ old.version = version
    /\ version' = version + 1
    /\ transports' = new

\* addtransport() loads the pointer; it panics when the name is in the map.
addtransport(t) ==
    /\ creator[t].pc \in {"start", "again"}
    /\ creator' = [creator EXCEPT ![t] =
           [pc |-> IF transports[NameOf[t]] # None THEN "refused" ELSE "cas",
            old |-> Now]]
    /\ UNCHANGED <<version, transports, closer, killed, connclosed, deleted>>

addtransportCAS(t) ==
    LET old == creator[t].old IN
    /\ creator[t].pc = "cas"
    /\ CompareAndSwap(old, [old.map EXCEPT ![NameOf[t]] = t])
    /\ creator' = [creator EXCEPT ![t].pc = "listed"]
    /\ UNCHANGED <<closer, killed, connclosed, deleted>>

addtransportRetry(t) ==
    /\ creator[t].pc = "cas"
    /\ creator[t].old.version # version
    /\ creator' = [creator EXCEPT ![t].pc = "again"]
    /\ UNCHANGED <<version, transports, closer, killed, connclosed, deleted>>

\* The rest of NewTransport(): setOpaqueRange() panics on a wrong range and
\* an unknown tag is ErrorInvalidTag; neither takes the name off the map.
NewTransport(t) ==
    /\ creator[t].pc = "listed"
    /\ creator' = [creator EXCEPT ![t].pc =
                       IF t \in Bad THEN "failed" ELSE "created"]
    /\ UNCHANGED <<version, transports, closer, killed, connclosed, deleted>>

-----------------------------------------------------------------------------
(* Transport.Close(). *)

\* close(t.killch) panics when it is closed already: then Close() recovers and
\* returns at once, without a change of any state.
Close(r, t) ==
    /\ closer[r].pc = "idle"
    /\ creator[t].pc = "created"
    /\ t \notin killed
    /\ killed' = killed \cup {t}
    /\ closer' = [closer EXCEPT ![r].pc = "load", ![r].t = t]
    /\ UNCHANGED <<version, transports, creator, connclosed, deleted>>

\* deltransport() loads the pointer; should the name not be in the map, it
\* panics and Close() recovers, the connection still open.
deltransport(r) ==
    LET t == closer[r].t
        there == transports[NameOf[t]] # None
    IN  /\ closer[r].pc = "load"
        /\ closer' = [closer EXCEPT ![r] =
               [pc |-> IF there THEN "cas" ELSE "idle", t |-> t, old |-> Now]]
        /\ UNCHANGED <<version, transports, creator, killed, connclosed,
                       deleted>>

deltransportCAS(r) ==
    LET old == closer[r].old
        t == closer[r].t
    IN  /\ closer[r].pc = "cas"
        /\ CompareAndSwap(old, [old.map EXCEPT ![NameOf[t]] = None])
        /\ closer' = [closer EXCEPT ![r].pc = "conn"]
        /\ deleted' = deleted \cup {old.map[NameOf[t]]}
        /\ UNCHANGED <<creator, killed, connclosed>>

\* Mutant of deltransportRetry: the loop ends whether or not the swap is done.
deltransportGivesUp(r) ==
    /\ closer[r].pc = "cas"
    /\ closer[r].old.version # version
    /\ closer' = [closer EXCEPT ![r].pc = "conn"]
    /\ UNCHANGED <<version, transports, creator, killed, connclosed, deleted>>

deltransportRetry(r) ==
    /\ closer[r].pc = "cas"
    /\ closer[r].old.version # version
    /\ closer' = [closer EXCEPT ![r].pc = "load"]
    /\ UNCHANGED <<version, transports, creator, killed, connclosed, deleted>>

\* t.conn.Close(), the last step of Close().
CloseConn(r) ==
    /\ closer[r].pc = "conn"
    /\ connclosed' = connclosed \cup {closer[r].t}
    /\ closer' = [closer EXCEPT ![r].pc = "idle"]
    /\ UNCHANGED <<version, transports, creator, killed, deleted>>

-----------------------------------------------------------------------------

Create(t) == \/ addtransport(t)
             \/ addtransportCAS(t)
             \/ addtransportRetry(t)
             \/ NewTransport(t)

Finish(r) == \/ deltransport(r)
             \/ deltransportCAS(r)
             \/ deltransportRetry(r)
             \/ CloseConn(r)

Next == \/ \E t \in Transport : Create(t)
        \/ \E r \in Closer : \/ \E t \in Transport : Close(r, t)
                             \/ Finish(r)

Spec == Init /\ [][Next]_vars

\* A routine that has begun NewTransport() or Close() goes on.  A swap fails
\* only because another one succeeded, and only so many succeed.
FairSpec == /\ Spec
            /\ \A t \in Transport : WF_vars(Create(t))
            /\ \A r \in Closer : WF_vars(Finish(r))

-----------------------------------------------------------------------------
(* Properties. *)

\* The names that listtransports() gives, and with them Stats() and Stat().
listtransports == {n \in Name : transports[n] # None}

\* The types of the variables.
TypeOK ==
    /\ version \in Nat
    /\ transports \in Map
    /\ creator \in [Transport -> [pc : {"start", "cas", "again", "refused",
                                        "listed", "failed", "created"},
                                  old : Loaded]]
    /\ closer \in [Closer -> [pc : {"idle", "load", "cas", "conn"},
                              t : Transport \cup {None}, old : Loaded]]
    /\ killed \in SUBSET Transport
    /\ connclosed \in SUBSET Transport
    /\ deleted \in SUBSET Transport

\* Transport t has gone through addtransport().
Added(t) == creator[t].pc \in {"listed", "failed", "created"}

\* No update is lost and none comes back: whatever the swaps of concurrent
\* NewTransport() and Close(), the map has exactly the transports that were
\* added and not yet deleted, each under its own name.
MapExact ==
    \A n \in Name, t \in Transport :
        transports[n] = t <=> NameOf[t] = n /\ Added(t) /\ t \notin deleted

\* A connection is closed only when its transport is off the map, so Stats()
\* and the http endpoints never list a dead transport.
UnlistedWhenClosed ==
    \A n \in listtransports : transports[n] \notin connclosed

\* A snapshot whose pointer is still current is the current map.
SnapshotCurrent(old) ==
    /\ old.version =< version
    /\ old.version = version => old.map = transports

\* Routine r is the one that closed the killch of t and has yet to delete t.
Deleting(r, t) == closer[r].t = t /\ closer[r].pc \in {"load", "cas"}

\* The inductive invariant behind MapExact: besides the snapshots, every
\* Close() that is past killch has its transport in the map until it deletes
\* it, and no two routines are there for the same transport.
RegistryInv ==
    /\ TypeOK
    /\ MapExact
    /\ \A t \in Transport :
        /\ creator[t].pc = "cas" => /\ SnapshotCurrent(creator[t].old)
                                    /\ creator[t].old.map[NameOf[t]] = None
        /\ t \in deleted => t \in killed
        /\ t \in killed => creator[t].pc = "created"
        /\ t \in connclosed => t \in deleted
    /\ \A r \in Closer :
        /\ closer[r].pc # "idle" => closer[r].t \in killed
        /\ closer[r].pc = "cas" => /\ SnapshotCurrent(closer[r].old)
                                   /\ closer[r].old.map[NameOf[closer[r].t]]
                                        # None
        /\ closer[r].pc \in {"load", "cas"} => closer[r].t \notin deleted
        /\ closer[r].pc = "conn" => closer[r].t \in deleted
    /\ \A r, s \in Closer, t \in Transport :
        Deleting(r, t) /\ Deleting(s, t) => r = s

\* The atomic table that this one implements.
StatusOf(t) ==
    IF t \in deleted THEN "deleted"
    ELSE IF Added(t) THEN "listed"
    ELSE IF creator[t].pc = "refused" THEN "refused"
    ELSE "new"
status == [t \in Transport |-> StatusOf(t)]

Atomic == INSTANCE AtomicRegistry WITH reg <- transports, status <- status

\* addtransport() and deltransport(), with their loads, copies and retries,
\* take effect in one step and do to the map what AtomicRegistry says.
ImplementsAtomic == Atomic!Spec

\* The name of a transport that is being closed becomes free again.
NameFreed ==
    \A t \in Transport : t \in killed ~> transports[NameOf[t]] # t
=============================================================================
