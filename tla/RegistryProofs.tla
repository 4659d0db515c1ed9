--------------------------- MODULE RegistryProofs ---------------------------
(***************************************************************************)
(* Proofs about Registry, for any number of transports, names and routines *)
(* that close them: RegistryInv is inductive, it implies the properties of *)
(* the map, and Registry implements AtomicRegistry.                        *)
(***************************************************************************)
EXTENDS Registry, TLAPS

\* A successful swap installs what the routine computed from a map that is
\* still the current one, and invalidates every older snapshot.
LEMMA SwapCurrent ==
    ASSUME TypeOK, NEW old \in Loaded, NEW new,
           SnapshotCurrent(old), CompareAndSwap(old, new)
    PROVE  old.map = transports /\ transports' = new /\ version' = version + 1
BY DEF CompareAndSwap, SnapshotCurrent

\* The initial state satisfies the inductive invariant.
LEMMA InitInv == Init => RegistryInv
BY RegistryAssumption
   DEF Init, RegistryInv, TypeOK, Map, Loaded, Now, MapExact, Added, Deleting,
       SnapshotCurrent

\* addtransport()'s load preserves it.
LEMMA AddLoadInv ==
    ASSUME RegistryInv, NEW t \in Transport, addtransport(t)
    PROVE  RegistryInv'
<1> USE RegistryAssumption
<1>1. Now \in Loaded
    BY DEF RegistryInv, TypeOK, Now, Loaded
<1>2. TypeOK'
    BY <1>1 DEF RegistryInv, TypeOK, addtransport
<1>3. MapExact'
    BY DEF RegistryInv, TypeOK, addtransport, MapExact, Added
<1>4. \A u \in Transport : creator'[u].pc = "cas" =>
          /\ SnapshotCurrent(creator[u].old)'
          /\ creator'[u].old.map[NameOf[u]] = None
    BY DEF RegistryInv, TypeOK, addtransport, SnapshotCurrent, Now
<1>5. \A u \in Transport : u \in killed' => creator'[u].pc = "created"
    BY DEF RegistryInv, TypeOK, addtransport
<1> QED
    BY <1>2, <1>3, <1>4, <1>5
    DEF RegistryInv, addtransport, Deleting, SnapshotCurrent

\* Its swap preserves it: the name was free in the snapshot, hence is free.
LEMMA AddSwapInv ==
    ASSUME RegistryInv, NEW t \in Transport, addtransportCAS(t)
    PROVE  RegistryInv'
<1> USE RegistryAssumption
<1> DEFINE old == creator[t].old
<1>1. /\ transports[NameOf[t]] = None
      /\ transports' = [transports EXCEPT ![NameOf[t]] = t]
      /\ version' = version + 1
    BY SwapCurrent DEF RegistryInv, TypeOK, addtransportCAS
<1>2. TypeOK'
  <2>1. transports' \in Map /\ version' \in Nat
    BY <1>1 DEF RegistryInv, TypeOK, Map
  <2> QED
    BY <2>1 DEF RegistryInv, TypeOK, addtransportCAS
<1>3. MapExact'
    BY <1>1 DEF RegistryInv, TypeOK, addtransportCAS, MapExact, Added, Map
<1>4. \A u \in Transport : creator'[u].pc = "cas" =>
          /\ SnapshotCurrent(creator[u].old)'
          /\ creator'[u].old.map[NameOf[u]] = None
    BY <1>1 DEF RegistryInv, TypeOK, addtransportCAS, SnapshotCurrent, Loaded
<1>5. \A r \in Closer : closer'[r].pc = "cas" =>
          SnapshotCurrent(closer[r].old)'
    BY <1>1 DEF RegistryInv, TypeOK, addtransportCAS, SnapshotCurrent, Loaded
<1>6. \A u \in Transport : u \in killed' => creator'[u].pc = "created"
    BY DEF RegistryInv, TypeOK, addtransportCAS
<1> QED
    BY <1>2, <1>3, <1>4, <1>5, <1>6
    DEF RegistryInv, addtransportCAS, Deleting

\* So do the other steps of NewTransport().
LEMMA CreateRestInv ==
    ASSUME RegistryInv, NEW t \in Transport,
           addtransportRetry(t) \/ NewTransport(t)
    PROVE  RegistryInv'
<1> USE RegistryAssumption
<1>1. TypeOK' /\ MapExact'
    BY DEF RegistryInv, TypeOK, addtransportRetry, NewTransport, MapExact,
           Added
<1> QED
    BY <1>1 DEF RegistryInv, TypeOK, addtransportRetry, NewTransport,
                Deleting, SnapshotCurrent

\* Close() up to close(killch): whoever closes it is the only one to delete.
LEMMA CloseInv ==
    ASSUME RegistryInv, NEW r \in Closer, NEW t \in Transport, Close(r, t)
    PROVE  RegistryInv'
<1> USE RegistryAssumption
<1>1. TypeOK'
  <2>1. closer' \in [Closer -> [pc : {"idle", "load", "cas", "conn"},
                                t : Transport \cup {None}, old : Loaded]]
    <3>1. closer[r] \in [pc : {"idle", "load", "cas", "conn"},
                         t : Transport \cup {None}, old : Loaded]
      BY DEF RegistryInv, TypeOK
    <3>2. [closer[r] EXCEPT !.pc = "load", !.t = t] \in
              [pc : {"idle", "load", "cas", "conn"},
               t : Transport \cup {None}, old : Loaded]
      BY <3>1
    <3>3. closer' = [closer EXCEPT ![r] =
                         [closer[r] EXCEPT !.pc = "load", !.t = t]]
      BY <3>1 DEF RegistryInv, TypeOK, Close
    <3> QED
      BY <3>2, <3>3 DEF RegistryInv, TypeOK
  <2>2. killed' \in SUBSET Transport
    BY DEF RegistryInv, TypeOK, Close
  <2> QED
    BY <2>1, <2>2 DEF RegistryInv, TypeOK, Close
<1>2. MapExact'
    BY DEF RegistryInv, Close, MapExact, Added
<1>3. \A s1, s2 \in Closer, u \in Transport :
          Deleting(s1, u)' /\ Deleting(s2, u)' => s1 = s2
    BY DEF RegistryInv, TypeOK, Close, Deleting
<1>4. \A u \in Transport : u \in killed' => creator'[u].pc = "created"
    BY DEF RegistryInv, TypeOK, Close
<1>5. \A s \in Closer :
        /\ closer'[s].pc # "idle" => closer'[s].t \in killed'
        /\ closer'[s].pc = "cas" =>
              /\ SnapshotCurrent(closer[s].old)'
              /\ closer'[s].old.map[NameOf[closer'[s].t]] # None
        /\ closer'[s].pc \in {"load", "cas"} => closer'[s].t \notin deleted'
        /\ closer'[s].pc = "conn" => closer'[s].t \in deleted'
    BY DEF RegistryInv, TypeOK, Close, SnapshotCurrent
<1> QED
    BY <1>1, <1>2, <1>3, <1>4, <1>5
    DEF RegistryInv, Close, SnapshotCurrent

\* deltransport()'s load always finds the name: nobody else deletes it.
LEMMA DelLoadInv ==
    ASSUME RegistryInv, NEW r \in Closer, deltransport(r)
    PROVE  /\ RegistryInv'
           /\ transports[NameOf[closer[r].t]] = closer[r].t
<1> USE RegistryAssumption
<1>1. Now \in Loaded
    BY DEF RegistryInv, TypeOK, Now, Loaded
<1>2. /\ closer[r].t \in Transport
      /\ transports[NameOf[closer[r].t]] = closer[r].t
    BY DEF RegistryInv, TypeOK, deltransport, MapExact, Added
<1>3. TypeOK'
  <2>1. closer' = [closer EXCEPT ![r] =
                       [pc |-> "cas", t |-> closer[r].t, old |-> Now]]
    BY <1>2 DEF deltransport
  <2>2. closer' \in [Closer -> [pc : {"idle", "load", "cas", "conn"},
                                t : Transport \cup {None}, old : Loaded]]
    BY <1>1, <1>2, <2>1 DEF RegistryInv, TypeOK
  <2> QED
    BY <1>2, <2>2 DEF RegistryInv, TypeOK, deltransport
<1>4. MapExact'
    BY DEF RegistryInv, deltransport, MapExact, Added
<1>5. \A s \in Closer :
        /\ closer'[s].t = closer[s].t
        /\ closer'[s].pc # "idle" => closer[s].pc # "idle"
        /\ closer'[s].pc \in {"load", "cas"} => closer[s].pc \in {"load", "cas"}
        /\ closer'[s].pc = "conn" => closer[s].pc = "conn"
    BY <1>2 DEF RegistryInv, TypeOK, deltransport
<1>6. \A s \in Closer : closer'[s].pc = "cas" =>
          /\ SnapshotCurrent(closer[s].old)'
          /\ closer'[s].old.map[NameOf[closer'[s].t]] # None
    BY <1>2 DEF RegistryInv, TypeOK, deltransport, SnapshotCurrent, Now
<1>7. \A s1, s2 \in Closer, u \in Transport :
          Deleting(s1, u)' /\ Deleting(s2, u)' => s1 = s2
    BY DEF RegistryInv, TypeOK, deltransport, Deleting
<1> QED
  <2>1. UNCHANGED <<version, transports, creator, killed, connclosed, deleted>>
    BY DEF deltransport
  <2>2. \A u \in Transport : creator[u].pc = "cas" =>
            SnapshotCurrent(creator[u].old)'
    BY <2>1 DEF RegistryInv, SnapshotCurrent
  <2> QED
    BY <1>2, <1>3, <1>4, <1>5, <1>6, <1>7, <2>1, <2>2 DEF RegistryInv

\* Its swap takes the closer's own transport off the map, and only that.
LEMMA DelSwap ==
    ASSUME RegistryInv, NEW r \in Closer, deltransportCAS(r)
    PROVE  /\ closer[r].t \in Transport
           /\ transports[NameOf[closer[r].t]] = closer[r].t
           /\ transports' = [transports EXCEPT ![NameOf[closer[r].t]] = None]
           /\ version' = version + 1
           /\ deleted' = deleted \cup {closer[r].t}
<1> USE RegistryAssumption
<1>1. /\ closer[r].t \in Transport
      /\ transports[NameOf[closer[r].t]] = closer[r].t
    BY DEF RegistryInv, TypeOK, deltransportCAS, MapExact, Added
<1> QED
    BY <1>1, SwapCurrent DEF RegistryInv, TypeOK, deltransportCAS

\* And preserves the invariant.
LEMMA DelSwapInv ==
    ASSUME RegistryInv, NEW r \in Closer, deltransportCAS(r)
    PROVE  RegistryInv'
<1> USE RegistryAssumption
<1> DEFINE t == closer[r].t
<1>1. /\ t \in Transport
      /\ transports[NameOf[t]] = t
      /\ transports' = [transports EXCEPT ![NameOf[t]] = None]
      /\ version' = version + 1
      /\ deleted' = deleted \cup {t}
    BY DelSwap
<1>2. /\ closer' = [closer EXCEPT ![r].pc = "conn"]
      /\ closer[r].pc = "cas"
      /\ UNCHANGED <<creator, killed, connclosed>>
    BY DEF deltransportCAS
<1> HIDE DEF t
<1>3. TypeOK'
  <2>1. transports' \in Map /\ version' \in Nat
    BY <1>1 DEF RegistryInv, TypeOK, Map
  <2>2. closer' \in [Closer -> [pc : {"idle", "load", "cas", "conn"},
                                t : Transport \cup {None}, old : Loaded]]
    BY <1>2 DEF RegistryInv, TypeOK
  <2> QED
    BY <1>1, <1>2, <2>1, <2>2 DEF RegistryInv, TypeOK
<1>4. MapExact'
    BY <1>1, <1>2 DEF RegistryInv, TypeOK, MapExact, Added, Map
<1>5. \A u \in Transport : creator'[u].pc = "cas" =>
          /\ SnapshotCurrent(creator[u].old)'
          /\ creator'[u].old.map[NameOf[u]] = None
    BY <1>1, <1>2 DEF RegistryInv, TypeOK, SnapshotCurrent, Loaded
<1>6. t \in killed
    BY <1>2 DEF RegistryInv, t
<1>7. \A s \in Closer : s # r => closer'[s] = closer[s]
    BY <1>2 DEF RegistryInv, TypeOK
<1>8. closer'[r].pc = "conn" /\ closer'[r].t = t
    BY <1>2 DEF RegistryInv, TypeOK, t
<1>9. \A s \in Closer : closer'[s].pc = "cas" =>
          /\ SnapshotCurrent(closer[s].old)'
          /\ closer'[s].old.map[NameOf[closer'[s].t]] # None
    BY <1>1, <1>7, <1>8
    DEF RegistryInv, TypeOK, SnapshotCurrent, Loaded
<1>10. ASSUME NEW s \in Closer, closer'[s].pc \in {"load", "cas"}
       PROVE  closer'[s].t \notin deleted'
  <2>1. s # r /\ closer'[s] = closer[s]
    BY <1>7, <1>8, <1>10
  <2>2. closer[s].t # t
    BY <1>1, <1>2, <1>10, <2>1 DEF RegistryInv, Deleting, t
  <2> QED
    BY <1>1, <1>10, <2>1, <2>2 DEF RegistryInv
<1>11. \A s1, s2 \in Closer, u \in Transport :
          Deleting(s1, u)' /\ Deleting(s2, u)' => s1 = s2
    BY <1>7, <1>8 DEF RegistryInv, Deleting
<1>12. \A s \in Closer :
          /\ closer'[s].pc # "idle" => closer'[s].t \in killed'
          /\ closer'[s].pc = "conn" => closer'[s].t \in deleted'
    BY <1>1, <1>2, <1>6, <1>7, <1>8 DEF RegistryInv
<1>13. \A u \in Transport :
          /\ u \in deleted' => u \in killed'
          /\ u \in killed' => creator'[u].pc = "created"
          /\ u \in connclosed' => u \in deleted'
    BY <1>1, <1>2, <1>6 DEF RegistryInv
<1> QED
    BY <1>3, <1>4, <1>5, <1>9, <1>10, <1>11, <1>12, <1>13 DEF RegistryInv

\* The remaining steps of Close() preserve it.
LEMMA FinishRestInv ==
    ASSUME RegistryInv, NEW r \in Closer,
           deltransportRetry(r) \/ CloseConn(r)
    PROVE  RegistryInv'
<1> USE RegistryAssumption
<1>1. TypeOK'
  <2>1. closer[r].t \in Transport
    BY DEF RegistryInv, TypeOK, deltransportRetry, CloseConn
  <2>2. closer' \in [Closer -> [pc : {"idle", "load", "cas", "conn"},
                                t : Transport \cup {None}, old : Loaded]]
    BY DEF RegistryInv, TypeOK, deltransportRetry, CloseConn
  <2> QED
    BY <2>1, <2>2 DEF RegistryInv, TypeOK, deltransportRetry, CloseConn
<1>2. MapExact'
    BY DEF RegistryInv, deltransportRetry, CloseConn, MapExact, Added
<1>3. \A s1, s2 \in Closer, u \in Transport :
          Deleting(s1, u)' /\ Deleting(s2, u)' => s1 = s2
    BY DEF RegistryInv, TypeOK, deltransportRetry, CloseConn, Deleting
<1>4. UNCHANGED <<version, transports, creator, killed, deleted>>
    BY DEF deltransportRetry, CloseConn
<1>5. \A s \in Closer :
        /\ closer'[s].t = closer[s].t /\ closer'[s].old = closer[s].old
        /\ closer'[s].pc # "idle" => closer[s].pc # "idle"
        /\ closer'[s].pc = "cas" => closer[s].pc = "cas"
        /\ closer'[s].pc \in {"load", "cas"} => closer[s].pc \in {"load", "cas"}
        /\ closer'[s].pc = "conn" => closer[s].pc = "conn"
    BY DEF RegistryInv, TypeOK, deltransportRetry, CloseConn
<1>6. \A u \in Transport : u \in connclosed' => u \in deleted'
    BY <1>4 DEF RegistryInv, TypeOK, deltransportRetry, CloseConn
<1>7. \A u \in Transport : creator[u].pc = "cas" =>
          SnapshotCurrent(creator[u].old)'
    BY <1>4 DEF RegistryInv, SnapshotCurrent
<1>8. \A s \in Closer : closer'[s].pc = "cas" =>
          SnapshotCurrent(closer[s].old)'
    BY <1>4, <1>5 DEF RegistryInv, SnapshotCurrent
<1> QED
    BY <1>1, <1>2, <1>3, <1>4, <1>5, <1>6, <1>7, <1>8 DEF RegistryInv

\* Every step preserves the invariant.
LEMMA NextInv == RegistryInv /\ [Next]_vars => RegistryInv'
<1> SUFFICES ASSUME RegistryInv, [Next]_vars
             PROVE  RegistryInv'
    OBVIOUS
<1>1. CASE UNCHANGED vars
    BY <1>1 DEF vars, RegistryInv, TypeOK, MapExact, Added, SnapshotCurrent,
                Deleting
<1>2. ASSUME NEW t \in Transport, Create(t) PROVE RegistryInv'
    BY <1>2, AddLoadInv, AddSwapInv, CreateRestInv DEF Create
<1>3. ASSUME NEW r \in Closer, NEW t \in Transport, Close(r, t)
      PROVE  RegistryInv'
    BY <1>3, CloseInv
<1>4. ASSUME NEW r \in Closer, Finish(r) PROVE RegistryInv'
    BY <1>4, DelLoadInv, DelSwapInv, FinishRestInv DEF Finish
<1> QED
    BY <1>1, <1>2, <1>3, <1>4 DEF Next

\* RegistryInv always holds: no interleaving of the load-copy-swap loops of
\* NewTransport() and Close() loses an update of the table.
THEOREM RegistryCorrect == Spec => []RegistryInv
<1>1. Init => RegistryInv
    BY InitInv
<1>2. RegistryInv /\ [Next]_vars => RegistryInv'
    BY NextInv
<1> QED
    BY <1>1, <1>2, PTL DEF Spec

\* A transport whose connection is closed is never listed.
THEOREM NeverListedClosed == Spec => []UnlistedWhenClosed
<1>1. RegistryInv => UnlistedWhenClosed
    BY RegistryAssumption
    DEF RegistryInv, TypeOK, MapExact, UnlistedWhenClosed, listtransports, Map
<1> QED
    BY <1>1, RegistryCorrect, PTL

-----------------------------------------------------------------------------
(* Refinement. *)

\* The initial state is one of the atomic table.
LEMMA InitAtomic == Init => Atomic!Init
BY DEF Init, Atomic!Init, status, StatusOf, Added

\* Every step is a step of the atomic table, or leaves it as it is.
LEMMA StepAtomic ==
    ASSUME RegistryInv, RegistryInv', [Next]_vars
    PROVE  [Atomic!Next]_<<transports, status>>
<1> USE RegistryAssumption
<1>0. CASE UNCHANGED vars
    BY <1>0 DEF vars, status, StatusOf, Added
<1>1. ASSUME NEW t \in Transport, addtransport(t)
      PROVE  [Atomic!Next]_<<transports, status>>
  <2>1. CASE transports[NameOf[t]] = None
    <3>1. status' = status
        BY <1>1, <2>1 DEF status, StatusOf, Added, addtransport, RegistryInv, TypeOK
    <3> QED
        BY <1>1, <3>1 DEF addtransport
  <2>2. CASE transports[NameOf[t]] # None
    <3>1. status[t] = "new"
        BY <1>1 DEF status, StatusOf, Added, addtransport, RegistryInv, TypeOK
    <3>2. status' = [status EXCEPT ![t] = "refused"]
        BY <1>1, <2>2 DEF status, StatusOf, Added, addtransport, RegistryInv, TypeOK
    <3>3. Atomic!Refuse(t)
        BY <1>1, <2>2, <3>1, <3>2 DEF Atomic!Refuse, addtransport
    <3> QED
        BY <3>3 DEF Atomic!Next
  <2> QED
    BY <2>1, <2>2
<1>2. ASSUME NEW t \in Transport, addtransportCAS(t)
      PROVE  [Atomic!Next]_<<transports, status>>
  <2>1. /\ transports[NameOf[t]] = None
        /\ transports' = [transports EXCEPT ![NameOf[t]] = t]
    BY <1>2, SwapCurrent DEF RegistryInv, TypeOK, addtransportCAS
  <2>2. t \notin deleted
    BY <1>2 DEF RegistryInv, addtransportCAS
  <2>3. status[t] = "new"
    BY <1>2, <2>2 DEF status, StatusOf, Added, addtransportCAS, RegistryInv, TypeOK
  <2>4. status' = [status EXCEPT ![t] = "listed"]
    <3>1. creator' = [creator EXCEPT ![t].pc = "listed"] /\ deleted' = deleted
        BY <1>2 DEF addtransportCAS
    <3>2. \A u \in Transport : StatusOf(u)' =
                IF u = t THEN "listed" ELSE StatusOf(u)
        BY <2>2, <3>1 DEF StatusOf, Added, RegistryInv, TypeOK
    <3> QED
        BY <3>2 DEF status
  <2>5. Atomic!Add(t)
    BY <2>1, <2>3, <2>4 DEF Atomic!Add
  <2> QED
    BY <2>5 DEF Atomic!Next
<1>3. ASSUME NEW t \in Transport, addtransportRetry(t) \/ NewTransport(t)
      PROVE  [Atomic!Next]_<<transports, status>>
  <2>1. status' = status
    BY <1>3 DEF status, StatusOf, Added, addtransportRetry, NewTransport, RegistryInv,
                TypeOK
  <2> QED
    BY <1>3, <2>1 DEF addtransportRetry, NewTransport
<1>4. ASSUME NEW r \in Closer, NEW t \in Transport, Close(r, t)
      PROVE  [Atomic!Next]_<<transports, status>>
    BY <1>4 DEF Close, status, StatusOf, Added
<1>5. ASSUME NEW r \in Closer, deltransport(r) \/ deltransportRetry(r)
                                 \/ CloseConn(r)
      PROVE  [Atomic!Next]_<<transports, status>>
    BY <1>5 DEF deltransport, deltransportRetry, CloseConn, status, StatusOf,
                Added
<1>6. ASSUME NEW r \in Closer, deltransportCAS(r)
      PROVE  [Atomic!Next]_<<transports, status>>
  <2> DEFINE t == closer[r].t
  <2>1. /\ t \in Transport
        /\ transports[NameOf[t]] = t
        /\ transports' = [transports EXCEPT ![NameOf[t]] = None]
        /\ deleted' = deleted \cup {t}
    BY <1>6, DelSwap
  <2>2. Added(t) /\ t \notin deleted
    BY <2>1 DEF RegistryInv, MapExact
  <2>3. status[t] = "listed"
    BY <2>1, <2>2 DEF status, StatusOf
  <2>4. status' = [status EXCEPT ![t] = "deleted"]
    BY <1>6, <2>1 DEF status, StatusOf, Added, deltransportCAS
  <2>5. Atomic!Delete(t)
    BY <2>1, <2>3, <2>4 DEF Atomic!Delete
  <2> QED
    BY <2>1, <2>5 DEF Atomic!Next
<1> QED
    BY <1>0, <1>1, <1>2, <1>3, <1>4, <1>5, <1>6 DEF Next, Create, Finish

\* The table implements the atomic one: each NewTransport() and Close() takes
\* effect on the map at a single moment.
THEOREM Refinement == Spec => ImplementsAtomic
<1>1. Init => Atomic!Init
    BY InitAtomic
<1>2. RegistryInv /\ RegistryInv' /\ [Next]_vars
          => [Atomic!Next]_<<transports, status>>
    BY StepAtomic
<1> QED
    BY <1>1, <1>2, RegistryCorrect, PTL DEF Spec, Atomic!Spec, ImplementsAtomic
=============================================================================
