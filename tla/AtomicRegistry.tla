--------------------------- MODULE AtomicRegistry ---------------------------
(***************************************************************************)
(* What the table of named transports promises: a name is taken and freed  *)
(* in one indivisible step, only by its own transport, and a transport is  *)
(* refused only while its name is taken.                                   *)
(***************************************************************************)
CONSTANTS
    Transport,      \* transports that may ever be created
    Name,           \* their names
    NameOf,         \* NameOf[t], the name given to NewTransport()
    None            \* no transport

VARIABLES
    reg,            \* reg[n]: the transport registered as n, or None
    status          \* status[t]: what became of transport t

Init ==
    /\ reg = [n \in Name |-> None]
    /\ status = [t \in Transport |-> "new"]

Add(t) ==
    /\ status[t] = "new"
    /\ reg[NameOf[t]] = None
    /\ reg' = [reg EXCEPT ![NameOf[t]] = t]
    /\ status' = [status EXCEPT ![t] = "listed"]

Refuse(t) ==
    /\ status[t] = "new"
    /\ reg[NameOf[t]] # None
    /\ status' = [status EXCEPT ![t] = "refused"]
    /\ UNCHANGED reg

Delete(t) ==
    /\ status[t] = "listed"
    /\ reg[NameOf[t]] = t
    /\ reg' = [reg EXCEPT ![NameOf[t]] = None]
    /\ status' = [status EXCEPT ![t] = "deleted"]

Next == \E t \in Transport : Add(t) \/ Refuse(t) \/ Delete(t)

Spec == Init /\ [][Next]_<<reg, status>>
=============================================================================
