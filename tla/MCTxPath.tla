------------------------------ MODULE MCTxPath ------------------------------
(***************************************************************************)
(* Instances of TxPath for TLC.                                            *)
(***************************************************************************)
EXTENDS TxPath, TLC

CONSTANTS c1, c2, ticker

K(a, f) == [api |-> a, flush |-> f]

\* Every way tx() can treat a packet, but for flushing without waiting; to
\* tx() a Stream() is a Request() without flush.
MCOpen == [c \in Caller |->
              {K("Request", FALSE),
               IF c = c1 THEN K("Request", TRUE) ELSE K("Post", FALSE)}]

\* One routine waits for its calls, the other does not.
MCPaired == [c \in Caller |-> IF c = c1 THEN {K("Stream", TRUE)}
                                        ELSE {K("Post", FALSE)}]
=============================================================================
