---------------------------- MODULE MCHandshake -----------------------------
(***************************************************************************)
(* Instances of Handshake for TLC: ends of different versions, A with both *)
(* tags of the library and B with one; B does not know one tag of A's.     *)
(***************************************************************************)
EXTENDS Handshake, TLC

CONSTANTS gzip, lzw

MCVersionOf == PeerA :> 1 @@ PeerB :> 2
MCTagsOf == PeerA :> {gzip, lzw} @@ PeerB :> {gzip}
MCFactory == PeerA :> {gzip, lzw} @@ PeerB :> {gzip}
=============================================================================
