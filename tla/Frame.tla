------------------------------- MODULE Frame --------------------------------
(***************************************************************************)
(* Framing: how many bytes a frame takes when post(), request(), start(),  *)
(* stream(), response() or finish() writes it, and how many unframepkt()   *)
(* takes off the connection to read it.  The connection is a stream of     *)
(* bytes without boundaries: a reader that is off by one byte takes the    *)
(* next frame for garbage and closes the transport.                        *)
(*                                                                         *)
(* A frame is 4 bytes of framing, a CBOR byte string (the packet), and for *)
(* a finish one more byte.  The reader takes 9 bytes, which must hold the  *)
(* length of the packet and must not reach into the next frame, then the   *)
(* rest.  Bytes are counted; what they hold is left out.                   *)
(***************************************************************************)
EXTENDS Integers, Sequences

CONSTANTS
    BufferSize,     \* "buffersize" of the writing end
    PeerBuffer,     \* "buffersize" of the reading end
    Opaque,         \* opaques of the writing end
    DataLen,        \* lengths of encoded messages
    MaxFrame        \* bound: frames written

\* Tags that gofast may use as opaques: the others are taken by the IANA
\* registry or lie outside of it.
istagok(tag) ==
    \/ tag \in 266..1000
    \/ tag \in 1004..22097
    \/ tag \in 22099..55798
    \/ tag \in 55800..15309735

TagOpaqueStart == 266
TagOpaqueEnd == 15309735

\* setOpaqueRange(): a range that is not within the limits panics.
OpaquesOf(start, end) ==
    IF start < TagOpaqueStart \/ end > TagOpaqueEnd
    THEN {} ELSE {o \in start..end : istagok(o)}

ASSUME SizeAssumption ==
    /\ BufferSize \in Nat
    /\ PeerBuffer \in Nat
    /\ PeerBuffer >= BufferSize
    /\ \A o \in Opaque : o \in Nat /\ o >= TagOpaqueStart
    /\ DataLen \subseteq Nat
    /\ MaxFrame \in Nat

\* Opaques come from setOpaqueRange().  A length has a header of at most 5
\* bytes: one of 9 bytes would need a buffer of 4GB.
ASSUME RangeAssumption ==
    /\ \A o \in Opaque : o \in OpaquesOf(o, o)
    /\ BufferSize =< 2147483647

-----------------------------------------------------------------------------
(* What the writer puts on the connection. *)

\* Bytes of the CBOR header of value v: valuint642cbor() and, with another
\* major type, tag2cbor() and valbytes2cbor().
hdrlen(v) ==
    IF v < 24 THEN 1
    ELSE IF v < 256 THEN 2
    ELSE IF v < 65536 THEN 3
    ELSE 5

bytes2cbor(n) == hdrlen(n) + n

\* A message id is any uint64; only the size of its header matters.
IdLen == {1, 2, 3, 5, 9}

\* f.kind is finish or not; opaque, id and data are the parts of a packet.
FrameKind == {"message", "finish"}
Frames == [kind : FrameKind, opaque : Opaque, id : IdLen, data : DataLen]

\* framepkt(): tagMsg, mapStart, tagID, id, tagData, data, breakStop ...
msglen(f) == hdrlen(43) + 1 + hdrlen(44) + f.id + hdrlen(45)
                + bytes2cbor(f.data) + 1

\* ... rolled up under the opaque; the packet of a finish() is the opaque and
\* an empty byte string.
packetlen(f) ==
    hdrlen(f.opaque) + IF f.kind = "finish" THEN 1 ELSE bytes2cbor(msglen(f))

\* tagCborPrefix, the frame type, the packet and the 0xff of a finish.
framelen(f) ==
    4 + bytes2cbor(packetlen(f)) + IF f.kind = "finish" THEN 1 ELSE 0

-----------------------------------------------------------------------------

VARIABLES
    conn,       \* frames written, not yet read completely
    off,        \* bytes of Head(conn) that have been read
    rx,         \* unframepkt(): "prefix", "body", or "stopped" with doRx()
    ln, n,      \* its variables, when it reads the body
    nframe      \* frames written

vars == <<conn, off, rx, ln, n, nframe>>

Init ==
    /\ conn = <<>>
    /\ off = 0
    /\ rx = "prefix"
    /\ ln = 0
    /\ n = 0
    /\ nframe = 0

\* Mutant of Write: the writer's buffer grows to the size of the frame.
WriteGrows(f) ==
    /\ nframe < MaxFrame
    /\ nframe' = nframe + 1
    /\ conn' = Append(conn, f)
    /\ UNCHANGED <<off, rx, ln, n>>

\* A frame that does not fit the writer's buffer panics in the caller.
Write(f) ==
    /\ nframe < MaxFrame
    /\ framelen(f) =< BufferSize
    /\ nframe' = nframe + 1
    /\ conn' = Append(conn, f)
    /\ UNCHANGED <<off, rx, ln, n>>

\* cborItemLength() of pad[4:], the length of the packet.
itemlen(f) == packetlen(f)

\* Mutant of bodylen: the trailing 0xff is forgotten.
bodylenPlain(f) == itemlen(f)

bodylen(f) == itemlen(f) + IF f.kind = "finish" THEN 1 ELSE 0

\* Mutant of padlen: room for the longest header, 9 bytes after the prefix.
padlenLongest == 13

padlen == 9

\* io.ReadFull() of k bytes returns once they have arrived: the rest of the
\* frame has them, or a frame follows.
Arrived(k) ==
    /\ conn # <<>>
    /\ off + k =< framelen(Head(conn)) \/ Len(conn) > 1

\* unframepkt(), first read: the 9 bytes of pad.  Off the start of a frame
\* they have a wrong prefix, which ends doRx().
ReadPrefix ==
    LET f == Head(conn) IN
    /\ rx = "prefix"
    /\ Arrived(padlen)
    /\ off' = off + padlen
    /\ IF off = 0
       THEN /\ rx' = "body"
            /\ ln' = bodylen(f)
            /\ n' = padlen - 4 - hdrlen(itemlen(f))
       ELSE /\ rx' = "stopped"
            /\ UNCHANGED <<ln, n>>
    /\ UNCHANGED <<conn, nframe>>

\* Second read, packet[n:ln]; slicing panics unless n <= ln <= len(packet),
\* and doRx() recovers, closes the transport and exits.
ReadBody ==
    /\ rx = "body"
    /\ IF n =< ln /\ ln =< PeerBuffer
       THEN /\ Arrived(ln - n)
            /\ off' = off + (ln - n) - framelen(Head(conn))
            /\ conn' = Tail(conn)
            /\ rx' = "prefix"
       ELSE /\ rx' = "stopped"
            /\ UNCHANGED <<off, conn>>
    /\ UNCHANGED <<ln, n, nframe>>

Next == \/ \E f \in Frames : Write(f)
        \/ ReadPrefix
        \/ ReadBody

Spec == Init /\ [][Next]_vars

-----------------------------------------------------------------------------
(* Properties. *)

\* The reader never stops by itself and is at the start of a frame whenever it
\* expects one: writer and reader agree on the extent of every frame, at each
\* step of the header sizes (24, 256, 65536) and for the odd finish frame.
InSync == rx # "stopped" /\ (rx = "prefix" => off = 0)

\* The types of the variables, and what the reader knows of the frame that
\* it is reading: an inductive invariant that implies InSync.
FrameInv ==
    /\ conn \in Seq(Frames)
    /\ nframe \in Nat
    /\ off \in Int
    /\ ln \in Int
    /\ n \in Int
    /\ rx \in {"prefix", "body"}
    /\ \A i \in 1..Len(conn) : framelen(conn[i]) =< BufferSize
    /\ rx = "prefix" => off = 0
    /\ rx = "body" => /\ conn # <<>>
                      /\ off = padlen
                      /\ ln = bodylen(Head(conn))
                      /\ n = padlen - 4 - hdrlen(itemlen(Head(conn)))
=============================================================================
