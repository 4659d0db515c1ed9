----------------------------- MODULE Handshake ------------------------------
(***************************************************************************)
(* Handshake() and the built-in messages whoami, ping and heartbeat        *)
(* between two ends.  Each end sends its version and tags in a whoami      *)
(* request, answers the other's, learns from the answer which tags to      *)
(* apply to what it sends, and polls xchngok until both have happened.     *)
(*                                                                         *)
(* Exchange shows that a response finds its request and TxPath that        *)
(* packets keep their order; here wire[p] is the sequence of packets on    *)
(* their way to the syncRx() of end p.  Closing a transport is left out.   *)
(***************************************************************************)
EXTENDS Integers, Sequences, SequencesExt

CONSTANTS
    PeerA, PeerB,
    Version,    \* values of a Version
    VersionOf,  \* VersionOf[p], the version given to NewTransport()
    Tag,        \* names of tags
    TagsOf,     \* TagsOf[p], setting "tags"; also the domain of tagdec
    Factory,    \* Factory[p], the domain of tagFactory in the program of p
    None,       \* no version
    EarlyBeat,  \* TRUE: SendHeartbeat() comes before Handshake()
    MaxAsk,     \* bound: Whoami() and Ping() calls of an application
    MaxBeat     \* bound: heartbeats of an end

Peer == {PeerA, PeerB}

\* NewTransport() rejects a tag without a factory.
ASSUME HandshakeAssumption ==
    /\ PeerA # PeerB
    /\ VersionOf \in [Peer -> Version]
    /\ None \notin Version
    /\ TagsOf \in [Peer -> SUBSET Tag]
    /\ Factory \in [Peer -> SUBSET Tag]
    /\ \A p \in Peer : TagsOf[p] \subseteq Factory[p]
    /\ EarlyBeat \in BOOLEAN
    /\ MaxAsk \in Nat
    /\ MaxBeat \in Nat

Other(p) == IF p = PeerA THEN PeerB ELSE PeerA

VARIABLES
    hs,         \* hs[p]: where Handshake() of end p is
    version,    \* the value of the object that t.version points to
    peerver,    \* [own |-> TRUE]: a pointer to that same object
    todo,       \* tags of the remote that Handshake() has yet to learn
    tagenc,     \* tags applied to what p sends
    xchngok,
    syncrx,     \* "loop", or "count": a whoami is answered, not yet counted
    wire,       \* wire[p]: packets on their way to p
    asking,     \* whether an application routine waits for a response
    nask, nbeat,
    crashed     \* ends whose process the Go runtime has ended

vars == <<hs, version, peerver, todo, tagenc, xchngok, syncrx, wire, asking,
          nask, nbeat, crashed>>

\* What peerver holds: nothing, the transport's own Version object, or one
\* that msghandler() has made.
Unset == [own |-> FALSE, ver |-> None]
Own == [own |-> TRUE, ver |-> None]
Fresh(v) == [own |-> FALSE, ver |-> v]

PacketType == {"whoami", "iam", "ping", "pong", "beat"}
Packet == [t : PacketType, ver : Version \cup {None}, tags : SUBSET Tag,
           enc : SUBSET Tag]

Init ==
    /\ hs = [p \in Peer |-> "new"]
    /\ version = VersionOf
    /\ peerver = [p \in Peer |-> Unset]
    /\ todo = [p \in Peer |-> {}]
    /\ tagenc = [p \in Peer |-> {}]
    /\ xchngok = [p \in Peer |-> 0]
    /\ syncrx = [p \in Peer |-> "loop"]
    /\ wire = [p \in Peer |-> <<>>]
    /\ asking = [p \in Peer |-> FALSE]
    /\ nask = [p \in Peer |-> 0]
    /\ nbeat = [p \in Peer |-> 0]
    /\ crashed = {}

-----------------------------------------------------------------------------
(* Framing. *)

\* newWhoami(), encoded: framepkt() never applies tagenc to a whoami.
newWhoami(p, t) == [t |-> t, ver |-> version[p], tags |-> TagsOf[p],
                    enc |-> {}]

\* Any other message is rolled up in the tags of tagenc.
framepkt(p, t) == [t |-> t, ver |-> None, tags |-> {}, enc |-> tagenc[p]]

\* Handshake() may be inside t.tagenc[tagid] = enc.
WritesTagenc(p) == hs[p] = "tags" /\ todo[p] \cap Factory[p] # {}

\* The runtime may find framepkt() iterating over a map that is written, and
\* ends the process.
MapRace(p) ==
    /\ WritesTagenc(p)
    /\ crashed' = crashed \cup {p}

-----------------------------------------------------------------------------
(* Handshake(). *)

\* go syncRx(): from here on this end reads and answers ...
Handshake(p) ==
    /\ hs[p] = "new"
    /\ hs' = [hs EXCEPT ![p] = "begun"]
    /\ UNCHANGED <<version, peerver, todo, tagenc, xchngok, syncrx, wire,
                   asking, nask, nbeat, crashed>>

\* ... and its own request of Whoami() comes later.
RequestWhoami(p) ==
    /\ hs[p] = "begun"
    /\ hs' = [hs EXCEPT ![p] = "wait"]
    /\ wire' = [wire EXCEPT ![Other(p)] = Append(@, newWhoami(p, "whoami"))]
    /\ UNCHANGED <<version, peerver, todo, tagenc, xchngok, syncrx, asking,
                   nask, nbeat, crashed>>

\* wai.version is the object that newWhoami() took from the transport.
StorePeerver(p) ==
    /\ hs[p] = "answered"
    /\ peerver' = [peerver EXCEPT ![p] = Own]
    /\ hs' = [hs EXCEPT ![p] = "tags"]
    /\ UNCHANGED <<version, todo, tagenc, xchngok, syncrx, wire, asking, nask,
                   nbeat, crashed>>

\* Mutant of Known: a tag without a factory is not skipped.
KnownAll(p, tag) == TRUE

Known(p, tag) == tag \in Factory[p]

\* One turn of the loop over wai.tags; an unknown tag is skipped.
LearnTag(p) ==
    \E tag \in todo[p] :
        /\ hs[p] = "tags"
        /\ todo' = [todo EXCEPT ![p] = @ \ {tag}]
        /\ tagenc' = IF Known(p, tag)
                     THEN [tagenc EXCEPT ![p] = @ \cup {tag}] ELSE tagenc
        /\ UNCHANGED <<hs, version, peerver, xchngok, syncrx, wire, asking,
                       nask, nbeat, crashed>>

CountOwn(p) ==
    /\ hs[p] = "tags"
    /\ todo[p] = {}
    /\ xchngok' = [xchngok EXCEPT ![p] = @ + 1]
    /\ hs' = [hs EXCEPT ![p] = "poll"]
    /\ UNCHANGED <<version, peerver, todo, tagenc, syncrx, wire, asking, nask,
                   nbeat, crashed>>

\* Mutant of Exchanged: one of the two exchanges is enough.
ExchangedOne(p) == xchngok[p] >= 1

Exchanged(p) == xchngok[p] >= 2

\* The polling loop ends.
Return(p) ==
    /\ hs[p] = "poll"
    /\ Exchanged(p)
    /\ hs' = [hs EXCEPT ![p] = "returned"]
    /\ UNCHANGED <<version, peerver, todo, tagenc, xchngok, syncrx, wire,
                   asking, nask, nbeat, crashed>>

-----------------------------------------------------------------------------
(* Other calls of the application. *)

Ask(p, k) ==
    /\ hs[p] = "returned"
    /\ ~asking[p]
    /\ nask[p] < MaxAsk
    /\ asking' = [asking EXCEPT ![p] = TRUE]
    /\ nask' = [nask EXCEPT ![p] = @ + 1]
    /\ wire' = [wire EXCEPT ![Other(p)] = Append(@, k)]
    /\ UNCHANGED <<hs, version, peerver, todo, tagenc, xchngok, syncrx, nbeat,
                   crashed>>

Whoami(p) == Ask(p, newWhoami(p, "whoami"))

Ping(p) == Ask(p, framepkt(p, "ping"))

\* A tick of SendHeartbeat(): Post() of a heartbeat.
SendHeartbeat(p) ==
    /\ EarlyBeat \/ hs[p] = "returned"
    /\ nbeat[p] < MaxBeat
    /\ nbeat' = [nbeat EXCEPT ![p] = @ + 1]
    /\ \/ /\ wire' = [wire EXCEPT ![Other(p)] =
                          Append(@, framepkt(p, "beat"))]
          /\ UNCHANGED crashed
       \/ /\ MapRace(p)
          /\ UNCHANGED wire
    /\ UNCHANGED <<hs, version, peerver, todo, tagenc, xchngok, syncrx, asking,
                   nask>>

-----------------------------------------------------------------------------
(* syncRx() and msghandler(). *)

\* doRx() has cut and decoded packet k, the first on its way to p; at a tag
\* that tagdec does not have it panics and reads no more.
Received(p, k) ==
    /\ hs[p] # "new"
    /\ syncrx[p] = "loop"
    /\ wire[p] # <<>>
    /\ k = Head(wire[p])
    /\ k.enc \subseteq TagsOf[p]

\* k is taken off, and the handler's answer r, if any, is transmitted.
Answer(p, r) ==
    wire' = [wire EXCEPT ![p] = Tail(@), ![Other(p)] = @ \o r]

\* A whoami: a Version of its own is filled and kept, and the answer sent.
msghandlerWhoami(p) ==
    LET k == Head(wire[p]) IN
    /\ Received(p, k)
    /\ k.t = "whoami"
    /\ peerver' = [peerver EXCEPT ![p] = Fresh(k.ver)]
    /\ Answer(p, <<newWhoami(p, "iam")>>)
    /\ syncrx' = [syncrx EXCEPT ![p] = "count"]
    /\ UNCHANGED <<hs, version, todo, tagenc, xchngok, asking, nask, nbeat,
                   crashed>>

\* Mutant of CountRemote: only Handshake() itself counts.
CountRemoteNot(p) ==
    /\ syncrx[p] = "count"
    /\ syncrx' = [syncrx EXCEPT ![p] = "loop"]
    /\ UNCHANGED <<hs, version, peerver, todo, tagenc, xchngok, wire, asking,
                   nask, nbeat, crashed>>

\* stream.Response() has returned without an error.
CountRemote(p) ==
    /\ syncrx[p] = "count"
    /\ syncrx' = [syncrx EXCEPT ![p] = "loop"]
    /\ xchngok' = [xchngok EXCEPT ![p] = @ + 1]
    /\ UNCHANGED <<hs, version, peerver, todo, tagenc, wire, asking, nask,
                   nbeat, crashed>>

msghandlerPing(p) ==
    LET k == Head(wire[p]) IN
    /\ Received(p, k)
    /\ k.t = "ping"
    /\ \/ /\ Answer(p, <<framepkt(p, "pong")>>)
          /\ UNCHANGED crashed
       \/ /\ MapRace(p)
          /\ Answer(p, <<>>)
    /\ UNCHANGED <<hs, version, peerver, todo, tagenc, xchngok, syncrx, asking,
                   nask, nbeat>>

\* aliveat and nRxbeats, which nothing here reads.
msghandlerHeartbeat(p) ==
    LET k == Head(wire[p]) IN
    /\ Received(p, k)
    /\ k.t = "beat"
    /\ Answer(p, <<>>)
    /\ UNCHANGED <<hs, version, peerver, todo, tagenc, xchngok, syncrx, asking,
                   nask, nbeat, crashed>>

\* Mutant of DecodedTags: resp keeps the tags that newWhoami() gave it.
DecodedTagsOwn(p, k) == TagsOf[p]

DecodedTags(p, k) == k.tags

\* The callback of a Request() decodes the response: that of Whoami() into
\* resp, whose version is t.version itself.
Decode(p) ==
    LET k == Head(wire[p]) IN
    /\ Received(p, k)
    /\ k.t \in {"iam", "pong"}
    /\ version' = IF k.t = "iam" THEN [version EXCEPT ![p] = k.ver]
                  ELSE version
    /\ \/ /\ hs[p] = "wait"
          /\ hs' = [hs EXCEPT ![p] = "answered"]
          /\ todo' = [todo EXCEPT ![p] = DecodedTags(p, k)]
          /\ UNCHANGED asking
       \/ /\ hs[p] # "wait"
          /\ asking' = [asking EXCEPT ![p] = FALSE]
          /\ UNCHANGED <<hs, todo>>
    /\ Answer(p, <<>>)
    /\ UNCHANGED <<peerver, tagenc, xchngok, syncrx, nask, nbeat, crashed>>

-----------------------------------------------------------------------------

Proceed(p) == \/ RequestWhoami(p)
              \/ StorePeerver(p)
              \/ LearnTag(p)
              \/ CountOwn(p)
              \/ Return(p)

syncRx(p) == \/ msghandlerWhoami(p)
             \/ CountRemote(p)
             \/ msghandlerPing(p)
             \/ msghandlerHeartbeat(p)
             \/ Decode(p)

Application(p) == \/ Handshake(p)
                  \/ Whoami(p)
                  \/ Ping(p)
                  \/ SendHeartbeat(p)

Next == \E p \in Peer \ crashed :
            Application(p) \/ Proceed(p) \/ syncRx(p)

Spec == Init /\ [][Next]_vars

\* The routines of both processes run, and the connection delivers.  Nobody
\* has to call anything.
FairSpec ==
    /\ Spec
    /\ \A p \in Peer : /\ WF_vars(p \notin crashed /\ Proceed(p))
                       /\ WF_vars(p \notin crashed /\ syncRx(p))

-----------------------------------------------------------------------------
(* Properties. *)

\* The types of the variables; an encoder is known for every tag of tagenc.
TypeOK ==
    /\ hs \in [Peer -> {"new", "begun", "wait", "answered", "tags", "poll",
                        "returned"}]
    /\ version \in [Peer -> Version]
    /\ peerver \in [Peer -> [own : BOOLEAN, ver : Version \cup {None}]]
    /\ todo \in [Peer -> SUBSET Tag]
    /\ tagenc \in [Peer -> SUBSET Tag]
    /\ \A p \in Peer : tagenc[p] \subseteq Factory[p]
    /\ xchngok \in [Peer -> Nat]
    /\ syncrx \in [Peer -> {"loop", "count"}]
    /\ wire \in [Peer -> Seq(Packet)]
    /\ asking \in [Peer -> BOOLEAN]
    /\ nask \in [Peer -> 0..MaxAsk]
    /\ nbeat \in [Peer -> 0..MaxBeat]
    /\ crashed \in SUBSET Peer

\* Whatever is sent, at whatever moment of either handshake, the receiver's
\* tagdec has a decoder for each of its tags.
Decodable ==
    \A p \in Peer : \A i \in DOMAIN wire[p] : wire[p][i].enc \subseteq TagsOf[p]

\* When Handshake() returns, this end applies all of the remote's tags that it
\* knows, and the remote's own Handshake() has been answered: the answer is
\* received or on its way.
Acquainted ==
    \A p \in Peer : hs[p] = "returned" =>
        LET q == Other(p) IN
        /\ tagenc[p] = TagsOf[q] \cap Factory[p]
        /\ hs[q] \notin {"new", "begun"}
        /\ hs[q] = "wait" => \E k \in ToSet(wire[q]) : k.t = "iam"

\* Handshake() returns on both ends once both have called it, unless one of
\* the processes ends.
HandshakesReturn ==
    (\A p \in Peer : hs[p] # "new")
        ~> (\A p \in Peer : hs[p] = "returned") \/ crashed # {}

PeerVersion(p) == IF peerver[p].own THEN version[p] ELSE peerver[p].ver

\* After Handshake() PeerVersion() is the version the remote was created with.
PeerVersionRight ==
    \A p \in Peer : hs[p] = "returned" => PeerVersion(p) = VersionOf[Other(p)]
=============================================================================
