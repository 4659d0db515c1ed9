--------------------------- MODULE HandshakeProofs --------------------------
(***************************************************************************)
(* For any versions, tags and factories, what either end sends can be      *)
(* decoded by the other, before, during and after the handshakes, and an   *)
(* end whose Handshake() returns has the remote's tags and has answered    *)
(* its whoami.                                                             *)
(***************************************************************************)
EXTENDS Handshake, TLAPS

\* The packets that may be on their way to p: a whoami, or the answer to one,
\* describes the other end, and only tags of p's own are applied.
Good(p) == {k \in Packet : /\ k.t \in {"whoami", "iam"} => k.ver \in Version
                           /\ k.tags \subseteq TagsOf[Other(p)]
                           /\ k.enc \subseteq TagsOf[p]}

\* TypeOK, and: tags are learnt only from the other end's settings.
TagInv ==
    /\ TypeOK
    /\ \A p \in Peer : /\ todo[p] \subseteq TagsOf[Other(p)]
                       /\ tagenc[p] \subseteq TagsOf[Other(p)]
                       /\ wire[p] \in Seq(Good(p))

\* The two ends.
LEMMA Ends ==
    ASSUME NEW p \in Peer
    PROVE  /\ Other(p) \in Peer
           /\ Other(p) # p
           /\ Other(Other(p)) = p
           /\ \A q \in Peer : q = p \/ q = Other(p)
BY HandshakeAssumption DEF Peer, Other

\* newWhoami() and framepkt() make packets that the other end may get.
LEMMA Framed ==
    ASSUME TagInv, NEW p \in Peer, NEW t \in PacketType
    PROVE  /\ newWhoami(p, t) \in Good(Other(p))
           /\ t \notin {"whoami", "iam"} => framepkt(p, t) \in Good(Other(p))
<1>1. /\ version[p] \in Version
      /\ TagsOf[p] \in SUBSET Tag
      /\ tagenc[p] \in SUBSET Tag
      /\ tagenc[p] \subseteq TagsOf[Other(p)]
    BY HandshakeAssumption DEF TagInv, TypeOK
<1>2. newWhoami(p, t) \in Packet /\ framepkt(p, t) \in Packet
    BY <1>1 DEF newWhoami, framepkt, Packet
<1>3. /\ newWhoami(p, t).tags = TagsOf[p] /\ newWhoami(p, t).enc = {}
      /\ newWhoami(p, t).ver = version[p] /\ framepkt(p, t).t = t
      /\ framepkt(p, t).tags = {} /\ framepkt(p, t).enc = tagenc[p]
    BY DEF newWhoami, framepkt
<1> QED
    BY <1>1, <1>2, <1>3, Ends DEF Good

\* Sending keeps the packets on their way good ...
LEMMA SendGood ==
    ASSUME TagInv, NEW p \in Peer, NEW k \in Good(Other(p)),
           wire' = [wire EXCEPT ![Other(p)] = Append(@, k)]
    PROVE  /\ wire' \in [Peer -> Seq(Packet)]
           /\ \A q \in Peer : wire'[q] \in Seq(Good(q))
<1>1. /\ wire \in [Peer -> Seq(Packet)]
      /\ \A q \in Peer : wire[q] \in Seq(Good(q))
    BY DEF TagInv, TypeOK
<1>2. Other(p) \in Peer /\ k \in Packet
    BY Ends DEF Good
<1>3. /\ Append(wire[Other(p)], k) \in Seq(Good(Other(p)))
      /\ Append(wire[Other(p)], k) \in Seq(Packet)
    BY <1>1, <1>2
<1> QED
    BY <1>1, <1>2, <1>3

\* ... and so does taking a packet and answering it, or not.
LEMMA AnswerGood ==
    ASSUME TagInv, NEW p \in Peer, wire[p] # <<>>, NEW r,
           r \in Seq(Good(Other(p))), Answer(p, r)
    PROVE  /\ wire' \in [Peer -> Seq(Packet)]
           /\ \A q \in Peer : wire'[q] \in Seq(Good(q))
<1>1. /\ wire \in [Peer -> Seq(Packet)]
      /\ \A q \in Peer : wire[q] \in Seq(Good(q))
    BY DEF TagInv, TypeOK
<1>2. Other(p) \in Peer /\ Other(p) # p
    BY Ends
<1>3. r \in Seq(Packet)
    BY DEF Good
<1>4. /\ Tail(wire[p]) \in Seq(Good(p))
      /\ Tail(wire[p]) \in Seq(Packet)
    BY <1>1
<1>5. /\ wire[Other(p)] \o r \in Seq(Good(Other(p)))
      /\ wire[Other(p)] \o r \in Seq(Packet)
    BY <1>1, <1>2, <1>3
<1>6. wire' = [wire EXCEPT ![p] = Tail(@), ![Other(p)] = @ \o r]
    BY DEF Answer
<1> QED
    BY <1>1, <1>2, <1>4, <1>5, <1>6

\* What an invariant step has to show when the wire is known to be good.
LEMMA Combine ==
    ASSUME TypeOK',
           \A p \in Peer : /\ todo'[p] \subseteq TagsOf[Other(p)]
                           /\ tagenc'[p] \subseteq TagsOf[Other(p)],
           \A p \in Peer : wire'[p] \in Seq(Good(p))
    PROVE  TagInv'
BY DEF TagInv, Good

\* The calls of the application preserve the invariant.
LEMMA ApplicationInv ==
    ASSUME TagInv, NEW p \in Peer, Application(p)
    PROVE  TagInv'
<1> USE HandshakeAssumption
<1>0. UNCHANGED <<todo, tagenc>>
    BY DEF Application, Handshake, Whoami, Ping, Ask, SendHeartbeat
<1>1. /\ wire' \in [Peer -> Seq(Packet)]
      /\ \A q \in Peer : wire'[q] \in Seq(Good(q))
  <2>1. CASE UNCHANGED wire
    BY <2>1 DEF TagInv, TypeOK
  <2>2. ASSUME NEW k \in Good(Other(p)),
               wire' = [wire EXCEPT ![Other(p)] = Append(@, k)]
        PROVE  /\ wire' \in [Peer -> Seq(Packet)]
               /\ \A q \in Peer : wire'[q] \in Seq(Good(q))
    BY <2>2, SendGood
  <2>3. \/ UNCHANGED wire
        \/ \E k \in {newWhoami(p, "whoami"), framepkt(p, "ping"),
                     framepkt(p, "beat")} :
               wire' = [wire EXCEPT ![Other(p)] = Append(@, k)]
    BY DEF Application, Handshake, Whoami, Ping, Ask, SendHeartbeat
  <2>4. {newWhoami(p, "whoami"), framepkt(p, "ping"), framepkt(p, "beat")}
            \subseteq Good(Other(p))
    BY Framed DEF PacketType
  <2> QED
    BY <2>1, <2>2, <2>3, <2>4
<1>2. TypeOK'
  <2>1. CASE Handshake(p)
    BY <2>1, <1>1 DEF Handshake, TagInv, TypeOK
  <2>2. CASE Whoami(p) \/ Ping(p)
    <3>1. /\ asking' = [asking EXCEPT ![p] = TRUE]
          /\ nask[p] < MaxAsk
          /\ nask' = [nask EXCEPT ![p] = @ + 1]
          /\ UNCHANGED <<hs, version, peerver, todo, tagenc, xchngok, syncrx,
                         nbeat, crashed>>
      BY <2>2 DEF Whoami, Ping, Ask
    <3>2. asking' \in [Peer -> BOOLEAN] /\ nask' \in [Peer -> 0..MaxAsk]
      BY <3>1 DEF TagInv, TypeOK
    <3> QED
      BY <1>1, <3>1, <3>2 DEF TagInv, TypeOK
  <2>3. CASE SendHeartbeat(p)
    <3>1. /\ nbeat[p] < MaxBeat
          /\ nbeat' = [nbeat EXCEPT ![p] = @ + 1]
          /\ crashed' = crashed \/ crashed' = crashed \cup {p}
          /\ UNCHANGED <<hs, version, peerver, todo, tagenc, xchngok, syncrx,
                         asking, nask>>
      BY <2>3 DEF SendHeartbeat, MapRace
    <3>2. nbeat' \in [Peer -> 0..MaxBeat] /\ crashed' \in SUBSET Peer
      BY <3>1 DEF TagInv, TypeOK
    <3> QED
      BY <1>1, <3>1, <3>2 DEF TagInv, TypeOK
  <2> QED
    BY <2>1, <2>2, <2>3 DEF Application
<1> QED
    BY <1>0, <1>1, <1>2, Combine DEF TagInv

\* So do the steps of Handshake(): it learns from todo only.
LEMMA ProceedInv ==
    ASSUME TagInv, NEW p \in Peer, Proceed(p)
    PROVE  TagInv'
<1> USE HandshakeAssumption
<1>1. CASE RequestWhoami(p)
  <2>1. newWhoami(p, "whoami") \in Good(Other(p))
    BY Framed DEF PacketType
  <2>2. /\ wire' \in [Peer -> Seq(Packet)]
        /\ \A q \in Peer : wire'[q] \in Seq(Good(q))
    BY <1>1, <2>1, SendGood DEF RequestWhoami
  <2>3. TypeOK'
    BY <1>1, <2>2 DEF RequestWhoami, TagInv, TypeOK
  <2> QED
    BY <1>1, <2>2, <2>3, Combine DEF RequestWhoami, TagInv
<1>2. CASE LearnTag(p)
  <2>1. PICK tag \in todo[p] :
            /\ todo' = [todo EXCEPT ![p] = @ \ {tag}]
            /\ tagenc' = IF tag \in Factory[p]
                         THEN [tagenc EXCEPT ![p] = @ \cup {tag}] ELSE tagenc
    BY <1>2 DEF LearnTag, Known
  <2>2. tag \in TagsOf[Other(p)] /\ tag \in Tag
    BY <2>1 DEF TagInv, TypeOK
  <2>3. /\ todo' \in [Peer -> SUBSET Tag]
        /\ tagenc' \in [Peer -> SUBSET Tag]
        /\ \A q \in Peer : /\ tagenc'[q] \subseteq Factory[q]
                           /\ todo'[q] \subseteq TagsOf[Other(q)]
                           /\ tagenc'[q] \subseteq TagsOf[Other(q)]
    BY <2>1, <2>2 DEF TagInv, TypeOK
  <2>4. UNCHANGED <<hs, version, peerver, xchngok, syncrx, wire, asking, nask,
                    nbeat, crashed>>
    BY <1>2 DEF LearnTag
  <2>5. TypeOK'
    BY <2>3, <2>4 DEF TagInv, TypeOK
  <2> QED
    BY <2>3, <2>4, <2>5, Combine DEF TagInv
<1>3. CASE StorePeerver(p) \/ CountOwn(p) \/ Return(p)
  <2>1. UNCHANGED <<todo, tagenc, wire>>
    BY <1>3 DEF StorePeerver, CountOwn, Return
  <2>2. TypeOK'
    <3>1. CASE StorePeerver(p)
      BY <3>1 DEF StorePeerver, Own, TagInv, TypeOK
    <3>2. CASE CountOwn(p)
      BY <3>2 DEF CountOwn, TagInv, TypeOK
    <3>3. CASE Return(p)
      BY <3>3 DEF Return, TagInv, TypeOK
    <3> QED
      BY <1>3, <3>1, <3>2, <3>3
  <2> QED
    BY <2>1, <2>2, Combine DEF TagInv
<1> QED
    BY <1>1, <1>2, <1>3 DEF Proceed

\* And so do the handlers: a response tells of the other end's tags.
LEMMA syncRxInv ==
    ASSUME TagInv, NEW p \in Peer, syncRx(p)
    PROVE  TagInv'
<1> USE HandshakeAssumption
<1>1. CASE CountRemote(p)
  <2>1. TypeOK'
    BY <1>1 DEF CountRemote, TagInv, TypeOK
  <2> QED
    BY <1>1, <2>1, Combine DEF CountRemote, TagInv
<1> DEFINE k == Head(wire[p])
<1>2. wire[p] # <<>> => k \in Good(p) /\ k \in Packet
  <2>1. wire[p] \in Seq(Good(p))
    BY DEF TagInv
  <2>2. wire[p] # <<>> => k \in Good(p)
    BY <2>1
  <2> QED
    BY <2>2 DEF Good
<1>3. CASE msghandlerWhoami(p)
  <2>1. <<newWhoami(p, "iam")>> \in Seq(Good(Other(p)))
    BY Framed DEF PacketType
  <2>2. /\ wire' \in [Peer -> Seq(Packet)]
        /\ \A q \in Peer : wire'[q] \in Seq(Good(q))
    BY <1>3, <2>1, AnswerGood DEF msghandlerWhoami, Received
  <2>3. k.ver \in Version \cup {None}
    BY <1>2, <1>3 DEF msghandlerWhoami, Received, Packet
  <2>4. TypeOK'
    BY <1>3, <2>2, <2>3 DEF msghandlerWhoami, Fresh, TagInv, TypeOK
  <2> QED
    BY <1>3, <2>2, <2>4, Combine DEF msghandlerWhoami, TagInv
<1>4. CASE msghandlerPing(p) \/ msghandlerHeartbeat(p)
  <2>1. /\ <<framepkt(p, "pong")>> \in Seq(Good(Other(p)))
        /\ <<>> \in Seq(Good(Other(p)))
    BY Framed DEF PacketType
  <2>2. /\ wire' \in [Peer -> Seq(Packet)]
        /\ \A q \in Peer : wire'[q] \in Seq(Good(q))
    BY <1>4, <2>1, AnswerGood DEF msghandlerPing, msghandlerHeartbeat, Received
  <2>3. TypeOK'
    BY <1>4, <2>2
    DEF msghandlerPing, msghandlerHeartbeat, MapRace, TagInv, TypeOK
  <2> QED
    BY <1>4, <2>2, <2>3, Combine
    DEF msghandlerPing, msghandlerHeartbeat, TagInv
<1>5. CASE Decode(p)
  <2>1. /\ wire[p] # <<>>
        /\ k.t \in {"iam", "pong"}
        /\ Answer(p, <<>>)
        /\ version' = IF k.t = "iam" THEN [version EXCEPT ![p] = k.ver]
                      ELSE version
        /\ \/ /\ hs' = [hs EXCEPT ![p] = "answered"]
              /\ todo' = [todo EXCEPT ![p] = k.tags]
              /\ UNCHANGED asking
           \/ /\ asking' = [asking EXCEPT ![p] = FALSE]
              /\ UNCHANGED <<hs, todo>>
        /\ UNCHANGED <<peerver, tagenc, xchngok, syncrx, nask, nbeat, crashed>>
    BY <1>5 DEF Decode, Received, DecodedTags
  <2>2. /\ wire' \in [Peer -> Seq(Packet)]
        /\ \A q \in Peer : wire'[q] \in Seq(Good(q))
    <3>1. <<>> \in Seq(Good(Other(p)))
      OBVIOUS
    <3> QED
      BY <2>1, <3>1, AnswerGood
  <2>3. /\ k.tags \in SUBSET Tag
        /\ k.tags \subseteq TagsOf[Other(p)]
        /\ k.t = "iam" => k.ver \in Version
    BY <1>2, <2>1 DEF Good, Packet
  <2> HIDE DEF k
  <2>4. /\ todo' \in [Peer -> SUBSET Tag]
        /\ \A q \in Peer : todo'[q] \subseteq TagsOf[Other(q)]
    BY <2>1, <2>3 DEF TagInv, TypeOK
  <2>5. version' \in [Peer -> Version]
    BY <2>1, <2>3 DEF TagInv, TypeOK
  <2>6. TypeOK'
    BY <2>1, <2>2, <2>4, <2>5 DEF TagInv, TypeOK
  <2> QED
    BY <2>1, <2>2, <2>4, <2>6, Combine DEF TagInv
<1> QED
    BY <1>1, <1>3, <1>4, <1>5 DEF syncRx

\* Every step preserves the invariant.
LEMMA NextInv == TagInv /\ [Next]_vars => TagInv'
<1> SUFFICES ASSUME TagInv, [Next]_vars
             PROVE  TagInv'
    OBVIOUS
<1>1. CASE UNCHANGED vars
    BY <1>1 DEF vars, TagInv, TypeOK, Good
<1>2. CASE Next
    BY <1>2, ApplicationInv, ProceedInv, syncRxInv DEF Next
<1> QED
    BY <1>1, <1>2

\* The invariant holds when both transports are created.
LEMMA InitInv == Init => TagInv
<1> SUFFICES ASSUME Init
             PROVE  TagInv
    OBVIOUS
<1> USE HandshakeAssumption
<1>1. TypeOK
    BY DEF Init, TypeOK, Unset
<1>2. \A p \in Peer : /\ todo[p] \subseteq TagsOf[Other(p)]
                      /\ tagenc[p] \subseteq TagsOf[Other(p)]
                      /\ wire[p] \in Seq(Good(p))
    BY DEF Init
<1> QED
    BY <1>1, <1>2 DEF TagInv

\* Type correctness of the handshake; tagenc has only tags with an encoder.
THEOREM TypeCorrect == Spec => []TypeOK
<1>1. TagInv => TypeOK
    BY DEF TagInv
<1> QED
    BY <1>1, InitInv, NextInv, PTL DEF Spec

\* doRx() never meets a tag that its tagdec lacks: what framepkt() rolls up
\* at one end can be taken apart at the other, at every moment of both
\* handshakes and whatever tags the ends are configured with or know.
THEOREM AlwaysDecodable == Spec => []Decodable
<1>1. TagInv => Decodable
  <2> SUFFICES ASSUME TagInv, NEW p \in Peer, NEW i \in DOMAIN wire[p]
               PROVE  wire[p][i].enc \subseteq TagsOf[p]
    BY DEF Decodable
  <2>1. wire[p] \in Seq(Good(p))
    BY DEF TagInv
  <2>2. wire[p][i] \in Good(p)
    BY <2>1
  <2> QED
    BY <2>2 DEF Good
<1> QED
    BY <1>1, InitInv, NextInv, PTL DEF Spec

-----------------------------------------------------------------------------
(* Both ends are acquainted when Handshake() returns. *)

\* What a packet k on its way to p tells when h is hs: only an end that
\* has returned from Handshake() pings, and only one that has requested a
\* whoami has sent one.
Tells(h, p, k) ==
    /\ k.t = "iam" => k.tags = TagsOf[Other(p)]
    /\ k.t = "pong" => h[p] = "returned"
    /\ k.t = "ping" => h[Other(p)] = "returned"
    /\ k.t = "whoami" => h[Other(p)] \notin {"new", "begun"}

\* The tags of the remote that p knows are learnt or still to be learnt.
Learns(p) ==
    /\ hs[p] = "answered" => todo[p] = TagsOf[Other(p)]
    /\ hs[p] = "tags" =>
           TagsOf[Other(p)] \cap Factory[p] \subseteq todo[p] \cup tagenc[p]
    /\ hs[p] \in {"poll", "returned"} =>
           TagsOf[Other(p)] \cap Factory[p] \subseteq tagenc[p]

\* p has answered a whoami of the remote: it is about to count it, or xchngok
\* is more than what Handshake() itself has counted.
Answered(p) ==
    \/ syncrx[p] = "count"
    \/ xchngok[p] > IF hs[p] \in {"poll", "returned"} THEN 1 ELSE 0

\* Then the remote has requested it, and has the answer or will get it.
Greeted(p) ==
    Answered(p) =>
        /\ hs[Other(p)] \notin {"new", "begun"}
        /\ hs[Other(p)] = "wait" =>
               \E k \in ToSet(wire[Other(p)]) : k.t = "iam"

AcqInv ==
    \A p \in Peer : /\ \A k \in ToSet(wire[p]) : Tells(hs, p, k)
                    /\ Learns(p)
                    /\ hs[p] = "returned" => Exchanged(p)
                    /\ Greeted(p)

\* What an append and a concatenation do to the packets of a sequence ...
LEMMA CatSet ==
    ASSUME NEW S, NEW s \in Seq(S), NEW t \in Seq(S)
    PROVE  ToSet(s \o t) = ToSet(s) \cup ToSet(t)
<1> DEFINE u == s \o t
           m == Len(s)
           n == Len(t)
<1>1. /\ m \in Nat /\ n \in Nat /\ DOMAIN s = 1..m /\ DOMAIN t = 1..n
      /\ DOMAIN u = 1..(m + n)
    OBVIOUS
<1>2. \A i \in 1..m : u[i] = s[i]
    OBVIOUS
<1>3. \A i \in 1..n : u[m + i] = t[i]
    OBVIOUS
<1>4. \A i \in (m + 1)..(m + n) : u[i] = t[i - m]
    OBVIOUS
<1> HIDE DEF u, m, n
<1>5. ToSet(u) \subseteq ToSet(s) \cup ToSet(t)
  <2>1. ASSUME NEW i \in 1..(m + n)
        PROVE  u[i] \in ToSet(s) \cup ToSet(t)
    <3>1. CASE i \in 1..m
      BY <1>1, <1>2, <3>1 DEF ToSet
    <3>2. CASE i \notin 1..m
      <4>1. i \in (m + 1)..(m + n) /\ i - m \in 1..n
        BY <1>1, <3>2
      <4> QED
        BY <1>1, <1>4, <4>1 DEF ToSet
    <3> QED
      BY <3>1, <3>2
  <2> QED
    BY <1>1, <2>1 DEF ToSet
<1>6. /\ \A i \in 1..m : i \in 1..(m + n)
      /\ \A i \in 1..n : m + i \in 1..(m + n)
    BY <1>1
<1>7. ToSet(s) \subseteq ToSet(u)
    BY <1>1, <1>2, <1>6 DEF ToSet
<1>8. ToSet(t) \subseteq ToSet(u)
    BY <1>1, <1>3, <1>6 DEF ToSet
<1> QED
    BY <1>5, <1>7, <1>8 DEF u

\* ... and what taking the first one does.
LEMMA TailSet ==
    ASSUME NEW S, NEW s \in Seq(S), s # <<>>
    PROVE  ToSet(s) = {Head(s)} \cup ToSet(Tail(s))
<1>1. /\ <<Head(s)>> \in Seq(S) /\ Tail(s) \in Seq(S)
      /\ s = <<Head(s)>> \o Tail(s)
    OBVIOUS
<1>2. ToSet(<<Head(s)>>) = {Head(s)}
    BY DEF ToSet
<1>3. ToSet(<<Head(s)>> \o Tail(s)) = ToSet(<<Head(s)>>) \cup ToSet(Tail(s))
    BY <1>1, CatSet
<1> QED
    BY <1>1, <1>2, <1>3, Zenon

\* A packet is sent.
LEMMA WireSent ==
    ASSUME TagInv, NEW p \in Peer, NEW k \in Packet,
           wire' = [wire EXCEPT ![Other(p)] = Append(@, k)]
    PROVE  /\ ToSet(wire'[Other(p)]) = ToSet(wire[Other(p)]) \cup {k}
           /\ wire'[p] = wire[p]
<1>1. /\ Other(p) \in Peer /\ Other(p) # p
      /\ wire \in [Peer -> Seq(Packet)]
    BY Ends DEF TagInv, TypeOK
<1>2. /\ wire'[Other(p)] = Append(wire[Other(p)], k)
      /\ wire'[p] = wire[p]
    BY <1>1
<1>3. /\ Append(wire[Other(p)], k) = wire[Other(p)] \o <<k>>
      /\ wire[Other(p)] \in Seq(Packet) /\ <<k>> \in Seq(Packet)
    BY <1>1
<1>4. ToSet(<<k>>) = {k}
    BY DEF ToSet
<1>5. ToSet(wire[Other(p)] \o <<k>>) = ToSet(wire[Other(p)]) \cup ToSet(<<k>>)
    BY <1>3, CatSet
<1> QED
    BY <1>2, <1>3, <1>4, <1>5, Zenon

\* A packet is taken and answered by r, or by nothing.
LEMMA WireTaken ==
    ASSUME TagInv, NEW p \in Peer, wire[p] # <<>>, NEW r \in Seq(Packet),
           Answer(p, r)
    PROVE  /\ Head(wire[p]) \in Packet
           /\ ToSet(wire[p]) = {Head(wire[p])} \cup ToSet(wire'[p])
           /\ ToSet(wire'[Other(p)]) = ToSet(wire[Other(p)]) \cup ToSet(r)
<1>1. /\ Other(p) \in Peer /\ Other(p) # p
      /\ wire \in [Peer -> Seq(Packet)]
    BY Ends DEF TagInv, TypeOK
<1>2. /\ wire'[Other(p)] = wire[Other(p)] \o r
      /\ wire'[p] = Tail(wire[p])
    BY <1>1 DEF Answer
<1>3. wire[Other(p)] \in Seq(Packet) /\ wire[p] \in Seq(Packet)
    BY <1>1
<1>4. Head(wire[p]) \in Packet
    BY <1>3
<1> QED
    BY <1>2, <1>3, <1>4, CatSet, TailSet

\* Handshake() never goes back.
LEMMA Onward ==
    ASSUME TagInv, NEW p \in Peer, Application(p) \/ Proceed(p) \/ syncRx(p)
    PROVE  \A x \in Peer :
               /\ hs[x] = "returned" => hs'[x] = "returned"
               /\ hs[x] \notin {"new", "begun"} =>
                      hs'[x] \notin {"new", "begun"}
<1>0. hs \in [Peer -> {"new", "begun", "wait", "answered", "tags", "poll",
                       "returned"}]
    BY DEF TagInv, TypeOK
<1>1. CASE Application(p)
    BY <1>0, <1>1 DEF Application, Handshake, Whoami, Ping, Ask, SendHeartbeat
<1>2. CASE Proceed(p)
    BY <1>0, <1>2 DEF Proceed, RequestWhoami, StorePeerver, LearnTag, CountOwn,
                      Return
<1>3. CASE syncRx(p)
    BY <1>0, <1>3 DEF syncRx, msghandlerWhoami, CountRemote, msghandlerPing,
                      msghandlerHeartbeat, Decode
<1> QED
    BY <1>1, <1>2, <1>3

\* What a packet tells stays true.
LEMMA StillTells ==
    ASSUME TagInv, NEW p \in Peer, Application(p) \/ Proceed(p) \/ syncRx(p),
           NEW x \in Peer, NEW k, Tells(hs, x, k)
    PROVE  Tells(hs', x, k)
BY Onward, Ends DEF Tells

\* An end learns only by steps of its own Handshake().
LEMMA LearnsKept ==
    ASSUME AcqInv, NEW x \in Peer, hs'[x] = hs[x], todo'[x] = todo[x],
           tagenc'[x] = tagenc[x]
    PROVE  Learns(x)'
BY DEF AcqInv, Learns

\* What a step has to show.
LEMMA AcqCombine ==
    ASSUME \A x \in Peer : \A k \in ToSet(wire'[x]) : Tells(hs', x, k),
           \A x \in Peer : Learns(x)' /\ Greeted(x)',
           \A x \in Peer : hs'[x] = "returned" => xchngok'[x] >= 2
    PROVE  AcqInv'
BY DEF AcqInv, Exchanged

\* The calls of the application.
LEMMA ApplicationAcq ==
    ASSUME TagInv, AcqInv, NEW p \in Peer, Application(p)
    PROVE  AcqInv'
<1> DEFINE q == Other(p)
<1>0. /\ q \in Peer /\ q # p /\ Other(q) = p /\ \A x \in Peer : x = p \/ x = q
      /\ p \in Peer
    BY Ends
<1>1. UNCHANGED <<todo, tagenc, xchngok, syncrx>>
    BY DEF Application, Handshake, Whoami, Ping, Ask, SendHeartbeat
<1>2. /\ hs \in [Peer -> {"new", "begun", "wait", "answered", "tags", "poll",
                          "returned"}]
      /\ \/ UNCHANGED hs
         \/ hs[p] = "new" /\ hs' = [hs EXCEPT ![p] = "begun"]
    BY DEF TagInv, TypeOK, Application, Handshake, Whoami, Ping, Ask,
           SendHeartbeat
<1>3. \/ UNCHANGED wire
      \/ \E k \in Packet :
             /\ wire' = [wire EXCEPT ![q] = Append(@, k)]
             /\ Tells(hs, q, k)
  <2>1. CASE Handshake(p) \/ (SendHeartbeat(p) /\ UNCHANGED wire)
    BY <2>1 DEF Handshake
  <2> DEFINE S == {newWhoami(p, "whoami"), framepkt(p, "ping"),
                   framepkt(p, "beat")}
  <2>2. S \subseteq Packet
    BY Framed DEF PacketType, Good
  <2>3. CASE Whoami(p)
    <3>1. Tells(hs, q, newWhoami(p, "whoami"))
      BY <1>0, <2>3 DEF Whoami, Ask, Tells, newWhoami
    <3> QED
      BY <2>2, <2>3, <3>1 DEF Whoami, Ask
  <2>4. CASE Ping(p)
    <3>1. Tells(hs, q, framepkt(p, "ping"))
      BY <1>0, <2>4 DEF Ping, Ask, Tells, framepkt
    <3> QED
      BY <2>2, <2>4, <3>1 DEF Ping, Ask
  <2>5. CASE SendHeartbeat(p) /\ wire' # wire
    <3>1. Tells(hs, q, framepkt(p, "beat"))
      BY DEF Tells, framepkt
    <3> QED
      BY <2>2, <2>5, <3>1 DEF SendHeartbeat
  <2> QED
    BY <2>1, <2>3, <2>4, <2>5 DEF Application
<1>4. /\ \A x \in Peer : \A k \in ToSet(wire'[x]) : Tells(hs, x, k)
      /\ \A x \in Peer : ToSet(wire[x]) \subseteq ToSet(wire'[x])
  <2>1. CASE UNCHANGED wire
    BY <2>1 DEF AcqInv
  <2>2. CASE wire' # wire
    <3>1. PICK k \in Packet :
              /\ wire' = [wire EXCEPT ![q] = Append(@, k)]
              /\ Tells(hs, q, k)
      BY <1>3, <2>2
    <3>2. ToSet(wire'[q]) = ToSet(wire[q]) \cup {k} /\ wire'[p] = wire[p]
      BY <3>1, WireSent
    <3> QED
      BY <1>0, <3>1, <3>2 DEF AcqInv
  <2> QED
    BY <2>1, <2>2
<1>5. \A x \in Peer : \A k \in ToSet(wire'[x]) : Tells(hs', x, k)
    BY <1>4, StillTells
<1>6. \A x \in Peer : /\ Learns(x)' /\ Greeted(x)'
                      /\ hs'[x] = "returned" => xchngok'[x] >= 2
  <2> SUFFICES ASSUME NEW x \in Peer
               PROVE  /\ Learns(x)' /\ Greeted(x)'
                      /\ hs'[x] = "returned" => xchngok'[x] >= 2
    OBVIOUS
  <2>0. Other(x) \in Peer
    BY Ends
  <2>1. Learns(x)'
    BY <1>1, <1>2 DEF AcqInv, Learns
  <2>2. Answered(x)' => Answered(x)
    BY <1>1, <1>2 DEF Answered
  <2>3. Greeted(x)'
    BY <1>2, <1>4, <2>0, <2>2 DEF AcqInv, Greeted
  <2> QED
    BY <1>1, <1>2, <2>1, <2>3 DEF AcqInv, Exchanged
<1> QED
    BY <1>5, <1>6, AcqCombine

\* The steps of Handshake() itself.
LEMMA ProceedAcq ==
    ASSUME TagInv, AcqInv, NEW p \in Peer, Proceed(p)
    PROVE  AcqInv'
<1> DEFINE q == Other(p)
<1>0. /\ q \in Peer /\ q # p /\ Other(q) = p /\ \A x \in Peer : x = p \/ x = q
      /\ p \in Peer
    BY Ends
<1>1. /\ hs \in [Peer -> {"new", "begun", "wait", "answered", "tags", "poll",
                          "returned"}]
      /\ xchngok \in [Peer -> Nat] /\ todo \in [Peer -> SUBSET Tag]
      /\ tagenc \in [Peer -> SUBSET Tag]
    BY DEF TagInv, TypeOK
<1>2. UNCHANGED syncrx
    BY DEF Proceed, RequestWhoami, StorePeerver, LearnTag, CountOwn, Return
<1>3. CASE RequestWhoami(p)
  <2>1. /\ hs[p] = "begun" /\ hs' = [hs EXCEPT ![p] = "wait"]
        /\ UNCHANGED <<todo, tagenc, xchngok>>
        /\ wire' = [wire EXCEPT ![q] = Append(@, newWhoami(p, "whoami"))]
    BY <1>3 DEF RequestWhoami
  <2>2. newWhoami(p, "whoami") \in Packet
    BY Framed DEF PacketType, Good
  <2>3. /\ ToSet(wire'[q]) = ToSet(wire[q]) \cup {newWhoami(p, "whoami")}
        /\ wire'[p] = wire[p]
    BY <2>1, <2>2, WireSent
  <2>4. Tells(hs', q, newWhoami(p, "whoami"))
    BY <1>0, <1>1, <2>1 DEF Tells, newWhoami
  <2>5. \A x \in Peer : \A k \in ToSet(wire'[x]) : Tells(hs', x, k)
    BY <1>0, <2>3, <2>4, StillTells DEF AcqInv
  <2>6. Learns(p)' /\ Learns(q)'
    BY <1>0, <1>1, <2>1 DEF AcqInv, Learns
  <2>7. Greeted(p)'
    <3>1. Answered(p)' => Answered(p)
      BY <1>1, <1>2, <2>1 DEF Answered
    <3> QED
      BY <1>0, <1>1, <2>1, <2>3, <3>1 DEF AcqInv, Greeted
  <2>8. Greeted(q)'
    <3>1. ~Answered(q)
      BY <1>0, <2>1 DEF AcqInv, Greeted
    <3>2. Answered(q)' => Answered(q)
      BY <1>0, <1>1, <1>2, <2>1 DEF Answered
    <3> QED
      BY <3>1, <3>2 DEF Greeted
  <2>9. \A x \in Peer : hs'[x] = "returned" => xchngok'[x] >= 2
    BY <1>1, <2>1 DEF AcqInv, Exchanged
  <2> QED
    BY <1>0, <2>5, <2>6, <2>7, <2>8, <2>9, AcqCombine
<1>4. CASE ~RequestWhoami(p)
  <2>1. /\ \/ StorePeerver(p) \/ LearnTag(p) \/ CountOwn(p) \/ Return(p)
        /\ UNCHANGED wire
    BY <1>4 DEF Proceed, StorePeerver, LearnTag, CountOwn, Return
  <2>2. /\ hs'[q] = hs[q] /\ todo'[q] = todo[q] /\ tagenc'[q] = tagenc[q]
        /\ xchngok'[q] = xchngok[q]
    BY <1>0, <1>1, <2>1 DEF StorePeerver, LearnTag, CountOwn, Return
  <2>3. hs[p] \notin {"new", "begun", "wait"} /\ hs'[p] # "wait"
    BY <1>1, <2>1 DEF StorePeerver, LearnTag, CountOwn, Return
  <2>4. \A x \in Peer : \A k \in ToSet(wire'[x]) : Tells(hs', x, k)
    BY <2>1, StillTells DEF AcqInv
  <2>5. Learns(p)'
    <3>1. CASE StorePeerver(p)
      BY <1>1, <3>1 DEF StorePeerver, AcqInv, Learns
    <3>2. CASE LearnTag(p)
      <4>1. PICK tag \in todo[p] :
                /\ hs[p] = "tags" /\ UNCHANGED hs
                /\ todo' = [todo EXCEPT ![p] = @ \ {tag}]
                /\ tagenc' = IF tag \in Factory[p]
                             THEN [tagenc EXCEPT ![p] = @ \cup {tag}]
                             ELSE tagenc
        BY <3>2 DEF LearnTag, Known
      <4>2. /\ todo'[p] = todo[p] \ {tag}
            /\ tag \in Factory[p] => tagenc'[p] = tagenc[p] \cup {tag}
            /\ tag \notin Factory[p] => tagenc'[p] = tagenc[p]
        BY <1>1, <4>1
      <4>3. TagsOf[q] \cap Factory[p] \subseteq todo[p] \cup tagenc[p]
        BY <4>1 DEF AcqInv, Learns
      <4>4. TagsOf[q] \cap Factory[p] \subseteq todo'[p] \cup tagenc'[p]
        BY <4>2, <4>3
      <4> QED
        BY <4>1, <4>4 DEF Learns
    <3>3. CASE CountOwn(p)
      BY <1>1, <3>3 DEF CountOwn, AcqInv, Learns
    <3>4. CASE Return(p)
      BY <1>1, <3>4 DEF Return, AcqInv, Learns
    <3> QED
      BY <2>1, <3>1, <3>2, <3>3, <3>4
  <2>6. Learns(q)'
    BY <1>0, <2>2, LearnsKept
  <2>7. Answered(p)' => Answered(p)
    BY <1>1, <1>2, <2>1
    DEF Answered, StorePeerver, LearnTag, CountOwn, Return
  <2>8. Greeted(p)'
    BY <1>0, <2>1, <2>2, <2>7 DEF AcqInv, Greeted
  <2>9. Greeted(q)'
    <3>1. Answered(q)' => Answered(q)
      BY <1>2, <2>2 DEF Answered
    <3>2. hs'[p] \notin {"new", "begun"}
      BY <2>1, <2>3, Onward
    <3> QED
      BY <1>0, <2>3, <3>1, <3>2 DEF AcqInv, Greeted
  <2>10. hs'[p] = "returned" => xchngok'[p] >= 2
    BY <1>1, <2>1
    DEF StorePeerver, LearnTag, CountOwn, Return, Exchanged, AcqInv
  <2>11. hs'[q] = "returned" => xchngok'[q] >= 2
    BY <1>0, <2>2 DEF Exchanged, AcqInv
  <2> QED
    BY <1>0, <2>4, <2>5, <2>6, <2>8, <2>9, <2>10, <2>11, AcqCombine
<1> QED
    BY <1>3, <1>4

\* The handlers.
LEMMA syncRxAcq ==
    ASSUME TagInv, AcqInv, NEW p \in Peer, syncRx(p)
    PROVE  AcqInv'
<1> DEFINE q == Other(p)
           k == Head(wire[p])
<1>0. /\ q \in Peer /\ q # p /\ Other(q) = p /\ \A x \in Peer : x = p \/ x = q
      /\ p \in Peer
    BY Ends
<1>1. /\ hs \in [Peer -> {"new", "begun", "wait", "answered", "tags", "poll",
                          "returned"}]
      /\ xchngok \in [Peer -> Nat] /\ todo \in [Peer -> SUBSET Tag]
      /\ syncrx \in [Peer -> {"loop", "count"}]
    BY DEF TagInv, TypeOK
<1>2. UNCHANGED tagenc
    BY DEF syncRx, msghandlerWhoami, CountRemote, msghandlerPing,
           msghandlerHeartbeat, Decode
<1>3. ASSUME NEW r \in Seq(Packet), wire[p] # <<>>, Answer(p, r)
      PROVE  /\ Tells(hs, p, k)
             /\ ToSet(wire[p]) = {k} \cup ToSet(wire'[p])
             /\ ToSet(wire'[q]) = ToSet(wire[q]) \cup ToSet(r)
    BY <1>0, <1>3, WireTaken DEF AcqInv
<1>4. ASSUME NEW r \in Seq(Packet), wire[p] # <<>>, Answer(p, r),
             \A m \in ToSet(r) : Tells(hs, q, m)
      PROVE  \A x \in Peer : \A m \in ToSet(wire'[x]) : Tells(hs', x, m)
  <2>1. /\ ToSet(wire'[p]) \subseteq ToSet(wire[p])
        /\ ToSet(wire'[q]) = ToSet(wire[q]) \cup ToSet(r)
    BY <1>3, <1>4
  <2>2. \A x \in Peer : \A m \in ToSet(wire'[x]) : Tells(hs, x, m)
    BY <1>0, <1>4, <2>1 DEF AcqInv
  <2> QED
    BY <2>2, StillTells
<1>5. CASE CountRemote(p)
  <2>1. /\ UNCHANGED <<hs, wire, todo>> /\ syncrx[p] = "count"
        /\ syncrx' = [syncrx EXCEPT ![p] = "loop"]
        /\ xchngok' = [xchngok EXCEPT ![p] = @ + 1]
    BY <1>5 DEF CountRemote
  <2>2. \A x \in Peer : Answered(x)' => Answered(x)
    BY <1>0, <1>1, <2>1 DEF Answered
  <2>3. \A x \in Peer : Greeted(x)'
    BY <2>1, <2>2 DEF AcqInv, Greeted
  <2>4. \A x \in Peer : Learns(x)'
    BY <1>2, <2>1 DEF AcqInv, Learns
  <2>5. \A x \in Peer : hs'[x] = "returned" => xchngok'[x] >= 2
    BY <1>1, <2>1 DEF AcqInv, Exchanged
  <2>6. \A x \in Peer : \A m \in ToSet(wire'[x]) : Tells(hs', x, m)
    BY <2>1 DEF AcqInv
  <2> QED
    BY <2>3, <2>4, <2>5, <2>6, AcqCombine
<1>6. CASE msghandlerWhoami(p)
  <2>1. /\ UNCHANGED <<hs, todo, xchngok>> /\ k.t = "whoami"
        /\ wire[p] # <<>> /\ Answer(p, <<newWhoami(p, "iam")>>)
        /\ syncrx' = [syncrx EXCEPT ![p] = "count"]
    BY <1>6 DEF msghandlerWhoami, Received
  <2>2. newWhoami(p, "iam") \in Packet
    BY Framed DEF PacketType, Good
  <2> DEFINE r == <<newWhoami(p, "iam")>>
  <2>3. r \in Seq(Packet) /\ ToSet(r) = {newWhoami(p, "iam")}
    BY <2>2 DEF ToSet
  <2>4. Tells(hs, q, newWhoami(p, "iam"))
    BY <1>0 DEF Tells, newWhoami
  <2>5. \A x \in Peer : \A m \in ToSet(wire'[x]) : Tells(hs', x, m)
    <3> HIDE DEF r
    <3>1. Answer(p, r)
      BY <2>1 DEF r
    <3>2. \A m \in ToSet(r) : Tells(hs, q, m)
      BY <2>3, <2>4, Zenon
    <3> QED
      BY <1>4, <2>1, <2>3, <3>1, <3>2
  <2>6. \A x \in Peer : Learns(x)'
    BY <1>2, <2>1 DEF AcqInv, Learns
  <2>7. \A x \in Peer : hs'[x] = "returned" => xchngok'[x] >= 2
    BY <2>1 DEF AcqInv, Exchanged
  <2>8. /\ Tells(hs, p, k) /\ ToSet(wire[p]) = {k} \cup ToSet(wire'[p])
        /\ newWhoami(p, "iam") \in ToSet(wire'[q])
    BY <1>3, <2>1, <2>3
  <2>9. Greeted(p)'
    <3>1. hs[q] \notin {"new", "begun"}
      BY <2>1, <2>8 DEF Tells
    <3>2. newWhoami(p, "iam").t = "iam"
      BY DEF newWhoami
    <3> QED
      BY <2>1, <2>8, <3>1, <3>2 DEF Greeted
  <2>10. Greeted(q)'
    <3>1. Answered(q)' => Answered(q)
      BY <1>0, <1>1, <2>1 DEF Answered
    <3>2. \A m \in ToSet(wire[p]) : m.t = "iam" => m \in ToSet(wire'[p])
      BY <2>1, <2>8
    <3> QED
      BY <1>0, <2>1, <3>1, <3>2 DEF AcqInv, Greeted
  <2> QED
    BY <1>0, <2>5, <2>6, <2>7, <2>9, <2>10, AcqCombine
<1>7. CASE msghandlerPing(p) \/ msghandlerHeartbeat(p)
  <2>1. /\ UNCHANGED <<hs, todo, xchngok, syncrx>> /\ k.t \in {"ping", "beat"}
        /\ wire[p] # <<>>
        /\ \/ Answer(p, <<>>)
           \/ Answer(p, <<framepkt(p, "pong")>>) /\ k.t = "ping"
    BY <1>7 DEF msghandlerPing, msghandlerHeartbeat, Received
  <2>2. PICK r \in Seq(Packet) :
            Answer(p, r) /\ \A m \in ToSet(r) : Tells(hs, q, m)
    <3>1. /\ <<>> \in Seq(Packet)
          /\ \A m \in ToSet(<<>>) : Tells(hs, q, m)
      BY DEF ToSet
    <3>2. CASE Answer(p, <<>>)
      BY <3>1, <3>2
    <3>3. CASE Answer(p, <<framepkt(p, "pong")>>) /\ k.t = "ping"
      <4>1. framepkt(p, "pong") \in Packet
        BY Framed DEF PacketType, Good
      <4> DEFINE r == <<framepkt(p, "pong")>>
      <4>2. r \in Seq(Packet) /\ ToSet(r) = {framepkt(p, "pong")}
        BY <4>1 DEF ToSet
      <4>3. Tells(hs, p, k)
        BY <1>3, <2>1, <3>3, <4>2
      <4>4. Tells(hs, q, framepkt(p, "pong"))
        BY <1>0, <3>3, <4>3 DEF Tells, framepkt
      <4>5. \A m \in ToSet(r) : Tells(hs, q, m)
        BY <4>2, <4>4, Zenon
      <4> QED
        BY <3>3, <4>2, <4>5
    <3> QED
      BY <2>1, <3>2, <3>3
  <2>3. \A x \in Peer : \A m \in ToSet(wire'[x]) : Tells(hs', x, m)
    BY <1>4, <2>1, <2>2
  <2>4. \A x \in Peer : Learns(x)'
    BY <1>2, <2>1 DEF AcqInv, Learns
  <2>5. \A x \in Peer : hs'[x] = "returned" => xchngok'[x] >= 2
    BY <2>1 DEF AcqInv, Exchanged
  <2>6. /\ ToSet(wire[p]) = {k} \cup ToSet(wire'[p])
        /\ ToSet(wire[q]) \subseteq ToSet(wire'[q])
    BY <1>3, <2>1, <2>2
  <2>7. \A x \in Peer : \A m \in ToSet(wire[x]) :
            m.t = "iam" => m \in ToSet(wire'[x])
    BY <1>0, <2>1, <2>6
  <2>8. \A x \in Peer : Greeted(x)'
    <3> TAKE x \in Peer
    <3>1. Answered(x)' => Answered(x)
      BY <2>1 DEF Answered
    <3>2. Other(x) \in Peer
      BY Ends
    <3> QED
      BY <2>1, <2>7, <3>1, <3>2 DEF AcqInv, Greeted
  <2> QED
    BY <2>3, <2>4, <2>5, <2>8, AcqCombine
<1>8. CASE Decode(p)
  <2>1. /\ UNCHANGED <<xchngok, syncrx>> /\ k.t \in {"iam", "pong"}
        /\ wire[p] # <<>> /\ Answer(p, <<>>)
        /\ \/ /\ hs[p] = "wait" /\ hs' = [hs EXCEPT ![p] = "answered"]
              /\ todo' = [todo EXCEPT ![p] = k.tags]
           \/ /\ hs[p] # "wait" /\ UNCHANGED <<hs, todo>>
    BY <1>8 DEF Decode, Received, DecodedTags
  <2>2. <<>> \in Seq(Packet) /\ ToSet(<<>>) = {}
    BY DEF ToSet
  <2>3. \A x \in Peer : \A m \in ToSet(wire'[x]) : Tells(hs', x, m)
    BY <1>4, <2>1, <2>2
  <2>4. /\ Tells(hs, p, k) /\ ToSet(wire[p]) = {k} \cup ToSet(wire'[p])
        /\ ToSet(wire'[q]) = ToSet(wire[q])
    BY <1>3, <2>1, <2>2
  <2>5. hs[p] = "wait" => k.tags = TagsOf[q]
    BY <2>1, <2>4 DEF Tells
  <2>6. Learns(p)'
    BY <1>0, <1>1, <1>2, <2>1, <2>5 DEF AcqInv, Learns
  <2>7. /\ hs'[q] = hs[q] /\ todo'[q] = todo[q] /\ tagenc'[q] = tagenc[q]
        /\ hs'[p] # "wait"
        /\ hs[p] \notin {"new", "begun"} => hs'[p] \notin {"new", "begun"}
    BY <1>0, <1>1, <1>2, <2>1
  <2>8. Learns(q)'
    BY <1>0, <2>7, LearnsKept
  <2>9. Answered(p)' => Answered(p)
    BY <1>1, <2>1 DEF Answered
  <2>10. Greeted(p)'
    BY <1>0, <2>4, <2>7, <2>9 DEF AcqInv, Greeted
  <2>11. Greeted(q)'
    <3>1. Answered(q)' => Answered(q)
      BY <2>1, <2>7 DEF Answered
    <3> QED
      BY <1>0, <2>7, <3>1 DEF AcqInv, Greeted
  <2>12. \A x \in Peer : hs'[x] = "returned" => xchngok'[x] >= 2
    BY <1>1, <2>1 DEF AcqInv, Exchanged
  <2> QED
    BY <1>0, <2>3, <2>6, <2>8, <2>10, <2>11, <2>12, AcqCombine
<1> QED
    BY <1>5, <1>6, <1>7, <1>8 DEF syncRx

\* When Handshake() returns, each end has the tags to apply, and the remote has
\* asked for its whoami and has the answer, or will get it: no end returns
\* before its remote can.
THEOREM AlwaysAcquainted == Spec => []Acquainted
<1> USE HandshakeAssumption
<1>1. Init => AcqInv
  <2> SUFFICES ASSUME Init PROVE AcqInv
    OBVIOUS
  <2>1. \A p \in Peer : /\ ToSet(wire[p]) = {} /\ hs[p] = "new"
                        /\ syncrx[p] = "loop" /\ xchngok[p] = 0
    BY DEF Init, ToSet
  <2> QED
    BY <2>1 DEF AcqInv, Learns, Greeted, Answered
<1>2. TagInv /\ AcqInv /\ [Next]_vars => AcqInv'
  <2>1. ASSUME AcqInv, UNCHANGED vars PROVE AcqInv'
    BY <2>1 DEF vars, AcqInv, Tells, Learns, Greeted, Answered, Exchanged
  <2> QED
    BY <2>1, ApplicationAcq, ProceedAcq, syncRxAcq DEF Next
<1>3. TagInv /\ AcqInv => Acquainted
  <2> SUFFICES ASSUME TagInv, AcqInv, NEW p \in Peer, hs[p] = "returned"
               PROVE  /\ tagenc[p] = TagsOf[Other(p)] \cap Factory[p]
                      /\ hs[Other(p)] \notin {"new", "begun"}
                      /\ hs[Other(p)] = "wait" =>
                             \E k \in ToSet(wire[Other(p)]) : k.t = "iam"
    BY DEF Acquainted
  <2>1. tagenc[p] \subseteq TagsOf[Other(p)] /\ tagenc[p] \subseteq Factory[p]
    BY DEF TagInv, TypeOK
  <2>2. TagsOf[Other(p)] \cap Factory[p] \subseteq tagenc[p]
    BY DEF AcqInv, Learns
  <2>3. xchngok[p] >= 2 /\ xchngok[p] \in Nat
    BY DEF AcqInv, Exchanged, TagInv, TypeOK
  <2>4. Answered(p)
    BY <2>3 DEF Answered
  <2> QED
    BY <2>1, <2>2, <2>4 DEF AcqInv, Greeted
<1> QED
    BY <1>1, <1>2, <1>3, InitInv, NextInv, PTL DEF Spec
=============================================================================
