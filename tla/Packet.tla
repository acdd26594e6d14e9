------------------------------- MODULE Packet -------------------------------
(***************************************************************************)
(* internal/bgp/packet.go and the writer of plugin.go: UpdateMessages as   *)
(* the bytes of BGP UPDATEs, read back by a peer.                          *)
(*                                                                         *)
(* A route is a net.IPNet, the length of its mask and its four bytes.      *)
(* newWriter makes routes of 32 bits; encodePrefix takes any.  An address  *)
(* that is not IPv4 has no bytes, and ends the encoding with an error.     *)
(***************************************************************************)
EXTENDS Integers, Sequences

CONSTANTS Messages,  \* the messages a writer is called with
          Configs,   \* the values of the attributes, see conf
          MaxWrites  \* bound: UPDATEs written in the session

VARIABLES conf,      \* NextHop, ASNs (127.0.0.1 and none in newWriter), LocalPref
          wire,      \* the UPDATEs written to the session, in order
          told,      \* history: the message each was built from, {} for End-of-RIB
          table,     \* the routes a peer has that reads the UPDATEs
          list,      \* history: the runner's list, see ListAfter
          unwritten, \* history: routes of messages that no bytes were written of
          at,        \* the writer: "idle", "eor" or "failed"
          paused     \* OnEstablished has still to write its End-of-RIB

pvars == <<conf, wire, told, table, list, unwritten, at, paused>>

Byte    == 0..255
Network == [ones : 0..32, ip : [1..4 -> Byte]]
NoIPv4  == [ones : 0..32, ip : {<<>>}]
Route   == Network \cup NoIPv4

\* ASNs are uint16 and LocalPref is uint32.
TwoBytes  == {n \in Nat : n <= 65535}
IsPref(p) == p \in Nat /\ p \div 65536 \in TwoBytes

ASSUME PacketAssumption ==
    /\ Messages \subseteq [ToUpdate : Seq(Route), ToRemove : Seq(Route)]
    /\ Configs \subseteq [NextHop   : [1..4 -> Byte] \cup {<<>>},
                          ASNs      : Seq(TwoBytes),
                          LocalPref : {p \in Nat : IsPref(p)}]
    /\ MaxWrites \in Nat

Error == <<-1>>

UpdateMessage(u, r) == [ToUpdate |-> u, ToRemove |-> r]

\* binary.Write in big-endian order, after the conversion to uint16.
Uint16(n) == <<(n \div 256) % 256, n % 256>>

Uint32(n) == <<(n \div 16777216) % 256, (n \div 65536) % 256, (n \div 256) % 256, n % 256>>

-----------------------------------------------------------------------------
(* Encoding.                                                               *)

\* The bytes that a mask of n bits reaches into.
Reach(n) == (n + 7) \div 8

\* Mutant: the last byte of a mask that ends inside it is left out.
encodePrefixCut(r) == <<r.ones>> \o SubSeq(r.ip, 1, r.ones \div 8)

encodePrefix(r) == <<r.ones>> \o SubSeq(r.ip, 1, Reach(r.ones))

\* The routes one after the other, put together from halves.
encodePrefixes[s \in Seq(Network)] ==
    LET h == Len(s) \div 2
    IN  CASE Len(s) = 0 -> <<>>
          [] Len(s) = 1 -> encodePrefix(s[1])
          [] OTHER      -> encodePrefixes[SubSeq(s, 1, h)]
                           \o encodePrefixes[SubSeq(s, h + 1, Len(s))]

\* The attributes of newWriter, with their Encode.
Origin == <<64, 1, 1, 1>>

ASPath(asns) ==
    LET segment == <<2, Len(asns) % 256>>
                   \o [i \in 1..2 * Len(asns) |-> Uint16(asns[(i + 1) \div 2])[2 - (i % 2)]]
    IN  IF asns = <<>> THEN <<64, 2, 0>>
        ELSE <<64, 2, Len(segment) % 256>> \o segment

NextHopAttr(ip) == <<64, 3, 4>> \o ip

\* Mutant: the preference is written low byte first.
LocalPrefSwapped(p) ==
    LET b == Uint32(p) IN <<64, 5, 4>> \o <<b[4], b[3], b[2], b[1]>>

LocalPrefAttr(p) == <<64, 5, 4>> \o Uint32(p)

Attributes(c) == Origin \o (ASPath(c.ASNs) \o (NextHopAttr(c.NextHop) \o LocalPrefAttr(c.LocalPref)))

\* To4 finds four bytes in every route and in the next hop.
IsIPv4(m, c) ==
    /\ \A i \in DOMAIN m.ToUpdate : m.ToUpdate[i].ip # <<>>
    /\ \A i \in DOMAIN m.ToRemove : m.ToRemove[i].ip # <<>>
    /\ c.NextHop # <<>>

\* Mutant: the length takes four bytes.
CountedWide(b) == Uint32(Len(b)) \o b

\* A field behind the two bytes that hold its length.
Counted(b) == Uint16(Len(b)) \o b

\* Mutant: an UPDATE that announces nothing has no attributes.
buildOmitsAttributes(m, c) ==
    IF ~IsIPv4(m, c) THEN Error
    ELSE Counted(encodePrefixes[m.ToRemove])
         \o (Counted(IF m.ToUpdate = <<>> THEN <<>> ELSE Attributes(c))
         \o encodePrefixes[m.ToUpdate])

\* What is not IPv4 makes the call return an error.
buildUpdateMessage(m, c) ==
    IF ~IsIPv4(m, c) THEN Error
    ELSE Counted(encodePrefixes[m.ToRemove])
         \o (Counted(Attributes(c))
         \o encodePrefixes[m.ToUpdate])

EndOfRIB == <<0, 0, 0, 0>>

-----------------------------------------------------------------------------
(* The peer: UPDATEs as RFC 4271 has them.                                 *)

Number(b) == b[1] * 256 + b[2]

Dropped(b, n) == SubSeq(b, n + 1, Len(b))

\* The route at the head of a field, the bytes beyond its mask 0.
HeadRoute(b) ==
    [ones |-> b[1],
     ip   |-> [i \in 1..4 |-> IF i <= Reach(b[1]) /\ i < Len(b) THEN b[i + 1] ELSE 0]]

\* Up to p[2] routes from the front of the bytes p[1], and what is left.
readRoutes[p \in Seq(Byte) \X Nat] ==
    LET h     == p[2] \div 2
        front == readRoutes[<<p[1], h>>]
        back  == readRoutes[<<front[2], p[2] - h>>]
    IN  CASE p[1] = <<>> \/ p[2] = 0  -> <<{}, p[1]>>
          [] p[1] # <<>> /\ p[2] = 1  -> <<{HeadRoute(p[1])}, Dropped(p[1], Reach(p[1][1]) + 1)>>
          [] p[1] # <<>> /\ p[2] > 1  -> <<front[1] \cup back[1], back[2]>>

\* The routes of a withdrawn or NLRI field.
Routes(b) == readRoutes[<<b, Len(b)>>][1]

\* The attributes of an UPDATE: their types and values.
readAttributes[b \in Seq(Byte)] ==
    IF Len(b) < 3 \/ Len(b) < b[3] + 3 THEN {}
    ELSE {<<b[2], SubSeq(b, 4, b[3] + 3)>>} \cup readAttributes[Dropped(b, b[3] + 3)]

\* What stands behind the first n of the fields that hold their length.
Behind(b) == Dropped(b, Number(b) + 2)
Field(b)  == SubSeq(b, 3, Number(b) + 2)

Withdrawn(b) == Routes(Field(b))
NLRI(b)      == Routes(Behind(Behind(b)))

Parse(b) == [withdrawn  |-> Withdrawn(b),
             attributes |-> readAttributes[Field(Behind(b))],
             nlri       |-> NLRI(b)]

\* A route that an UPDATE both withdraws and announces is announced.
TableAfter(t, b) == (t \ Withdrawn(b)) \cup NLRI(b)

-----------------------------------------------------------------------------
(* The writer that newWriter returns.                                      *)

\* A route is the key of a list, whether or not it has bytes.
Net(r) == IF r.ip = <<>> THEN r
          ELSE [ones |-> r.ones,
                ip   |-> [i \in 1..4 |-> IF i <= Reach(r.ones) THEN r.ip[i] ELSE 0]]
Nets(s) == {Net(s[i]) : i \in DOMAIN s}

\* Module Broadcaster's updateList: the runner applies a message to its list
\* before it calls any writer.
ListAfter(l, m) == (l \ Nets(m.ToRemove)) \cup Nets(m.ToUpdate)

PInit ==
    /\ conf \in Configs
    /\ wire = <<>> /\ told = <<>>
    /\ table = {} /\ list = {} /\ unwritten = {}
    /\ at = "idle" /\ paused = TRUE

\* The bytes b of a message, or of an End-of-RIB, reach the peer.
Write(b, messages) ==
    /\ wire' = Append(wire, b)
    /\ told' = Append(told, messages)
    /\ table' = TableAfter(table, b)

Touched(m) == Nets(m.ToUpdate) \cup Nets(m.ToRemove)

\* No bytes of the message are written.
NotWritten(m) ==
    /\ unwritten' = unwritten \cup Touched(m)
    /\ UNCHANGED <<wire, told, table>>

\* The message is built and written.  Without a build nothing is written,
\* and the session goes on; when WriteUpdate fails it is over.
WriteMessage(m) ==
    /\ at = "idle"
    /\ Len(wire) < MaxWrites
    /\ list' = ListAfter(list, m)
    /\ \/ /\ buildUpdateMessage(m, conf) = Error
          /\ NotWritten(m)
          /\ UNCHANGED at
       \/ /\ buildUpdateMessage(m, conf) # Error
          /\ Write(buildUpdateMessage(m, conf), {m})
          /\ unwritten' = unwritten \ Touched(m)
          /\ at' = "eor"
       \/ /\ buildUpdateMessage(m, conf) # Error
          /\ NotWritten(m)
          /\ at' = "failed"
    /\ UNCHANGED <<conf, paused>>

\* writeEndOfRIB after each message.
WriteEndOfRIB ==
    /\ at = "eor"
    /\ \/ at' = "idle" /\ Write(EndOfRIB, {})
       \/ at' = "failed" /\ UNCHANGED <<wire, told, table>>
    /\ UNCHANGED <<conf, list, unwritten, paused>>

\* OnEstablished writes one of its own after its pause, whatever the runner
\* has written by then.
EstablishedEndOfRIB ==
    /\ paused
    /\ at # "failed"
    /\ paused' = FALSE
    /\ Write(EndOfRIB, {})
    /\ UNCHANGED <<conf, list, unwritten, at>>

PNext ==
    \/ \E m \in Messages : WriteMessage(m)
    \/ WriteEndOfRIB
    \/ EstablishedEndOfRIB

PSpec == PInit /\ [][PNext]_pvars

-----------------------------------------------------------------------------
(* Properties.                                                             *)

\* The lengths that are written fit: the 16 bits of a withdrawn field, with 5
\* bytes for a host, and the 8 bits of an AS path, which newWriter leaves empty.
LengthsFit ==
    /\ \A i \in DOMAIN told : \A m \in told[i] : Len(m.ToRemove) <= 13107
    /\ Len(conf.ASNs) <= 126

\* A peer that reads the bytes of newWriter's UPDATEs has the list that the
\* broadcaster's runner keeps, but for routes whose last message could not be
\* built or written (an address that is not IPv4, which the config and the
\* resolver's A records exclude, or a session that is over): another message
\* about them makes up for that.
PeerReadsTheList ==
    LengthsFit => (table \ list) \cup (list \ table) \subseteq unwritten

\* No message reads as an End-of-RIB (writeEndOfRIB), the initial table of
\* an empty list included, and behind each message there is one before the
\* next message.
MarkersFollowMessages ==
    \A i \in DOMAIN wire :
        /\ wire[i] = EndOfRIB <=> told[i] = {}
        /\ i + 1 \in DOMAIN wire => told[i] = {} \/ told[i + 1] = {}

\* The numbers of an AS path segment: its type, their count, two bytes each.
Segment(v, asns) ==
    /\ Len(v) = 2 + 2 * Len(asns)
    /\ v[1] = 2 /\ v[2] = Len(asns)
    /\ \A k \in DOMAIN asns : v[2 * k + 1] * 256 + v[2 * k + 2] = asns[k]

\* The numbers of a preference: its high and its low two bytes.
PrefRead(v, p) ==
    /\ Len(v) = 4
    /\ Number(v) = p \div 65536
    /\ Number(SubSeq(v, 3, 4)) = p % 65536

\* Each UPDATE carries the four attributes of newWriter with the values of
\* the configuration, and no other.
AttributesRead ==
    LengthsFit =>
        \A i \in DOMAIN wire : told[i] # {} =>
            LET attributes == Parse(wire[i]).attributes
            IN  /\ {a[1] : a \in attributes} = {1, 2, 3, 5}
                /\ \A a \in attributes :
                      /\ a[1] = 1 => a[2] = <<1>>
                      /\ a[1] = 2 => IF conf.ASNs = <<>> THEN a[2] = <<>>
                                     ELSE Segment(a[2], conf.ASNs)
                      /\ a[1] = 3 => a[2] = conf.NextHop
                      /\ a[1] = 5 => PrefRead(a[2], conf.LocalPref)

\* A BGP message has at most 4096 bytes, 19 of them its header, and nothing in
\* packet.go splits one.  With the attributes of newWriter an UPDATE of up to
\* 810 hosts is "suitable for transmission over a BGP session" (packet.go).
FitsUpTo810 ==
    \A i \in DOMAIN wire : \A m \in told[i] :
        LET hosts == m.ToUpdate \o m.ToRemove
        IN  /\ conf.ASNs = <<>>
            /\ \A k \in DOMAIN hosts : hosts[k].ones = 32
            /\ Len(hosts) <= 810
            => 19 + Len(wire[i]) <= 4096
=============================================================================
