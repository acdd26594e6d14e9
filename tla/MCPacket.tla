------------------------------ MODULE MCPacket ------------------------------
(* Instance of Packet for TLC.                                             *)
EXTENDS Packet

NetOf(n, a, b, c, d) == [ones |-> n, ip |-> <<a, b, c, d>>]

\* A host, a net whose mask ends inside a byte, and an address that is not IPv4.
Host == NetOf(32, 10, 0, 0, 1)
Half == NetOf(9, 172, 129, 3, 4)
NoIP == [ones |-> 32, ip |-> <<>>]

Lists == {<<>>, <<Host>>, <<Host, Half>>, <<Half, NoIP>>}

SmallMessages == {UpdateMessage(u, r) : u, r \in Lists}

Hosts(n) == [i \in 1..n |-> NetOf(32, 10, 0, i \div 256, i % 256)]

\* The largest table that a peer can be sent.
LargeMessages == {UpdateMessage(Hosts(810), <<>>)}

AllMessages == SmallMessages \cup LargeMessages

Config(asns, pref) ==
    [NextHop |-> <<127, 0, 0, 1>>, ASNs |-> asns, LocalPref |-> pref]

Various == {Config(<<>>, 100), Config(<<65001, 258>>, 66051)}
=============================================================================
