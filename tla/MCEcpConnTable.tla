--------------------------- MODULE MCEcpConnTable ---------------------------
EXTENDS EcpConnTable, TLC

Symmetry == Permutations(Outb) \union Permutations(Inb) \union Permutations(Addr)

\* The keys of the peers, up to the names of keys and slots: a peer with two exchanges one after the
\* other, one that tries two keys in turn, or a second peer.
First3(unders, slots) ==
    [k \in PeerKey |-> [under |-> IF unders[k - MaxKey] = 0 THEN NoKey ELSE MaxKey + unders[k - MaxKey],
                        slot |-> slots[k - MaxKey]]]
Peers == {First3(<<0, 1, 2>>, <<0, 1, 0>>), First3(<<0, 1, 1>>, <<0, 1, 1>>), First3(<<0, 1, 0>>, <<0, 1, 0>>)}

ASSUME Peers \subseteq Requests

\* Two connections to peers with three own keys, as many from peers with any of their keys, and, as the
\* two kinds meet in nothing but the order of the entries, smaller mixtures of both.
Used(C) == {c \in C : app[c] # "new"}
Bound == Cardinality(Used(Conn)) + fresh <= IF Used(Outb) = {} \/ Used(Inb) = {} THEN 5 ELSE 4

MCInit == Init /\ req \in Peers
MCSpec == MCInit /\ [][Next]_vars
=============================================================================
