----------------------------- MODULE Multicast -----------------------------
(***************************************************************************)
(* A member of a multicast group (internal/session/multicast_peer.go): the *)
(* table of peers built from their JOINs, looked up by the source address  *)
(* of every datagram, and the lease eviction.                              *)
(*                                                                         *)
(* The other members come, go and change their address; datagrams are      *)
(* delayed, overtaken and lost.  Time passes in ticks: a member sends a    *)
(* JOIN in every tick, which arrives or is lost before the next.           *)
(***************************************************************************)
EXTENDS Naturals, FiniteSets, Reassembly

CONSTANTS Self,            \* our ZenohID, which the loopback shows us too
          Peers,           \* the ZenohIDs of the other members
          Addrs, SelfAddr, \* source addresses
          Lease,           \* in ticks
          Gens,            \* names for the successive entries of a peer
          MaxMoves, MaxLosses, MaxInFlight,   \* bounds
          None

ASSUME MulticastAssumption ==
    /\ Self \notin Peers /\ SelfAddr \notin Addrs
    /\ Lease \in Nat \ {0}
    \* a new entry has a name that no address points to any more
    /\ None \notin Peers \X Gens
    /\ IsFiniteSet(Addrs) /\ IsFiniteSet(Gens) /\ Cardinality(Gens) > Cardinality(Addrs)
    /\ MaxMoves \in Nat /\ MaxLosses \in Nat /\ MaxInFlight \in Nat

VARIABLES
    at,        \* at[p]: the address peer p sends from, or None
    due,       \* the peers that still owe the JOIN of this tick
    net,       \* datagrams in flight: [src, from, msgs]
    byZID,     \* byZID[p]: the generation of p's entry, or None
    bySrc,     \* bySrc[x]: the entry <<p, gen>> of address x, or None
    ent,       \* ent[<<p, gen>>]: [addr, age, reasm]
    heard,     \* heard[x]: whose JOIN was received last from address x
    astray,    \* a part that an announced sender sent was dispatched under another name
    moves, losses

world == <<at, due, moves, losses>>
table == <<byZID, bySrc, ent, heard, astray>>
vars == <<world, net, table>>

Entries == Peers \X Gens
NewEntry(x) == [addr |-> x, age |-> 0, reasm |-> Cleared]

Init ==
    /\ at = [p \in Peers |-> None] /\ due = {} /\ net = {}
    /\ byZID = [p \in Peers |-> None]
    /\ bySrc = [x \in Addrs \cup {SelfAddr} |-> None]
    /\ ent = [e \in Entries |-> NewEntry(None)]
    /\ heard = [x \in Addrs |-> None] /\ astray = FALSE
    /\ moves = 0 /\ losses = 0

------------------------------------------------------------------------------
(* The other members and the network.                                      *)

\* A member starts, restarts or rebinds at a free address, or vanishes.
Move(p, x) ==
    /\ moves < MaxMoves /\ x # at[p]
    /\ \A q \in Peers : x # None => at[q] # x
    /\ at' = [at EXCEPT ![p] = x]
    /\ due' = IF x = None THEN due \ {p} ELSE due \cup {p}
    /\ moves' = moves + 1
    /\ UNCHANGED <<net, table, losses>>

\* What a member sends: a JOIN; a FRAME of two messages, alone or after a
\* KEEPALIVE; either FRAGMENT of a message of two; a message we do not know
\* before a FRAME.  Every member counts its SNs from 0.
Datagrams == {<<"join">>, <<"keepalive", "frame">>, <<"frag0">>, <<"frag1">>, <<"oam", "frame">>}

JoinOf(p, x) == [src |-> x, from |-> p, msgs |-> <<"join">>]

\* runJoinSendLoop of another member, and its writer.
SendFrom(p, msgs) ==
    /\ at[p] # None /\ Cardinality(net) < MaxInFlight
    /\ msgs = <<"join">> => p \in due
    /\ net' = net \cup {[src |-> at[p], from |-> p, msgs |-> msgs]}
    /\ due' = IF msgs = <<"join">> THEN due \ {p} ELSE due
    /\ UNCHANGED <<at, moves, losses, table>>

Lose(d) ==
    /\ d \in net /\ losses < MaxLosses
    /\ net' = net \ {d} /\ losses' = losses + 1
    /\ UNCHANGED <<at, due, moves, table>>

\* A tick: everybody has sent a JOIN and it has arrived or is lost.
Tick ==
    /\ due = {} /\ \A d \in net : d.msgs = <<"join">> => d.from = Self
    /\ due' = {p \in Peers : at[p] # None}
    /\ ent' = [e \in Entries |-> IF byZID[e[1]] = e[2] /\ ent[e].age <= Lease
                                 THEN [ent[e] EXCEPT !.age = @ + 1] ELSE ent[e]]
    /\ UNCHANGED <<at, moves, losses, net, byZID, bySrc, heard, astray>>

------------------------------------------------------------------------------
(* The table, as functions on t = [byZID, bySrc, ent].                     *)

Table == [byZID |-> byZID, bySrc |-> bySrc, ent |-> ent]

\* Mutant of Insert: the reassembly belongs to the address.
InsertSharesReasm(t, p, x) ==
    LET g == CHOOSE g \in Gens : \A y \in DOMAIN t.bySrc : t.bySrc[y] # <<p, g>>
        buf == IF t.bySrc[x] = None THEN Cleared ELSE t.ent[t.bySrc[x]].reasm
    IN  IF t.byZID[p] # None
        THEN [t EXCEPT !.ent[<<p, t.byZID[p]>>] = [@ EXCEPT !.age = 0, !.addr = x],
                       !.bySrc[x] = <<p, t.byZID[p]>>]
        ELSE [t EXCEPT !.byZID[p] = g, !.bySrc[x] = <<p, g>>,
                       !.ent[<<p, g>>] = [NewEntry(x) EXCEPT !.reasm = buf]]
\* Insert: refresh the entry of p, its address mapping included, or make one.
Insert(t, p, x) ==
    IF t.byZID[p] # None
    THEN [t EXCEPT !.ent[<<p, t.byZID[p]>>] = [@ EXCEPT !.age = 0, !.addr = x],
                   !.bySrc[x] = <<p, t.byZID[p]>>]
    ELSE LET g == CHOOSE g \in Gens : \A y \in DOMAIN t.bySrc : t.bySrc[y] # <<p, g>>
         IN  [t EXCEPT !.byZID[p] = g, !.bySrc[x] = <<p, g>>, !.ent[<<p, g>>] = NewEntry(x)]

\* Mutant of Expired: a lease that is just used up counts.
ExpiredEarly(e) == byZID[e[1]] = e[2] /\ ent[e].age >= Lease
\* EvictExpired: LastSeen + Lease < now; the entry and its last address go.
Expired(e) == byZID[e[1]] = e[2] /\ ent[e].age > Lease
Evicting == {e \in Entries : Expired(e)}

------------------------------------------------------------------------------
(* Our goroutines.                                                         *)

FragmentSN(m) == IF m = "frag0" THEN 0 ELSE 1

\* zidEqual with our own ZenohID
IsSelf(d) == d.from = Self

\* The last JOIN received from the datagram's address was its sender's.
Announced(d) == heard[d.src] = d.from
Strays(part, e) == part.known /\ part.from # e[1]

\* handleDatagram: messages in order; data of an unknown address and a message
\* that cannot be skipped end the datagram.  (A new peer also starts a replay of
\* our declarations, OnPeerJoin; module Replay.)
Handle(d) ==
    LET e == bySrc[d.src]
        first == Head(d.msgs)
        data == d.msgs = <<"keepalive", "frame">>
        frag == first \in {"frag0", "frag1"}
        part == [from |-> d.from, known |-> Announced(d)]
        push == Push(ent[e].reasm, FragmentSN(first), first = "frag0", <<part>>, 4, 2)
        t == Insert(Table, d.from, d.src)
    IN  /\ d \in net
        /\ net' = net \ {d}
        /\ \/ /\ first = "join" /\ ~IsSelf(d)
              /\ byZID' = t.byZID /\ bySrc' = t.bySrc /\ ent' = t.ent
              /\ heard' = [heard EXCEPT ![d.src] = d.from]
              /\ UNCHANGED astray
           \/ /\ data /\ e # None
              /\ astray' = (astray \/ Strays(part, e))
              /\ UNCHANGED <<byZID, bySrc, ent, heard>>
           \/ /\ frag /\ e # None
              /\ ent' = [ent EXCEPT ![e].reasm = push.st]
              /\ astray' = (astray \/ \E i \in DOMAIN push.out : Strays(push.out[i], e))
              /\ UNCHANGED <<byZID, bySrc, heard>>
           \/ /\ ((data \/ frag) /\ e = None) \/ first = "oam" \/ IsSelf(d)
              /\ UNCHANGED <<byZID, bySrc, ent, heard, astray>>
        /\ UNCHANGED world

\* runEvictionLoop: EvictExpired
Evict ==
    /\ Evicting # {}
    /\ byZID' = [p \in Peers |-> IF <<p, byZID[p]>> \in Evicting THEN None ELSE byZID[p]]
    /\ bySrc' = [x \in DOMAIN bySrc |-> IF \E e \in Evicting : ent[e].addr = x
                                        THEN None ELSE bySrc[x]]
    /\ ent' = [e \in Entries |-> IF e \in Evicting THEN [ent[e] EXCEPT !.age = 0, !.addr = None]
                                 ELSE ent[e]]
    /\ UNCHANGED <<world, net, heard, astray>>

\* Our own JOIN, looped back to us by the group.
SendJoin ==
    /\ Cardinality(net) < MaxInFlight
    /\ net' = net \cup {JoinOf(Self, SelfAddr)}
    /\ UNCHANGED <<world, table>>

------------------------------------------------------------------------------
Next ==
    \/ \E p \in Peers, x \in Addrs \cup {None} : Move(p, x)
    \/ \E p \in Peers, m \in Datagrams : SendFrom(p, m)
    \/ \E d \in net : Lose(d) \/ Handle(d)
    \/ Tick \/ Evict \/ SendJoin

GroupSpec == Init /\ [][Next]_vars

------------------------------------------------------------------------------
(* Properties.                                                             *)

\* A FRAME or FRAGMENT whose sender's JOIN is the last that was received from its
\* source address is dispatched under that sender's ZenohID, or as part of that
\* sender's message, or not at all: whoever used the address before, however
\* members move, expire and come back, and whatever else came between, though all
\* of them count SNs from 0 (internal/session/multicast_peer.go:36-42, 457-472).
\* It says nothing of data that reaches us before its sender's JOIN, because that
\* JOIN was lost or is on its way: if another member used the address before, the
\* data is dispatched under that member's ZenohID until a JOIN comes from there or
\* the lease ends (lines 142, 464), not dropped "until JOIN seen" (line 466).
Attributed == ~astray

\* A member that stays is in the table and found by its address in the end, and
\* stays so, whoever shared or left that address and whatever was lost: "the
\* JOIN flood will repair the table" (multicast_peer.go:459).  A member that has
\* gone is evicted.
TableRepairs ==
    <>[](\A p \in Peers : IF at[p] # None
                          THEN byZID[p] # None /\ bySrc[at[p]] = <<p, byZID[p]>>
                          ELSE byZID[p] = None)
=============================================================================
