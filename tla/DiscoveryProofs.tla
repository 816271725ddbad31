-------------------------- MODULE DiscoveryProofs --------------------------
(***************************************************************************)
(* Proofs about how nodes find each other: Multicast, for any number of    *)
(* members, addresses, moves and losses, and Scouting, for any number of   *)
(* sockets, nodes and HELLOs.                                              *)
(***************************************************************************)
EXTENDS Multicast, Scouting, SequenceTheorems, FiniteSetTheorems, TLAPS

-----------------------------------------------------------------------------
(* Scouting.                                                               *)

ReaderPlaces == {"read", "hello", "deliver", "unlock", "done"}

\* Readers are at work only between StartLoops and the return of Run.
ReadersRun == run # "running" => \A c \in Sockets : reader[c] = Done

\* The dispatcher's mutex: who delivers or is about to unlock holds it, and what
\* it delivers has not been seen.
MutexInv ==
    \A c \in Sockets :
        /\ reader[c][1] \in {"deliver", "unlock"} => mutex = c
        /\ reader[c][1] = "deliver" => reader[c][2] \notin seen /\ reader[c][2] # Scouter

\* Whoever was reported has been seen.
ToldInv ==
    /\ told \in [Nodes \cup {Scouter} -> Nat]
    /\ \A z \in Nodes \cup {Scouter} : told[z] = 0 \/ (told[z] = 1 /\ z \in seen)
    /\ told[Scouter] = 0

ScoutInv ==
    /\ reader \in [Sockets -> ReaderPlaces \X (Nodes \cup {Scouter})]
    /\ ReadersRun /\ MutexInv /\ ToldInv
    /\ chClosed <=> run = "dropped"
    /\ run \in {"returned", "dropped"} => sockets = {}

\* At the start nobody reads and nobody is reported.
LEMMA InitScout == ScInit => ScoutInv
BY DEF ScInit, ScoutInv, ReaderPlaces, ReadersRun, MutexInv, ToldInv, Done

\* The steps of a reader inside the dispatcher.
LEMMA DispatchScout ==
    ASSUME ScoutInv, NEW c \in Sockets, DispatchStep(c)
    PROVE  ScoutInv'
<1> USE ScoutAssumption
<1>1. /\ reader \in [Sockets -> ReaderPlaces \X (Nodes \cup {Scouter})]
      /\ told \in [Nodes \cup {Scouter} -> Nat]
      /\ UNCHANGED <<run, sockets, chClosed>>
  BY DEF ScoutInv, ToldInv, DispatchStep, TakeMutex, Deliver, Unlock
<1>2. PICK pc \in ReaderPlaces, z \in Nodes \cup {Scouter} : reader[c] = <<pc, z>>
  BY <1>1
<1>3. reader[c][1] = pc /\ reader[c][2] = z
  BY <1>2
<1>4. pc \in {"hello", "deliver", "unlock"}
  BY <1>3 DEF DispatchStep, TakeMutex, Deliver, Unlock
<1>5. run = "running"
  <2>1. reader[c] # Done
    BY <1>2, <1>4 DEF Done
  <2> QED BY <2>1 DEF ScoutInv, ReadersRun
<1>6. PICK qc \in ReaderPlaces, w \in Nodes \cup {Scouter} : reader' = [reader EXCEPT ![c] = <<qc, w>>]
  <2>1. CASE TakeMutex(c)
    <3>1. reader' = [reader EXCEPT ![c] = IF z = Scouter \/ z \in seen
                                          THEN <<"unlock", z>> ELSE <<"deliver", z>>]
      BY <1>3, <2>1 DEF TakeMutex
    <3> QED BY <3>1 DEF ReaderPlaces
  <2>2. CASE Deliver(c)
    <3>1. reader' = [reader EXCEPT ![c] = <<"unlock", z>>]
      BY <1>3, <2>2 DEF Deliver
    <3> QED BY <3>1 DEF ReaderPlaces
  <2>3. CASE Unlock(c)
    BY <2>3 DEF Unlock, Reading, ReaderPlaces
  <2> QED BY <2>1, <2>2, <2>3 DEF DispatchStep
<1>7. /\ reader'[c] = <<qc, w>> /\ \A d \in Sockets : d # c => reader'[d] = reader[d]
      /\ reader' \in [Sockets -> ReaderPlaces \X (Nodes \cup {Scouter})]
  BY <1>1, <1>6
<1>8. ReadersRun'
  BY <1>1, <1>5 DEF ReadersRun
<1>9. CASE TakeMutex(c)
  <2>1. mutex = NoReader /\ mutex' = c /\ UNCHANGED <<seen, told>>
    BY <1>9 DEF TakeMutex, Lockable
  <2>2. reader'[c] = IF z = Scouter \/ z \in seen THEN <<"unlock", z>> ELSE <<"deliver", z>>
    BY <1>1, <1>3, <1>9 DEF TakeMutex
  <2>3. ASSUME NEW d \in Sockets, d # c PROVE reader'[d][1] \notin {"deliver", "unlock"}
    BY <1>7, <2>1, <2>3 DEF ScoutInv, MutexInv
  <2>4. MutexInv'
    BY <2>1, <2>2, <2>3 DEF MutexInv
  <2>5. ToldInv'
    BY <2>1 DEF ScoutInv, ToldInv
  <2> QED BY <1>1, <1>7, <1>8, <2>4, <2>5 DEF ScoutInv
<1>10. CASE Deliver(c)
  <2>1. /\ pc = "deliver" /\ seen' = seen \cup {z} /\ UNCHANGED mutex
        /\ told' = [told EXCEPT ![z] = IF @ < 2 THEN @ + 1 ELSE @]
        /\ reader'[c] = <<"unlock", z>>
    BY <1>1, <1>3, <1>10 DEF Deliver
  <2>2. mutex = c /\ z \notin seen /\ z # Scouter
    BY <1>3, <2>1 DEF ScoutInv, MutexInv
  <2>3. ASSUME NEW d \in Sockets, d # c PROVE reader'[d][1] \notin {"deliver", "unlock"}
    BY <1>7, <2>2, <2>3 DEF ScoutInv, MutexInv
  <2>4. MutexInv'
    BY <2>1, <2>2, <2>3 DEF MutexInv
  <2>5. told[z] = 0
    BY <2>2 DEF ScoutInv, ToldInv
  <2>6. told' = [told EXCEPT ![z] = 1]
    BY <1>1, <2>1, <2>5
  <2>7. ToldInv'
    BY <1>1, <2>1, <2>2, <2>6 DEF ScoutInv, ToldInv
  <2> QED BY <1>1, <1>7, <1>8, <2>4, <2>7 DEF ScoutInv
<1>11. CASE Unlock(c)
  <2>1. pc = "unlock" /\ mutex' = (IF mutex = c THEN NoReader ELSE mutex) /\ UNCHANGED <<seen, told>>
        /\ reader'[c] = <<"read", Scouter>>
    BY <1>1, <1>3, <1>11 DEF Unlock, Reading
  <2>2. mutex = c
    BY <1>3, <2>1 DEF ScoutInv, MutexInv
  <2>3. ASSUME NEW d \in Sockets, d # c PROVE reader'[d][1] \notin {"deliver", "unlock"}
    BY <1>7, <2>2, <2>3 DEF ScoutInv, MutexInv
  <2>4. MutexInv'
    BY <2>1, <2>3 DEF MutexInv
  <2>5. ToldInv'
    BY <2>1 DEF ScoutInv, ToldInv
  <2> QED BY <1>1, <1>7, <1>8, <2>4, <2>5 DEF ScoutInv
<1> QED BY <1>9, <1>10, <1>11 DEF DispatchStep

\* A reader takes a HELLO from its socket, or ends.
LEMMA ReadScout ==
    ASSUME ScoutInv, NEW c \in Sockets, ReadStep(c) \/ ReadEnds(c)
    PROVE  ScoutInv'
<1>1. /\ reader \in [Sockets -> ReaderPlaces \X (Nodes \cup {Scouter})] /\ reader[c] = Reading
      /\ UNCHANGED <<run, sockets, chClosed, mutex, seen, told>>
  BY DEF ScoutInv, ReadStep, ReadEnds, ReadHello
<1>2. PICK pc \in {"hello", "done"}, z \in Nodes \cup {Scouter} :
         reader' = [reader EXCEPT ![c] = <<pc, z>>]
  BY DEF ReadStep, ReadEnds, ReadHello, Done
<1>3. /\ reader'[c] = <<pc, z>> /\ \A d \in Sockets : d # c => reader'[d] = reader[d]
      /\ reader' \in [Sockets -> ReaderPlaces \X (Nodes \cup {Scouter})]
  BY <1>1, <1>2 DEF ReaderPlaces
<1>4. run = "running"
  <2>1. reader[c] # Done
    BY <1>1 DEF Reading, Done
  <2> QED BY <2>1 DEF ScoutInv, ReadersRun
<1>5. ReadersRun'
  BY <1>1, <1>4 DEF ReadersRun
<1>6. MutexInv'
  BY <1>1, <1>3 DEF ScoutInv, MutexInv
<1>7. ToldInv'
  BY <1>1 DEF ScoutInv, ToldInv
<1> QED BY <1>1, <1>3, <1>5, <1>6, <1>7 DEF ScoutInv

\* Every step of a call of Scout.
LEMMA NextScout ==
    ASSUME ScoutInv, [ScNext]_scVars
    PROVE  ScoutInv'
<1>1. CASE \E c \in Sockets : DispatchStep(c)
  BY <1>1, DispatchScout
<1>2. CASE \E c \in Sockets : ReadStep(c) \/ ReadEnds(c)
  BY <1>2, ReadScout
<1>3. CASE StartLoops
  <2>1. /\ run = "opening" /\ sockets = plan
        /\ UNCHANGED <<sockets, chClosed, mutex, seen, told>>
    BY <1>3 DEF StartLoops
  <2>2. CASE plan = {}
    BY <1>3, <2>1, <2>2 DEF StartLoops, ScoutInv, ReadersRun, MutexInv, ToldInv
  <2>3. CASE plan # {}
    <3>1. run' = "running" /\ reader' = [c \in Sockets |-> IF c \in plan THEN Reading ELSE Done]
      BY <1>3, <2>3 DEF StartLoops
    <3>2. /\ \A c \in Sockets : reader'[c][1] \in {"read", "done"}
          /\ reader' \in [Sockets -> ReaderPlaces \X (Nodes \cup {Scouter})]
      BY <3>1 DEF Reading, Done, ReaderPlaces
    <3>3. MutexInv' /\ ReadersRun' /\ ToldInv'
      BY <2>1, <3>1, <3>2 DEF ScoutInv, MutexInv, ReadersRun, ToldInv
    <3> QED BY <2>1, <3>1, <3>2, <3>3 DEF ScoutInv
  <2> QED BY <2>2, <2>3
<1>4. CASE OpenFails \/ RunReturns \/ Drop
  <2>1. /\ UNCHANGED <<reader, mutex, seen, told>> /\ run' \in {"returned", "dropped"}
        /\ chClosed' <=> run' = "dropped"
        /\ sockets' = {}
        /\ \A c \in Sockets : reader[c] = Done
    BY <1>4 DEF OpenFails, RunReturns, Drop, CloseAll, LoopsDone, ScoutInv, ReadersRun
  <2> QED BY <2>1 DEF ScoutInv, ReadersRun, MutexInv, ToldInv
<1>5. CASE \/ \E cs \in SUBSET Sockets : BuildOptions(cs)
           \/ OptionsRefused \/ (\E c \in Sockets : OpenSocket(c))
  <2>1. /\ UNCHANGED <<reader, mutex, seen, told, chClosed>> /\ run \in {"options", "opening"}
        /\ run' \in {"opening", "refused"}
    BY <1>5 DEF BuildOptions, OptionsRefused, OpenSocket
  <2> QED BY <2>1 DEF ScoutInv, ReadersRun, MutexInv, ToldInv
<1>6. CASE \/ Unblock \/ Expire \/ Consume \/ UNCHANGED scVars
           \/ \E c \in SendSockets : SendStep(c) \/ SenderTicks(c)
           \/ \E c \in Sockets, z \in Nodes \cup {Scouter} : Answer(c, z)
  <2>1. UNCHANGED <<run, sockets, reader, mutex, seen, told, chClosed>>
    BY <1>6 DEF Unblock, Expire, Consume, scVars, SendStep, SenderTicks, SendRound, SenderStops, Answer
  <2> QED BY <2>1 DEF ScoutInv, ReadersRun, MutexInv, ToldInv
<1> QED BY <1>1, <1>2, <1>3, <1>4, <1>5, <1>6 DEF ScNext, MainStep

\* However many sockets a node's HELLOs arrive on at the same time, it is reported
\* at most once and we never to ourselves; nothing is delivered into a closed
\* channel; and Run leaves no socket open, however far Open got
\* (dispatcher.tryDeliver, Run, multicast.Open).
THEOREM ScoutSafeHolds == ScoutSpec => []ScoutSafe
<1>1. ScoutInv => ScoutSafe
  <2> SUFFICES ASSUME ScoutInv PROVE ScoutSafe
    OBVIOUS
  <2>1. (\A z \in Nodes : told[z] <= 1) /\ told[Scouter] = 0
    BY DEF ScoutInv, ToldInv
  <2>2. ASSUME chClosed, NEW c \in Sockets, NEW z \in Nodes PROVE reader[c] # <<"deliver", z>>
    <3>1. reader[c] = <<"done", Scouter>>
      BY <2>2 DEF ScoutInv, ReadersRun, Done
    <3> QED BY <3>1
  <2>3. run \in {"returned", "dropped"} => sockets = {}
    BY DEF ScoutInv
  <2> QED BY <2>1, <2>2, <2>3 DEF ScoutSafe
<1> QED BY <1>1, InitScout, NextScout, PTL DEF ScoutSpec

-----------------------------------------------------------------------------
(* Multicast: the reassembler.                                             *)

\* A fragment's sender, and whether its JOIN was the last from the address.
Part == [from : Peers, known : BOOLEAN]
ReasmType == [active : BOOLEAN, expectedSN : Nat, buf : Seq(Part)]

\* Everything in s from an announced sender is from q.
From(c, q) == c.known => c.from = q
AllFrom(s, q) == \A i \in 1..Len(s) : From(s[i], q)

\* A fragment leaves a reassembly of peers' fragments, and one of q's alone if it
\* was that before and the fragment is; so is the body it completes.
LEMMA PushFrom ==
    ASSUME NEW st \in ReasmType, NEW c \in Part, NEW q, NEW sn \in {0, 1}, NEW more \in BOOLEAN,
           NEW r, r = Push(st, sn, more, <<c>>, 4, 2)
    PROVE  /\ r.st \in ReasmType /\ r.out \in Seq(Part)
           /\ AllFrom(st.buf, q) /\ From(c, q) => AllFrom(r.st.buf, q) /\ AllFrom(r.out, q)
<1>1. PICK one : one = <<c>>
  OBVIOUS
<1>2. one \in Seq(Part) /\ Len(one) = 1 /\ one[1] = c
  BY <1>1
<1>3. st.buf \in Seq(Part) /\ st.active \in BOOLEAN
  BY DEF ReasmType
<1>4. PICK n \in Nat : n = Len(st.buf)
  BY <1>3, LenProperties
<1>5. PICK cat : cat = st.buf \o one
  OBVIOUS
<1>6. /\ cat \in Seq(Part) /\ Len(cat) = n + 1
      /\ \A i \in 1..(n + 1) : cat[i] = IF i <= n THEN st.buf[i] ELSE one[i - n]
  <2>1. PICK old : old = st.buf
    OBVIOUS
  <2>2. /\ old \o one \in Seq(Part) /\ Len(old \o one) = Len(old) + Len(one)
        /\ \A i \in 1..(Len(old) + Len(one)) :
              (old \o one)[i] = IF i <= Len(old) THEN old[i] ELSE one[i - Len(old)]
    BY <1>2, <1>3, <2>1, ConcatProperties
  <2> QED BY <1>2, <1>4, <1>5, <2>1, <2>2
<1>7. AllFrom(st.buf, q) /\ From(c, q) => AllFrom(cat, q)
  <2> SUFFICES ASSUME AllFrom(st.buf, q), From(c, q), NEW i \in 1..(n + 1) PROVE From(cat[i], q)
    BY <1>6 DEF AllFrom
  <2>1. CASE i <= n
    BY <1>4, <1>6, <2>1 DEF AllFrom
  <2>2. CASE ~(i <= n)
    <3>1. i - n = 1
      BY <2>2
    <3> QED BY <1>2, <1>6, <2>2, <3>1
  <2> QED BY <2>1, <2>2
<1>8. From(c, q) => AllFrom(one, q)
  BY <1>2 DEF AllFrom
<1>9. PICK buf : buf = IF st.active THEN cat ELSE one
  OBVIOUS
<1>10. buf \in Seq(Part) /\ (AllFrom(st.buf, q) /\ From(c, q) => AllFrom(buf, q))
  BY <1>2, <1>6, <1>7, <1>8, <1>9
<1>11. <<>> \in Seq(Part) /\ AllFrom(<<>>, q)
  BY EmptySeq DEF AllFrom
<1>12. Cleared \in ReasmType /\ Cleared.buf = <<>>
  BY <1>11 DEF Cleared, ReasmType
<1>13. PICK next : next = NextSN(sn, 4)
  OBVIOUS
<1>14. next \in Nat
  BY <1>13 DEF NextSN
<1>15. PICK none, cleared, opened :
         /\ none = <<>> /\ cleared = Cleared
         /\ opened = [active |-> TRUE, expectedSN |-> next, buf |-> buf]
  OBVIOUS
<1>16. opened \in ReasmType /\ opened.buf = buf
  BY <1>10, <1>14, <1>15 DEF ReasmType
<1>17. \/ r = [st |-> cleared, out |-> none]
       \/ r = [st |-> opened, out |-> none]
       \/ r = [st |-> cleared, out |-> buf]
  <2>1. buf = IF st.active THEN st.buf \o <<c>> ELSE <<c>>
    BY <1>1, <1>5, <1>9
  <2> QED BY <1>13, <1>15, <2>1 DEF Push
<1>18. (r.st = cleared \/ r.st = opened) /\ (r.out = none \/ r.out = buf)
  BY <1>17
<1> QED BY <1>10, <1>11, <1>12, <1>15, <1>16, <1>18

-----------------------------------------------------------------------------
(* Multicast: the table of peers.                                          *)

EntryType == [addr : Addrs \cup {None}, age : Nat, reasm : ReasmType]

\* Datagrams of members come from their addresses; ours is a JOIN from our own.
DatagramOk(d) ==
    \/ d.from = Self /\ d.src = SelfAddr /\ d.msgs = <<"join">>
    \/ d.from \in Peers /\ d.src \in Addrs /\ d.msgs \in Datagrams

GroupTypes ==
    /\ at \in [Peers -> Addrs \cup {None}]
    /\ \A d \in net : DatagramOk(d)
    /\ byZID \in [Peers -> Gens \cup {None}]
    /\ bySrc \in [Addrs \cup {SelfAddr} -> Entries \cup {None}] /\ bySrc[SelfAddr] = None
    /\ ent \in [Entries -> EntryType]
    /\ heard = [x \in Addrs |-> heard[x]]

\* An address leads to the entry of the peer whose JOIN came from it last, if to any.
LatestJoin == \A x \in Addrs : bySrc[x] # None => bySrc[x][1] = heard[x]

\* Of announced senders an entry's reassembly holds only its own peer's fragments,
\* whoever had its address.
OwnFragments == \A e \in Entries : AllFrom(ent[e].reasm.buf, e[1])

GroupInv ==
    /\ GroupTypes /\ LatestJoin /\ OwnFragments /\ ~astray

\* There is always a name for a new entry that no address points to.
LEMMA FreshName ==
    ASSUME GroupTypes, NEW p \in Peers
    PROVE  \E g \in Gens : \A y \in DOMAIN bySrc : bySrc[y] # <<p, g>>
<1> USE MulticastAssumption
<1>1. SUFFICES ASSUME \A g \in Gens : \E y \in DOMAIN bySrc : bySrc[y] = <<p, g>>
               PROVE  FALSE
  OBVIOUS
<1>2. DOMAIN bySrc = Addrs \cup {SelfAddr} /\ bySrc[SelfAddr] = None
  BY DEF GroupTypes
<1>3. ASSUME NEW g \in Gens PROVE \E y \in Addrs : bySrc[y] = <<p, g>>
  <2>1. PICK y \in DOMAIN bySrc : bySrc[y] = <<p, g>>
    BY <1>1
  <2>2. y # SelfAddr
    BY <1>2, <2>1
  <2> QED BY <1>2, <2>1, <2>2
<1> DEFINE f == [g \in Gens |-> CHOOSE y \in Addrs : bySrc[y] = <<p, g>>]
<1>4. ASSUME NEW g \in Gens PROVE f[g] \in Addrs /\ bySrc[f[g]] = <<p, g>>
  BY <1>3
<1>5. f \in [Gens -> Addrs]
  BY <1>4
<1>6. ASSUME NEW g \in Gens, NEW h \in Gens, f[g] = f[h] PROVE g = h
  <2>1. <<p, g>> = <<p, h>>
    BY <1>4, <1>6
  <2> QED BY <2>1
<1> HIDE DEF f
<1>7. f \in Injection(Gens, Addrs)
  BY <1>5, <1>6 DEF Injection, IsInjective
<1>8. Cardinality(Gens) <= Cardinality(Addrs)
  BY <1>7, FS_Injection
<1> QED BY <1>8, FS_CardinalityType

\* At the start the table is empty.
LEMMA InitGroup == Init => GroupInv
<1> USE MulticastAssumption
<1> SUFFICES ASSUME Init PROVE GroupInv
  OBVIOUS
<1>1. /\ at = [p \in Peers |-> None] /\ net = {} /\ byZID = [p \in Peers |-> None]
      /\ bySrc = [x \in Addrs \cup {SelfAddr} |-> None]
      /\ ent = [e \in Entries |-> NewEntry(None)]
      /\ heard = [x \in Addrs |-> None] /\ astray = FALSE
  BY DEF Init
<1>2. NewEntry(None) \in EntryType /\ NewEntry(None).reasm.buf = <<>>
  BY EmptySeq DEF NewEntry, EntryType, ReasmType, Cleared
<1>3. GroupTypes
  BY <1>1, <1>2 DEF GroupTypes
<1>4. OwnFragments
  <2>1. \A e \in Entries : ent[e].reasm.buf = <<>>
    BY <1>1, <1>2
  <2> QED BY <2>1 DEF OwnFragments, AllFrom
<1> QED BY <1>1, <1>3, <1>4 DEF GroupInv, LatestJoin

\* The table t after a JOIN of p from x: the peer keeps its entry, or has a new one
\* with nothing in its reassembly, and the address leads there.
Joined(t, p, x) ==
    \E g \in Gens :
        /\ t.byZID = [byZID EXCEPT ![p] = g]
        /\ t.bySrc = [bySrc EXCEPT ![x] = <<p, g>>]
        /\ \/ t.ent = [ent EXCEPT ![<<p, g>>] = [ent[<<p, g>>] EXCEPT !.age = 0, !.addr = x]]
           \/ t.ent = [ent EXCEPT ![<<p, g>>] = NewEntry(x)]

\* That is what Insert does.
LEMMA InsertFacts ==
    ASSUME GroupTypes, NEW p \in Peers, NEW x \in Addrs, NEW t, t = Insert(Table, p, x)
    PROVE  Joined(t, p, x)
<1>1. byZID \in [Peers -> Gens \cup {None}]
  BY DEF GroupTypes
<1>2. PICK tab : tab = Table
  OBVIOUS
<1>3. tab = [byZID |-> byZID, bySrc |-> bySrc, ent |-> ent]
  BY <1>2 DEF Table
<1>4. tab.byZID = byZID /\ tab.bySrc = bySrc /\ tab.ent = ent
  BY <1>3
<1>5. CASE byZID[p] # None
  <2>1. PICK g \in Gens : g = byZID[p]
    BY <1>1, <1>5
  <2>2. t = [tab EXCEPT !.ent[<<p, g>>] = [@ EXCEPT !.age = 0, !.addr = x],
                        !.bySrc[x] = <<p, g>>]
    BY <1>2, <1>4, <1>5, <2>1 DEF Insert
  <2>3. /\ t.byZID = byZID /\ t.bySrc = [bySrc EXCEPT ![x] = <<p, g>>]
        /\ t.ent = [ent EXCEPT ![<<p, g>>] = [ent[<<p, g>>] EXCEPT !.age = 0, !.addr = x]]
    BY <1>3, <2>2
  <2>4. byZID = [byZID EXCEPT ![p] = g]
    BY <1>1, <2>1
  <2> QED BY <2>3, <2>4 DEF Joined
<1>6. CASE byZID[p] = None
  <2>1. PICK g : g = CHOOSE h \in Gens : \A y \in DOMAIN bySrc : bySrc[y] # <<p, h>>
    OBVIOUS
  <2>2. g \in Gens
    BY <2>1, FreshName
  <2>3. t = [tab EXCEPT !.byZID[p] = g, !.bySrc[x] = <<p, g>>, !.ent[<<p, g>>] = NewEntry(x)]
    BY <1>2, <1>4, <1>6, <2>1 DEF Insert
  <2>4. /\ t.byZID = [byZID EXCEPT ![p] = g] /\ t.bySrc = [bySrc EXCEPT ![x] = <<p, g>>]
        /\ t.ent = [ent EXCEPT ![<<p, g>>] = NewEntry(x)]
    BY <1>3, <2>3
  <2> QED BY <2>2, <2>4 DEF Joined
<1> QED BY <1>5, <1>6

\* A JOIN of a peer arrives.
LEMMA JoinGroup ==
    ASSUME GroupInv, NEW p \in Peers, NEW x \in Addrs, NEW t, t = Insert(Table, p, x),
           byZID' = t.byZID, bySrc' = t.bySrc, ent' = t.ent,
           heard' = [heard EXCEPT ![x] = p], UNCHANGED <<astray, at>>,
           \A d \in net' : d \in net
    PROVE  GroupInv'
<1> USE MulticastAssumption
<1>1. /\ GroupTypes /\ LatestJoin /\ ~astray /\ OwnFragments
      /\ at \in [Peers -> Addrs \cup {None}] /\ byZID \in [Peers -> Gens \cup {None}]
      /\ bySrc \in [Addrs \cup {SelfAddr} -> Entries \cup {None}] /\ bySrc[SelfAddr] = None
      /\ ent \in [Entries -> EntryType] /\ heard = [y \in Addrs |-> heard[y]]
  BY DEF GroupInv, GroupTypes
<1>2. PICK g \in Gens :
         /\ byZID' = [byZID EXCEPT ![p] = g]
         /\ bySrc' = [bySrc EXCEPT ![x] = <<p, g>>]
         /\ \/ ent' = [ent EXCEPT ![<<p, g>>] = [ent[<<p, g>>] EXCEPT !.age = 0, !.addr = x]]
            \/ ent' = [ent EXCEPT ![<<p, g>>] = NewEntry(x)]
  <2>1. Joined(t, p, x)
    BY <1>1, InsertFacts
  <2> QED BY <2>1, Zenon DEF Joined
<1>3. PICK e : e = <<p, g>>
  OBVIOUS
<1>4. e \in Entries /\ e[1] = p /\ e # None
  BY <1>3 DEF Entries
<1>5. ent[e] \in EntryType /\ ent[e].reasm \in ReasmType
  BY <1>1, <1>4 DEF EntryType
<1>6. PICK v : v \in EntryType /\ ent' = [ent EXCEPT ![e] = v]
               /\ (v.reasm = ent[e].reasm \/ v.reasm = Cleared)
  <2>1. NewEntry(x) \in EntryType /\ NewEntry(x).reasm = Cleared
    BY EmptySeq DEF NewEntry, EntryType, ReasmType, Cleared
  <2>2. PICK u : u = [ent[e] EXCEPT !.age = 0, !.addr = x]
    OBVIOUS
  <2>3. u \in EntryType /\ u.reasm = ent[e].reasm
    BY <1>5, <2>2 DEF EntryType
  <2> QED BY <1>2, <1>3, <2>1, <2>2, <2>3
<1>7. /\ bySrc'[x] = e /\ heard'[x] = p
      /\ \A y \in Addrs : y # x => bySrc'[y] = bySrc[y] /\ heard'[y] = heard[y]
  BY <1>1, <1>2, <1>3
<1>8. GroupTypes'
  <2>1. byZID' \in [Peers -> Gens \cup {None}] /\ ent' \in [Entries -> EntryType]
    <3>1. byZID' = [byZID EXCEPT ![p] = g]
      BY <1>2
    <3>2. byZID' \in [Peers -> Gens \cup {None}]
      BY <1>1, <3>1
    <3>3. ent' \in [Entries -> EntryType]
      BY <1>1, <1>6
    <3> QED BY <3>2, <3>3
  <2>2. bySrc' \in [Addrs \cup {SelfAddr} -> Entries \cup {None}] /\ bySrc'[SelfAddr] = None
    BY <1>1, <1>2, <1>3, <1>4
  <2>3. heard' = [y \in Addrs |-> heard'[y]]
    BY <1>1
  <2>4. \A d \in net' : DatagramOk(d)
    BY <1>1 DEF GroupTypes
  <2> QED BY <1>1, <2>1, <2>2, <2>3, <2>4 DEF GroupTypes
<1>9. LatestJoin'
  BY <1>1, <1>4, <1>7 DEF LatestJoin
<1>10. OwnFragments => OwnFragments'
  <2> SUFFICES ASSUME OwnFragments, NEW h \in Entries PROVE AllFrom(ent'[h].reasm.buf, h[1])
    BY DEF OwnFragments
  <2>1. CASE h = e
    <3>1. ent'[h].reasm = ent[e].reasm \/ ent'[h].reasm = Cleared
      BY <1>1, <1>4, <1>6, <2>1
    <3>2. Cleared.buf = <<>>
      BY DEF Cleared
    <3>3. AllFrom(<<>>, h[1])
      BY DEF AllFrom
    <3> QED BY <2>1, <3>1, <3>2, <3>3 DEF OwnFragments
  <2>2. CASE h # e
    <3>1. ent'[h] = ent[h]
      BY <1>1, <1>6, <2>2
    <3> QED BY <3>1 DEF OwnFragments
  <2> QED BY <2>1, <2>2
<1> QED BY <1>1, <1>8, <1>9, <1>10 DEF GroupInv

\* Fragment sn of c.from arrives at x, which leads to entry e, and r is what the
\* reassembler makes of it.
FragmentFrom(c, x, e, sn, more, r) ==
    /\ c \in Part /\ x \in Addrs /\ e = bySrc[x] /\ e # None
    /\ sn \in {0, 1} /\ more \in BOOLEAN
    /\ r = Push(ent[e].reasm, sn, more, <<c>>, 4, 2)
    /\ ent' = [ent EXCEPT ![e].reasm = r.st]
    /\ astray' = (astray \/ \E i \in DOMAIN r.out : Strays(r.out[i], e))
    /\ c.known = (heard[x] = c.from)
    /\ UNCHANGED <<byZID, bySrc, heard, at>>
    /\ \A d \in net' : d \in net

\* A fragment that its entry's peer has sent, or one of a sender not announced.
LEMMA FragmentGroup ==
    ASSUME GroupInv, NEW c, NEW x, NEW e, NEW sn, NEW more, NEW r,
           FragmentFrom(c, x, e, sn, more, r)
    PROVE  GroupInv'
<1>0. /\ c \in Part /\ x \in Addrs /\ e = bySrc[x] /\ e # None
      /\ sn \in {0, 1} /\ more \in BOOLEAN
      /\ r = Push(ent[e].reasm, sn, more, <<c>>, 4, 2)
      /\ ent' = [ent EXCEPT ![e].reasm = r.st]
      /\ astray' = (astray \/ \E i \in DOMAIN r.out : Strays(r.out[i], e))
      /\ c.known = (heard[x] = c.from)
      /\ UNCHANGED <<byZID, bySrc, heard, at>>
      /\ \A d \in net' : d \in net
  BY DEF FragmentFrom
<1>1. /\ GroupTypes /\ LatestJoin /\ ~astray /\ OwnFragments
      /\ ent \in [Entries -> EntryType]
      /\ bySrc \in [Addrs \cup {SelfAddr} -> Entries \cup {None}]
  BY DEF GroupInv, GroupTypes
<1>2. e \in Entries /\ e[1] = heard[x]
  BY <1>0, <1>1 DEF LatestJoin
<1>3. PICK old : old = ent[e]
  OBVIOUS
<1>4. old \in EntryType /\ old.reasm \in ReasmType
  BY <1>1, <1>2, <1>3 DEF EntryType
<1>5. /\ r.st \in ReasmType /\ r.out \in Seq(Part)
      /\ AllFrom(old.reasm.buf, e[1]) /\ From(c, e[1]) => AllFrom(r.st.buf, e[1]) /\ AllFrom(r.out, e[1])
  <2>1. r = Push(old.reasm, sn, more, <<c>>, 4, 2)
    BY <1>0, <1>3
  <2> QED BY <1>0, <1>4, <2>1, PushFrom
<1>6. PICK v : v = [old EXCEPT !.reasm = r.st]
  OBVIOUS
<1>7. v \in EntryType /\ v.reasm = r.st
  BY <1>4, <1>5, <1>6 DEF EntryType
<1>8. ent' = [ent EXCEPT ![e] = v]
  BY <1>0, <1>1, <1>2, <1>3, <1>6
<1>9. /\ ent' \in [Entries -> EntryType] /\ ent'[e] = v
      /\ \A h \in Entries : h # e => ent'[h] = ent[h]
  BY <1>1, <1>2, <1>7, <1>8
<1>10. GroupTypes' /\ LatestJoin'
  BY <1>0, <1>1, <1>9 DEF GroupTypes, LatestJoin
<1>11. ~astray' /\ OwnFragments'
  <2>1. From(c, e[1])
    BY <1>0, <1>2 DEF From
  <2>2. AllFrom(r.st.buf, e[1]) /\ AllFrom(r.out, e[1])
    BY <1>1, <1>2, <1>3, <1>5, <2>1 DEF OwnFragments
  <2>3. ~\E i \in DOMAIN r.out : Strays(r.out[i], e)
    <3>1. DOMAIN r.out = 1..Len(r.out)
      BY <1>5, LenProperties
    <3> QED BY <2>2, <3>1 DEF AllFrom, From, Strays
  <2>4. ~astray'
    BY <1>0, <1>1, <2>3
  <2>5. OwnFragments'
    BY <1>1, <1>7, <1>9, <2>2 DEF OwnFragments
  <2> QED BY <2>4, <2>5
<1> QED BY <1>10, <1>11 DEF GroupInv

\* The reader handles a datagram.
LEMMA HandleGroup ==
    ASSUME GroupInv, NEW d \in net, Handle(d)
    PROVE  GroupInv'
<1> USE MulticastAssumption
<1>1. DatagramOk(d) /\ bySrc[SelfAddr] = None
  BY DEF GroupInv, GroupTypes
<1>2. \A c \in net' : c \in net
  BY DEF Handle
<1>3. UNCHANGED at
  BY DEF Handle, world
<1>4. PICK first : first = Head(d.msgs)
  OBVIOUS
<1>5. PICK e : e = bySrc[d.src]
  OBVIOUS
<1>6. PICK t : t = Insert(Table, d.from, d.src)
  OBVIOUS
<1>a. PICK c : c = [from |-> d.from, known |-> Announced(d)]
  OBVIOUS
<1>7. PICK r : r = Push(ent[e].reasm, FragmentSN(first), first = "frag0", <<c>>, 4, 2)
  OBVIOUS
<1>8. \/ /\ first = "join" /\ ~IsSelf(d)
         /\ byZID' = t.byZID /\ bySrc' = t.bySrc /\ ent' = t.ent
         /\ heard' = [heard EXCEPT ![d.src] = d.from]
         /\ UNCHANGED astray
      \/ /\ d.msgs = <<"keepalive", "frame">> /\ e # None
         /\ astray' = (astray \/ Strays(c, e))
         /\ UNCHANGED <<byZID, bySrc, ent, heard>>
      \/ /\ first \in {"frag0", "frag1"} /\ e # None
         /\ ent' = [ent EXCEPT ![e].reasm = r.st]
         /\ astray' = (astray \/ \E i \in DOMAIN r.out : Strays(r.out[i], e))
         /\ UNCHANGED <<byZID, bySrc, heard>>
      \/ UNCHANGED <<byZID, bySrc, ent, heard, astray>>
  BY <1>4, <1>5, <1>6, <1>7, <1>a DEF Handle
<1>9. ASSUME ~IsSelf(d) PROVE d.from \in Peers /\ d.src \in Addrs
  BY <1>1, <1>9 DEF DatagramOk, IsSelf
<1>10. ASSUME e # None PROVE d.from \in Peers /\ d.src \in Addrs
  BY <1>1, <1>5, <1>10 DEF DatagramOk
<1>11. CASE /\ first = "join" /\ ~IsSelf(d)
            /\ byZID' = t.byZID /\ bySrc' = t.bySrc /\ ent' = t.ent
            /\ heard' = [heard EXCEPT ![d.src] = d.from]
            /\ UNCHANGED astray
  <2>1. PICK p \in Peers, x \in Addrs : p = d.from /\ x = d.src
    BY <1>9, <1>11
  <2>2. t = Insert(Table, p, x) /\ heard' = [heard EXCEPT ![x] = p]
    BY <1>6, <1>11, <2>1
  <2> QED BY <1>2, <1>3, <1>11, <2>2, JoinGroup
<1>12. CASE /\ d.msgs = <<"keepalive", "frame">> /\ e # None
            /\ astray' = (astray \/ Strays(c, e))
            /\ UNCHANGED <<byZID, bySrc, ent, heard>>
  <2>1. d.from \in Peers /\ d.src \in Addrs
    BY <1>10, <1>12
  <2>2. e[1] = heard[d.src]
    BY <1>5, <1>12, <2>1 DEF GroupInv, LatestJoin
  <2>3. GroupTypes' /\ LatestJoin'
    BY <1>2, <1>3, <1>12 DEF GroupInv, GroupTypes, LatestJoin
  <2>4. ~Strays(c, e)
    BY <1>a, <2>2 DEF Strays, Announced
  <2>5. ~astray' /\ OwnFragments'
    BY <1>12, <2>4 DEF GroupInv, OwnFragments
  <2> QED BY <2>3, <2>5 DEF GroupInv
<1>13. CASE /\ first \in {"frag0", "frag1"} /\ e # None
            /\ ent' = [ent EXCEPT ![e].reasm = r.st]
            /\ astray' = (astray \/ \E i \in DOMAIN r.out : Strays(r.out[i], e))
            /\ UNCHANGED <<byZID, bySrc, heard>>
  <2>1. PICK p \in Peers, x \in Addrs : p = d.from /\ x = d.src
    BY <1>10, <1>13
  <2>2. PICK sn, more : sn = FragmentSN(first) /\ more = (first = "frag0")
    OBVIOUS
  <2>3. sn \in {0, 1} /\ more \in BOOLEAN
    BY <2>2 DEF FragmentSN
  <2>4. /\ r = Push(ent[e].reasm, sn, more, <<c>>, 4, 2) /\ e = bySrc[x]
        /\ c.from = p /\ c.known = (heard[x] = c.from) /\ c \in Part
    BY <1>5, <1>7, <1>13, <1>a, <2>1, <2>2 DEF Announced, Part
  <2>5. FragmentFrom(c, x, e, sn, more, r)
    BY <1>2, <1>3, <1>13, <2>3, <2>4 DEF FragmentFrom
  <2> QED BY <2>5, FragmentGroup
<1>14. CASE UNCHANGED <<byZID, bySrc, ent, heard, astray>>
  BY <1>2, <1>3, <1>14 DEF GroupInv, GroupTypes, LatestJoin, OwnFragments
<1> QED BY <1>8, <1>11, <1>12, <1>13, <1>14

\* The lease eviction takes entries and addresses out of the table.
LEMMA EvictGroup ==
    ASSUME GroupInv, Evict
    PROVE  GroupInv'
<1>1. /\ byZID' = [p \in Peers |-> IF <<p, byZID[p]>> \in Evicting THEN None ELSE byZID[p]]
      /\ bySrc' = [x \in DOMAIN bySrc |-> IF \E e \in Evicting : ent[e].addr = x
                                          THEN None ELSE bySrc[x]]
      /\ ent' = [e \in Entries |-> IF e \in Evicting THEN [ent[e] EXCEPT !.age = 0, !.addr = None]
                                   ELSE ent[e]]
      /\ UNCHANGED <<at, net, heard, astray>>
  BY DEF Evict, world
<1>2. /\ byZID \in [Peers -> Gens \cup {None}]
      /\ bySrc \in [Addrs \cup {SelfAddr} -> Entries \cup {None}] /\ bySrc[SelfAddr] = None
      /\ ent \in [Entries -> EntryType]
  BY DEF GroupInv, GroupTypes
<1>3. byZID' \in [Peers -> Gens \cup {None}]
  BY <1>1, <1>2
<1>4. /\ bySrc' \in [Addrs \cup {SelfAddr} -> Entries \cup {None}] /\ bySrc'[SelfAddr] = None
      /\ \A x \in Addrs : bySrc'[x] = None \/ bySrc'[x] = bySrc[x]
  BY <1>1, <1>2
<1>5. ASSUME NEW e \in Entries PROVE ent'[e] \in EntryType /\ ent'[e].reasm = ent[e].reasm
  <2>1. PICK u, v : u = ent[e] /\ v = [u EXCEPT !.age = 0, !.addr = None]
    OBVIOUS
  <2>2. u \in EntryType
    BY <1>2, <2>1
  <2>3. v \in EntryType /\ v.reasm = u.reasm
    BY <2>1, <2>2 DEF EntryType
  <2>4. ent'[e] = u \/ ent'[e] = v
    BY <1>1, <2>1
  <2> QED BY <2>1, <2>2, <2>3, <2>4
<1>6. ent' \in [Entries -> EntryType]
  BY <1>1, <1>5
<1>7. GroupTypes'
  BY <1>1, <1>3, <1>4, <1>6 DEF GroupInv, GroupTypes
<1>8. LatestJoin'
  BY <1>1, <1>4 DEF GroupInv, LatestJoin
<1>9. OwnFragments => OwnFragments'
  BY <1>5 DEF OwnFragments
<1> QED BY <1>1, <1>7, <1>8, <1>9 DEF GroupInv

\* A tick makes entries older.
LEMMA TickGroup ==
    ASSUME GroupInv, Tick
    PROVE  GroupInv'
<1>1. /\ ent' = [e \in Entries |-> IF byZID[e[1]] = e[2] /\ ent[e].age <= Lease
                                   THEN [ent[e] EXCEPT !.age = @ + 1] ELSE ent[e]]
      /\ UNCHANGED <<at, net, byZID, bySrc, heard, astray>>
  BY DEF Tick
<1>2. ent \in [Entries -> EntryType]
  BY DEF GroupInv, GroupTypes
<1>3. ASSUME NEW e \in Entries PROVE ent'[e] \in EntryType /\ ent'[e].reasm = ent[e].reasm
  <2>1. PICK u, v : u = ent[e] /\ v = [u EXCEPT !.age = @ + 1]
    OBVIOUS
  <2>2. u \in EntryType /\ u.age \in Nat
    BY <1>2, <2>1 DEF EntryType
  <2>3. v \in EntryType /\ v.reasm = u.reasm
    BY <2>1, <2>2 DEF EntryType
  <2>4. ent'[e] = u \/ ent'[e] = v
    BY <1>1, <2>1
  <2> QED BY <2>1, <2>2, <2>3, <2>4
<1>4. ent' \in [Entries -> EntryType]
  BY <1>1, <1>3
<1>5. GroupTypes' /\ LatestJoin'
  BY <1>1, <1>4 DEF GroupInv, GroupTypes, LatestJoin
<1>6. OwnFragments => OwnFragments'
  BY <1>3 DEF OwnFragments
<1> QED BY <1>1, <1>5, <1>6 DEF GroupInv

\* Every step of the group, its members and the network.
LEMMA NextGroup ==
    ASSUME GroupInv, [Next]_vars
    PROVE  GroupInv'
<1> USE MulticastAssumption
<1>1. CASE \E d \in net : Handle(d)
  BY <1>1, HandleGroup
<1>2. CASE Evict
  BY <1>2, EvictGroup
<1>3. CASE Tick
  BY <1>3, TickGroup
<1>4. CASE \E p \in Peers, x \in Addrs \cup {None} : Move(p, x)
  <2>1. at' \in [Peers -> Addrs \cup {None}] /\ UNCHANGED <<net, byZID, bySrc, ent, heard, astray>>
    BY <1>4 DEF Move, table, GroupInv, GroupTypes
  <2> QED BY <2>1 DEF GroupInv, GroupTypes, LatestJoin, OwnFragments
<1>5. CASE \E p \in Peers, m \in Datagrams : SendFrom(p, m)
  <2>1. PICK p \in Peers, m \in Datagrams : SendFrom(p, m)
    BY <1>5
  <2>2. PICK d : d = [src |-> at[p], from |-> p, msgs |-> m]
    OBVIOUS
  <2>3. /\ net' = net \cup {d} /\ at[p] # None
        /\ UNCHANGED <<at, byZID, bySrc, ent, heard, astray>>
    BY <2>1, <2>2 DEF SendFrom, table
  <2>4. at[p] \in Addrs
    BY <2>3 DEF GroupInv, GroupTypes
  <2>5. DatagramOk(d)
    <3>1. d.src = at[p] /\ d.from = p /\ d.msgs = m
      BY <2>2
    <3> QED BY <2>4, <3>1 DEF DatagramOk
  <2> QED BY <2>3, <2>5 DEF GroupInv, GroupTypes, LatestJoin, OwnFragments
<1>6. CASE SendJoin
  <2>1. PICK d : d = JoinOf(Self, SelfAddr)
    OBVIOUS
  <2>2. net' = net \cup {d} /\ UNCHANGED <<at, byZID, bySrc, ent, heard, astray>>
    BY <1>6, <2>1 DEF SendJoin, table, world
  <2>3. DatagramOk(d)
    <3>1. d.src = SelfAddr /\ d.from = Self /\ d.msgs = <<"join">>
      BY <2>1 DEF JoinOf
    <3> QED BY <3>1 DEF DatagramOk
  <2> QED BY <2>2, <2>3 DEF GroupInv, GroupTypes, LatestJoin, OwnFragments
<1>7. CASE (\E d \in net : Lose(d)) \/ UNCHANGED vars
  <2>1. (\A d \in net' : d \in net) /\ UNCHANGED <<at, byZID, bySrc, ent, heard, astray>>
    BY <1>7 DEF Lose, vars, table, world
  <2> QED BY <2>1 DEF GroupInv, GroupTypes, LatestJoin, OwnFragments
<1> QED BY <1>1, <1>2, <1>3, <1>4, <1>5, <1>6, <1>7 DEF Next

\* For any number of members, addresses, moves and losses: data whose sender's JOIN
\* is the last one received from its source address is never dispatched under
\* another's ZenohID, nor put together with another announced sender's fragments,
\* whoever used the address before (handleDatagram, MulticastPeerTable.Insert,
\* LookupBySrcAddr, EvictExpired).
THEOREM AttributedHolds == GroupSpec => []Attributed
<1>1. GroupInv => Attributed
  BY DEF GroupInv, Attributed
<1> QED BY <1>1, InitGroup, NextGroup, PTL DEF GroupSpec

=============================================================================
