---------------------------- MODULE MCAlgorithms ----------------------------
(* The pure algorithms, checked in one run against their reference           *)
(* definitions: a behaviour is one of a Get's translator, of a reader on one *)
(* batch, of key expressions being joined, or of a walk over a configuration. *)
EXTENDS Consolidation, Wire, KeyExpr, Config, TLC

CONSTANTS k1, k2
VARIABLE which
mcvars == <<consolidationVars, wireVars, keVars, configVars, which>>

MCKeys == {k1, k2}

-----------------------------------------------------------------------------
(* Samples: every option of every message present and absent, chains of    *)
(* no, one and two extensions, integers of one and two bytes.              *)
Ext(i, e) == [id |-> i, mand |-> e = 1, enc |-> e, z |-> IF e = 1 THEN 300 ELSE 0,
              buf |-> IF e = 2 THEN <<7, 200>> ELSE <<>>]
NoExts == <<>>
Chain == <<Ext(1, 1), Ext(3, 2), Ext(15, 0)>>
ChainSamples == {NoExts, <<Ext(2, 2)>>, Chain}
FewExts == {NoExts, Chain}
Kes == [scope : {0, 300}, suffix : {<<>>, <<97, 47>>}, mapping : BOOLEAN]
SomeKes == {[scope |-> 0, suffix |-> <<97>>, mapping |-> FALSE],
            [scope |-> 300, suffix |-> <<>>, mapping |-> TRUE]}
Opt(S) == {<<>>} \cup {<<x>> : x \in S}
Zids == {<<1>>, <<1, 2, 255>>}
Tss == [ntp : {5000}, zid : Zids]
Encs == [id : {0, 300}, schema : {<<>>, <<120, 121>>}]
Puts == [t : {"PUT"}, ts : Opt(Tss), enc : Opt(Encs), exts : FewExts, payload : {<<>>, <<29, 31>>}]
Dels == [t : {"DEL"}, ts : Opt(Tss), exts : FewExts]
SomeBodies == {b \in Puts : b.enc # <<>> /\ b.payload # <<>>} \cup Dels
Queries == [t : {"QUERY"}, cons : Opt({3}), params : {<<>>, <<29>>}, exts : FewExts]
RespBodies ==
    [t : {"REPLY"}, cons : Opt({0}), exts : FewExts, inner : SomeBodies]
    \cup [t : {"ERR"}, enc : Opt(Encs), exts : FewExts, payload : {<<>>, <<5>>}]
Ids == {3, 300}
DeclBodies ==
    [t : {"D_KEYEXPR"}, id : Ids, scope : {0, 300}, suffix : {<<>>, <<97>>}, exts : FewExts]
    \cup [t : {"U_KEYEXPR"}, id : Ids, exts : ChainSamples]
    \cup [t : {"D_ENTITY"}, kind : {2, 4, 6}, id : Ids, ke : Kes, exts : FewExts]
    \cup [t : {"U_ENTITY"}, kind : {3, 5, 7}, id : Ids, ke : Kes, exts : {NoExts, <<Ext(1, 1), Ext(3, 2)>>}]
    \cup [t : {"D_FINAL"}, exts : ChainSamples]
Network ==
    [t : {"PUSH"}, ke : Kes, exts : ChainSamples, body : Puts \cup Dels]
    \cup [t : {"REQUEST"}, id : Ids, ke : Kes, exts : ChainSamples, body : Queries]
    \cup [t : {"RESPONSE"}, id : Ids, ke : SomeKes, exts : FewExts, body : RespBodies]
    \cup [t : {"RESPONSE_FINAL"}, id : Ids, exts : ChainSamples]
    \cup [t : {"DECLARE"}, interest : Opt(Ids), exts : FewExts, body : DeclBodies]
    \cup [t : {"INTEREST"}, mode : {0}, id : Ids, ke : {<<>>}, filter : {0}, exts : ChainSamples]
    \cup [t : {"INTEREST"}, mode : 1..3, id : Ids, ke : Opt(Kes), filter : {1, 14, 143}, exts : FewExts]
Frames == [t : {"FRAME"}, reliable : BOOLEAN, sn : {0, 300}, exts : ChainSamples]
AFrame == [t |-> "FRAME", reliable |-> TRUE, sn |-> 29, exts |-> <<Ext(1, 1)>>]
APush == [t |-> "PUSH", ke |-> [scope |-> 0, suffix |-> <<97>>, mapping |-> FALSE], exts |-> NoExts,
          body |-> [t |-> "DEL", ts |-> <<>>, exts |-> NoExts]]
ADeclare == [t |-> "DECLARE", interest |-> <<>>, exts |-> NoExts, body |-> [t |-> "D_FINAL", exts |-> NoExts]]
Closes == [t : {"CLOSE"}, session : BOOLEAN, reason : {0, 7}, exts : ChainSamples]
Fragments == [t : {"FRAGMENT"}, reliable : BOOLEAN, more : BOOLEAN, sn : Ids, exts : ChainSamples,
              body : {<<4>>, <<29, 5, 200>>}]
Enders == Closes \cup Fragments
Sizes == [res : {10}, batch : {65535, 258}]
Joins == [t : {"JOIN"}, seconds : BOOLEAN, version : {9}, zid : Zids, role : 0..2, sizes : Opt(Sizes),
          lease : Ids, snRel : {0}, snBE : {300},
          exts : {NoExts, <<LaneSNs([i \in 1..8 |-> <<i, 300>>])>>}]
Inits == [t : {"INIT"}, ack : {FALSE}, version : {9}, zid : Zids, role : 0..2, sizes : Opt(Sizes), cookie : {<<>>}, exts : ChainSamples]
         \cup [t : {"INIT"}, ack : {TRUE}, version : {9}, zid : Zids, role : 0..2, sizes : Opt(Sizes), cookie : {<<>>, <<1, 128>>}, exts : ChainSamples]
Opens == [t : {"OPEN"}, ack : {TRUE}, seconds : BOOLEAN, lease : Ids, sn : Ids, cookie : {<<>>}, exts : ChainSamples]
         \cup [t : {"OPEN"}, ack : {FALSE}, seconds : BOOLEAN, lease : Ids, sn : Ids, cookie : {<<1, 128>>}, exts : ChainSamples]
Scouts == [t : {"SCOUT"}, version : {9}, matcher : {1, 3, 7}, zid : Zids \cup {<<>>}, exts : ChainSamples]
Hellos == [t : {"HELLO"}, version : {9}, zid : Zids, role : 0..2,
           locs : {<<>>, <<<<117, 47>>>>, <<<<117>>, <<>>>>}, exts : ChainSamples]
MCBatches ==
    {<<"stream", <<AFrame, m, [t |-> "KEEPALIVE", exts |-> NoExts]>>>> : m \in Network}
    \cup {<<"stream", <<f, APush, APush, [t |-> "KEEPALIVE", exts |-> Chain], f, APush, e>>>> : f \in Frames, e \in Enders}
    \cup {<<"datagram", <<j, AFrame, APush, ADeclare, [t |-> "KEEPALIVE", exts |-> NoExts], e>>>> : j \in Joins, e \in Fragments}
    \cup {<<"handshake", <<m>>>> : m \in Inits \cup Opens \cup Closes}
    \cup {<<"scouting", <<m>>>> : m \in Scouts \cup Hellos}

-----------------------------------------------------------------------------
(* Documents: right and wrong values of every leaf that depends on another *)
(* one or on the order of the walk.                                        *)
Str(s) == [k |-> "str", v |-> s]
Num(n) == [k |-> "num", v |-> n]
Frac == [k |-> "frac", v |-> 2]
Bool(b) == [k |-> "bool", v |-> b]
Arr(a) == [k |-> "arr", v |-> a]
Obj(o) == [k |-> "obj", v |-> o]
\* Objects with any of the given keys present, each with one of its values.
Objects(choice) == UNION {{o \in [K -> UNION {choice[k] : k \in K}] : \A k \in K : o[k] \in choice[k]} : K \in SUBSET DOMAIN choice}
Autoconnects == {Arr(<<Str("peer")>>), Arr(<<Str("peer"), Str("x")>>), Bool(TRUE),
                 Obj("peer" :> Arr(<<Str("router")>>) @@ "client" :> Arr(<<>>)), Obj("peer" :> Num(1)), Obj("x" :> Arr(<<>>))}
Multicasts == {Obj(o) : o \in Objects("autoconnect" :> Autoconnects @@ "listen" :> {Bool(TRUE), Obj("peer" :> Bool(TRUE)), Str("x")} @@ "interface" :> {Str("auto")})}
              \cup {Obj("enabled" :> Bool(FALSE) @@ "address" :> Str("a") @@ "ttl" :> Num(-1)), Str("x")}
Scoutings == {Obj("multicast" :> m) : m \in Multicasts} \cup {Obj("timeout" :> Frac), Obj("timeout" :> Num(3) @@ "multicast" :> Obj("ttl" :> Num(4) @@ "x" :> Num(1)))}
Retries == {Obj("period_init_ms" :> Num(1) @@ "period_max_ms" :> Num(2) @@ "period_increase_factor" :> Frac), Arr(<<>>)}
Connects == {Obj("endpoints" :> Arr(<<Str("a")>>) @@ "retry" :> r) : r \in Retries} \cup {Obj("endpoints" :> Arr(<<Num(1)>>))}
MCDocuments ==
    Objects("mode" :> {Str("peer"), Str(""), Str("x"), Num(1)} @@ "scouting" :> Scoutings @@ "connect" :> Connects)
    \cup {"id" :> Str("1") @@ "listen" :> l @@ "x" :> Num(1) : l \in {Obj("endpoints" :> Arr(<<Str("a")>>)), Num(1)}}
MCInsertions == {<<<<"scouting", "multicast", "ttl">>, Num(3)>>, <<<<"scouting", "x">>, Num(3)>>, <<<<"x">>, Num(3)>>,
                 <<<<"connect", "retry">>, Obj("x" :> Num(1) @@ "period_max_ms" :> Num(1))>>,
                 <<<<"scouting">>, Obj("timeout" :> Num(3) @@ "multicast" :> Num(1))>>}

-----------------------------------------------------------------------------
MCJoinable == {<<"a">>, <<"*">>, <<"**">>, <<"", "b">>, <<"#">>}
MCMaxChunks == <<4, 4>>

-----------------------------------------------------------------------------
WireIdle ==
    /\ layer = "none" /\ sent = <<>> /\ rd = [in |-> <<>>, ok |-> TRUE]
    /\ inFrame = FALSE /\ got = <<>>
ConfigIdle ==
    /\ source = <<"none">> /\ todo = <<>> /\ config = NoConfig /\ outcome = "ok"

MCInit ==
    /\ ConsolidationInit /\ KeInit
    /\ \/ which \in {"replies", "keys"} /\ WireIdle /\ ConfigIdle
       \/ which = "batch" /\ WireInit /\ ConfigIdle
       \/ which = "config" /\ WireIdle /\ ConfigInit

MCNext ==
    /\ \/ which = "replies" /\ ConsolidationNext /\ UNCHANGED <<wireVars, keVars, configVars>>
       \/ which = "batch" /\ WireNext /\ UNCHANGED <<consolidationVars, keVars, configVars>>
       \/ which = "keys" /\ KeNext /\ UNCHANGED <<consolidationVars, wireVars, configVars>>
       \/ which = "config" /\ ConfigNext /\ UNCHANGED <<consolidationVars, wireVars, keVars>>
    /\ UNCHANGED which

MCSpec == MCInit /\ [][MCNext]_mcvars
=============================================================================
