------------------------------ MODULE KeyExpr ------------------------------
(***************************************************************************)
(* Key expressions (internal/keyexpr): canonical form, intersection and    *)
(* inclusion, against the sets of keys they stand for.                     *)
(*                                                                         *)
(* A key expression is the sequence of its chunks; "" is the chunk of a    *)
(* doubled, leading or trailing slash and Forbidden one that holds a       *)
(* reserved character.  Two expressions are built up by Join.              *)
(***************************************************************************)
EXTENDS Naturals, Sequences

CONSTANTS Literals,     \* chunks without wildcard
          Joinable,     \* what may be joined on: sequences of chunks
          MaxChunks,    \* bounds on the chunks given to the two expressions
          MaxKey        \* bound on the length of the keys compared

Forbidden == "#"
AnyChunks == "**"

VARIABLES given,  \* given[i]: the chunks the two expressions were built from
          ke      \* ke[i]: the KeyExpr, <<>> before the first Autocanonize
keVars == <<given, ke>>

------------------------------------------------------------------------------
\* canonize: an appended chunk is settled against the tail until no rule fires.
RECURSIVE Settle(_)
Settle(k) ==
    LET n == Len(k)
    IN  IF n >= 2 /\ k[n - 1] = AnyChunks /\ k[n] = AnyChunks THEN Settle(SubSeq(k, 1, n - 1))
        ELSE IF n >= 2 /\ k[n - 1] = AnyChunks /\ k[n] = "*"
             THEN Settle([k EXCEPT ![n - 1] = "*", ![n] = AnyChunks])
        ELSE k
RECURSIVE CanonizeOnto(_, _)
CanonizeOnto(k, s) ==
    IF s = <<>> THEN k
    ELSE CanonizeOnto(IF Head(s) = "" THEN k ELSE Settle(Append(k, Head(s))), Tail(s))
Canonize(s) == CanonizeOnto(<<>>, s)

\* validate: no empty chunk, no reserved character, canonical.
Valid(k) ==
    /\ k # <<>>
    /\ \A i \in DOMAIN k : k[i] \in Literals \cup {"*", AnyChunks}
    /\ \A i \in 1..Len(k) - 1 : ~(k[i] = AnyChunks /\ k[i + 1] \in {"*", AnyChunks})

\* Join: Autocanonize of k, a slash and the suffix; an error leaves k alone.
Join(i, s) ==
    LET k == Canonize(ke[i] \o s)
    IN  /\ Len(given[i]) + Len(s) <= MaxChunks[i]
        /\ Valid(k)
        /\ ke' = [ke EXCEPT ![i] = k]
        /\ given' = [given EXCEPT ![i] = @ \o s]

KeInit == given = [i \in {1, 2} |-> <<>>] /\ ke = [i \in {1, 2} |-> <<>>]
KeNext == \E i \in {1, 2}, s \in Joinable : Join(i, s)

------------------------------------------------------------------------------
\* Mutant of SingleIntersect: a wildcard on the right is a literal.
SingleIntersectLeft(c, d) == c = d \/ c = "*"
\* singleIntersect
SingleIntersect(c, d) == c = d \/ c = "*" \/ d = "*"

RECURSIVE ChunkIntersect(_, _)
ChunkIntersect(a, b) ==
    IF a = <<>> \/ b = <<>> THEN a \in {<<>>, <<AnyChunks>>} /\ b \in {<<>>, <<AnyChunks>>}
    ELSE IF Head(a) = AnyChunks
         THEN Len(a) = 1 \/ ChunkIntersect(Tail(a), b) \/ (Len(b) > 1 /\ ChunkIntersect(a, Tail(b)))
    ELSE IF Head(b) = AnyChunks
         THEN Len(b) = 1 \/ ChunkIntersect(a, Tail(b)) \/ (Len(a) > 1 /\ ChunkIntersect(Tail(a), b))
    ELSE SingleIntersect(Head(a), Head(b)) /\ ChunkIntersect(Tail(a), Tail(b))
Concrete(k) == \A i \in DOMAIN k : k[i] \in Literals
Intersects(a, b) == IF Concrete(a) /\ Concrete(b) THEN a = b ELSE ChunkIntersect(a, b)

\* ltrIncludes
RECURSIVE LtrIncludes(_, _)
LtrIncludes(a, b) ==
    IF Head(a) = AnyChunks
    THEN Len(a) = 1 \/ LtrIncludes(Tail(a), b) \/ (Len(b) > 1 /\ LtrIncludes(a, Tail(b)))
    ELSE /\ b # <<>> /\ Head(b) # AnyChunks
         /\ Head(a) \in {Head(b), "*"}
         /\ IF Len(a) = 1 THEN Len(b) = 1 ELSE LtrIncludes(Tail(a), Tail(b))
Includes(a, b) == a = b \/ LtrIncludes(a, b)

------------------------------------------------------------------------------
(* Properties.                                                             *)

KeysUpTo == UNION {[1..n -> Literals] : n \in 1..MaxKey}

\* The keys an expression stands for: * is one chunk, ** any number of them.
RECURSIVE Matches(_, _)
Matches(k, key) ==
    IF k = <<>> THEN key = <<>>
    ELSE IF Head(k) = AnyChunks THEN Matches(Tail(k), key) \/ (key # <<>> /\ Matches(k, Tail(key)))
    ELSE key # <<>> /\ Head(k) \in {"*", Head(key)} /\ Matches(Tail(k), Tail(key))
KeySet(k) == {key \in KeysUpTo : Matches(k, key)}
NotEmpty(c) == c # ""

\* Canonical form keeps the set of keys, however the expression was put
\* together; Intersects holds exactly when a key is common to both; Includes
\* never holds wrongly, and holds whenever it should if the included expression
\* has no ** (internal/keyexpr/keyexpr.go:91-97, intersect.go:5-6, include.go:3-9).
KeySets ==
    LET S == [i \in {1, 2} |-> KeySet(ke[i])]
    IN  /\ \A i \in {1, 2} : ke[i] # <<>> => S[i] = KeySet(SelectSeq(given[i], NotEmpty))
        /\ ke[1] # <<>> /\ ke[2] # <<>> =>
              /\ Intersects(ke[1], ke[2]) <=> S[1] \cap S[2] # {}
              /\ Includes(ke[1], ke[2]) => S[2] \subseteq S[1]
              /\ S[2] \subseteq S[1] /\ (\A i \in DOMAIN ke[2] : ke[2][i] # AnyChunks) => Includes(ke[1], ke[2])
=============================================================================
