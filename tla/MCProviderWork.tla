--------------------------- MODULE MCProviderWork ---------------------------
(* Small instances of ProviderWork.                                        *)
EXTENDS ProviderWork, TLC

CONSTANTS d, h, g, m, r,   \* a daily, two historical, a maintenance, a rerun work
          a, b,            \* delivery keys
          c1, c2           \* fetcher processes

MCKind == [w \in Works |-> CASE w = d -> "daily" [] w \in {h, g} -> "historical"
                               [] w = m -> "maintenance" [] w = r -> "rerun"]

\* works may share delivery keys
MCScope == [w \in Works |-> Keys]
MCNoData == [w \in Works |-> IF w = m THEN Keys ELSE {}]
MCAccepts == [c \in Clients |-> Kinds]
Symmetry == Permutations(Clients) \cup Permutations(Keys)

---------------------------------------------------------------------------
(* Two works at a time: two historical works, of which one fetcher process *)
(* at a time knows an identity and which meet a cooldown one by one, or a  *)
(* rerun beside a maintenance work with both processes.                    *)

\* The bound on steps: the works created stay within one of the two pairs.
TwoAtATime ==
    LET Created == {w \in Works : work'[w].state # "absent"}
        Holders == {c \in Clients : held'[c] # NoIdentity}
    IN  \/ /\ Created \subseteq {h, g} /\ Cardinality(Holders) <= 1
           /\ cooldown' => Cardinality(Created) = 1
        \/ Created \subseteq {r, m}

PairSymmetry == Permutations({h, g}) \cup Permutations(Clients)
=============================================================================
