-------------------------- MODULE MCEmbeddingQueue --------------------------
(***************************************************************************)
(* Two layouts.  Pair: two contents of two clubs, one edited to another    *)
(* text, the other removed.  Chain: one content edited to another text,    *)
(* then without changing its text.                                         *)
(***************************************************************************)
EXTENDS EmbeddingQueue, TLC

CONSTANTS c1, c2, g1, g2, ta, tb

MCClubOf == [c \in Content |-> IF c = c1 THEN g1 ELSE g2]
MCPair == c1 :> <<ta, tb>> @@ c2 :> <<ta, Removed>>
MCPairTextOf == [j \in Job |-> MCPair[j[1]][j[2]]]
MCChain == <<ta, tb, tb>>
MCChainTextOf == [j \in Job |-> MCChain[j[2]]]

=============================================================================
