--------------------------- MODULE MCUpdatesStream ---------------------------
(***************************************************************************)
(* Two rows of activity, one or two messages, and a client that opens two  *)
(* connections.                                                            *)
(***************************************************************************)
EXTENDS UpdatesStream, TLC

MCMaxRows == ("activity" :> 2 @@ "inbox" :> 1)

=============================================================================
