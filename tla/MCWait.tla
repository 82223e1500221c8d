------------------------------- MODULE MCWait -------------------------------
(* Two targets, or one whose turn is followed by another, over two passes.   *)
EXTENDS ThreadsWait

MCOps == {Initialize} \union Reading
MCPayloads == {NoData} \union (Targets \X (Statuses \union 0 .. MaxTurns))
=============================================================================
