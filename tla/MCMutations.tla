---------------------------- MODULE MCMutations -----------------------------
(* Calls on one thread that can have two turns, the tools chosen freely.     *)
EXTENDS SessionMutations

MCConns == Calls \X {"first", "fresh"}
MCOps == {Initialize} \union [method : ReadMethods \union Changes, turn : 0 .. MaxTurns]
MCMutations == [method : Changes, turn : 0 .. MaxTurns]
MCPayloads == {NoData, Odd} \union 0 .. MaxTurns
=============================================================================
