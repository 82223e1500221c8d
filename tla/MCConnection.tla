---------------------------- MODULE MCConnection ----------------------------
(* One connection, a read and a mutation, replies that arrive late and server *)
(* frames whose ids collide with the client's.                               *)
EXTENDS AppServerConnection

CONSTANTS Read, Mutate

MCOps == {Initialize, Read, Mutate}
MCMutations == {Mutate}
MCPayloads == {NoData}
=============================================================================
