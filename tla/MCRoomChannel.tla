----------------------------- MODULE MCRoomChannel ----------------------------
(* RoomChannel on a small room: the creator's socket and a guest's. *)
EXTENDS RoomChannel, TLC

CONSTANTS creator, guest, host, tab

MCAccountOf == host :> creator @@ tab :> guest
===============================================================================
