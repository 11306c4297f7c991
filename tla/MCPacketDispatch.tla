--------------------------- MODULE MCPacketDispatch ---------------------------
(* Two characters, whose home is on one continent; the other continent, and *)
(* a dungeon.                                                               *)
EXTENDS PacketDispatch
CONSTANTS c1, c2, home, away, dungeon

MCCosmetic == {<<home, away>>, <<away, home>>}
=============================================================================
