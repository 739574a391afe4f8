--------------------------- MODULE MCRoomThreads ---------------------------
EXTENDS RoomThreads, TLC

=============================================================================
