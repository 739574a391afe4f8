----------------------------- MODULE MCPackets -----------------------------
EXTENDS Packets, TLC

Plain(kinds)   == [counted |-> FALSE, fields |-> kinds]
Counted(kinds) == [counted |-> TRUE, fields |-> kinds]

\* SP_OBJECT_EATEN (Room.cpp:592); SP_LOGIN_RESPONSE (PacketHandlers.cpp:48)
\* without the player's id; SP_UPDATE_WORLD (Room.cpp:378) with some of the
\* fields of its blocks
MCServerLayouts == <<
    [size |-> 12, groups |-> <<Plain(<<"u32", "u32", "u32">>)>>],
    [size |-> 1, groups |-> <<Plain(<<"u8", "text">>)>>],
    [size |-> 0, groups |-> <<Counted(<<"text", "u8">>), Counted(<<"u8">>)>>]
>>

\* HandleRestoreSession, HandleJoinRoomRequest, HandlePong
MCClientLayouts == <<
    <<"text", "u32">>,
    <<"u32", "u8">>,
    <<>>
>>

=============================================================================
