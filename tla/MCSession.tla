------------------------------ MODULE MCSession ------------------------------
(* Session on small instances.                                             *)
EXTENDS Session

MCFeatureLists == {<<"VFIRE_EVENT">>, <<"VFIRE_EVENT", "VFIRE_EVENT">>, <<"FRAMESCRIPT_SHUTDOWN">>}
MCDeclared == <<"BAG_UPDATE_DELAYED", "CURSOR_CHANGED", "BAG_UPDATE_DELAYED", "QUEST_REMOVED">>
MCEngineEvents == <<"UNIT_AURA", "PLAYER_LOGIN", "PLAYER_ENTERING_WORLD">>
MCGlueEvents == <<"SHOW_LOGIN_SCREEN">>
MCPairs == {<<"f1", "e1">>, <<"f1", "e2">>, <<"f2", "e1">>}
=============================================================================
