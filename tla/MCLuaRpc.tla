------------------------------- MODULE MCLuaRpc -------------------------------
(* LuaRpc with numbers that look like RPC_READY and like a return code. *)
EXTENDS LuaRpc

MCValues == <<64, 0, 1, 64>>
=============================================================================
