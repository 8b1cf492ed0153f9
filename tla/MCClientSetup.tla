---------------------------- MODULE MCClientSetup ----------------------------
(***************************************************************************)
(* Each kind of tool, two other settings (an MCP server, and what is an    *)
(* mcp_timeout for OpenCode) and two old names.                            *)
(***************************************************************************)
EXTENDS ClientSetup
CONSTANTS server, custom, current, old1, old2, broken
AllTools == ToolKinds
TwoSettings == {server, custom}
OneServer == {server}
TwoOldNames == {old1, old2}
=============================================================================
