--------------------------- MODULE MCChatQueries ---------------------------
(* Instances of ChatQueries for TLC. *)
EXTENDS ChatQueries, TLC

CONSTANTS a, b, srv
MCServers == {srv}
MCConversations == {a, b, srv}
=============================================================================
