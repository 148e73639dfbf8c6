--------------------------- MODULE MCPatchSeries ---------------------------
(***************************************************************************)
(* The patch of the repository, and a second one beside it.                 *)
(***************************************************************************)
EXTENDS PatchSeries

MCSeries == <<<<"Field.h", "Message.cpp", "Message.h">>, <<"Parser.h", "Parser.cpp">>>>
=============================================================================
