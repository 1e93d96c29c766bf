---------------------------- MODULE MCWebServer ----------------------------
(***************************************************************************)
(* The instance of WebServer for TLC: two of the seven sections, which     *)
(* share a key, as they do in persistency.h (the port of the network       *)
(* update is left out).  The user enters a new name for the web server and *)
(* a new password for the network update, not one for the web server.      *)
(***************************************************************************)
EXTENDS WebServer

MCSections   == {"ota", "webserver"}
MCKeys       == [s \in MCSections |-> IF s = "ota" THEN <<"password">> ELSE <<"user", "password">>]
MCTasks      == {"web", "event"}
MCSaveOrder  == <<"ota", "webserver">>
MCPrintOrder == <<"ota">>
MCForms      == {{<<"ota", "password">>, <<"webserver", "user">>}}
=============================================================================
