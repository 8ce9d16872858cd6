--------------------------- MODULE SessionManager ---------------------------
(***************************************************************************)
(* The table of sessions (opennotrd/core/session.go) as the data path sees *)
(* it: Server.onConn adds a session once and deletes it after it noticed   *)
(* that the session is closed.  Sessions stand for their virtual           *)
(* addresses: an address has one session for ever (see Server).            *)
(***************************************************************************)
EXTENDS Smux

VARIABLE registered   \* the sessions in the table

AddSession(x) ==
  /\ <<"server", x>> \in up /\ x \notin registered
  /\ registered' = registered \cup {x}
  /\ UNCHANGED S_vars

RemoveSession(x) ==
  /\ <<"server", x>> \notin up /\ x \in registered
  /\ registered' = registered \ {x}
  /\ UNCHANGED S_vars
=============================================================================
