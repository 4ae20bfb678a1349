---------------------------- MODULE MCSession -----------------------------
(* Finite instances of the client session for TLC. *)
EXTENDS Session

(* Nothing saved yet. *)
MCEmptyKeyring == {[username |-> FALSE, password |-> FALSE]}

(* A login saved earlier, or nothing. *)
MCLogin == MCEmptyKeyring \cup {[username |-> TRUE, password |-> TRUE]}
=============================================================================
