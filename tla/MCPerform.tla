----------------------------- MODULE MCPerform -----------------------------
(* An instance of Perform for TLC.                                         *)
EXTENDS Perform

(* A server, the same host and port over https, and another server.        *)
MCUrl == {[key |-> "a", tls |-> FALSE, path |-> 1],
          [key |-> "a", tls |-> TRUE, path |-> 1],
          [key |-> "b", tls |-> FALSE, path |-> 1]}

(* Two handles that share the pool, one of them with a mux.                *)
MCSetups == {[h \in Handle |->
               [route |-> IF h = 1 THEN "mux" ELSE "direct", shares |-> TRUE]]}
=============================================================================
