---------------------------- MODULE MCStreamIo ----------------------------
(* Instances of StreamIo for TLC.                                          *)
EXTENDS StreamIo

(* One that writes as it likes, past the threshold too, and does not read; *)
Writer ==
  [flushes |-> FALSE, chunk |-> 3, room |-> 0, writes |-> 5, sent |-> 0]

(* one that reads and writes and flushes after each write.                 *)
Careful ==
  [flushes |-> TRUE, chunk |-> 2, room |-> 2, writes |-> 3, sent |-> 4]

MCCallers == {Writer, Careful}
MCWriters == {Writer}
=============================================================================
