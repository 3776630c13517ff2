--------------------------- MODULE MCSessionGuard ---------------------------
(* Small instances of SessionGuard. *)
EXTENDS SessionGuard

CONSTANTS s1, s2, s3

(* Senders are only compared with one another, so that the second message   *)
(* may have the sender of the first, which no slot holds, and a later one   *)
(* that of an earlier one or the next that is new.                          *)
MCWrites == [m \in Messages |-> CASE m <= 2 -> {s1}
                                  [] m = 3 -> {s1, s2}
                                  [] m = 4 -> {s1, s2, s3}]

=============================================================================
