------------------------------ MODULE MCReply ------------------------------
(* Instances of Reply for TLC. *)
EXTENDS Reply

Ellipsis == <<3>>

\* Every text of up to four characters of one, two or four bytes each.
ShortTexts == UNION {[1..n -> {1, 2, 4}] : n \in 0..4}
=============================================================================
