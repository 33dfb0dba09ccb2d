----------------------------- MODULE MCMailSend -----------------------------
(* Small instances of MailSend. *)
EXTENDS MailSend

CONSTANT k1

\* Every attempt is at the same message.
OneMessage == [a \in Attempts |-> k1]
=============================================================================
