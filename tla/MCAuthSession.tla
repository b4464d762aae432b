---------------------------- MODULE MCAuthSession ----------------------------
(* Instances of AuthSession; the configurations bound tokens, retries and faults. *)
EXTENDS AuthSession
=============================================================================
