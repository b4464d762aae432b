----------------------------- MODULE MCApiClient -----------------------------
(* Instances of ApiClient: a read, two mutations with a body and a bare POST. *)
EXTENDS ApiClient

CONSTANTS read, post, put, bare

MCReads == {read}
MCBodied == {post, put}
MCCalls == MCReads \cup MCBodied \cup {bare}
=============================================================================
