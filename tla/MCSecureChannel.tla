-------------------------- MODULE MCSecureChannel --------------------------
(* SecureChannel.tla over two instants.                                   *)
EXTENDS SecureChannel

Seconds == 0..1
=============================================================================
