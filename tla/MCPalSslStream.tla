--------------------------- MODULE MCPalSslStream ---------------------------
(* PalSslStream on small instances.                                        *)
EXTENDS PalSslStream

(* ClientHello; ServerHello .. ServerHelloDone; ClientKeyExchange ..       *)
(* Finished; the server's Finished.                                        *)
FullHandshake == <<"NEED_WRAP", "NEED_UNWRAP", "NEED_WRAP", "NEED_UNWRAP">>

(* One message each way.                                                   *)
ShortHandshake == <<"NEED_WRAP", "NEED_UNWRAP">>

=============================================================================
