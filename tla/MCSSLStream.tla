----------------------------- MODULE MCSSLStream -----------------------------
(* SSLStream on small instances.                                           *)
EXTENDS SSLStream

(* ClientHello; ServerHello .. ServerHelloDone; key exchange computation;  *)
(* ClientKeyExchange .. Finished; the server's Finished.                   *)
FullHandshake ==
    <<"NEED_WRAP", "NEED_UNWRAP", "NEED_TASK", "NEED_WRAP", "NEED_UNWRAP">>

(* One message each way.                                                   *)
ShortHandshake == <<"NEED_WRAP", "NEED_UNWRAP">>

=============================================================================
