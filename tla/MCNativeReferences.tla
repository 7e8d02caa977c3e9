------------------------- MODULE MCNativeReferences -------------------------
(* NativeReferences on small instances.                                    *)
EXTENDS NativeReferences, MCPalSslStream

=============================================================================
