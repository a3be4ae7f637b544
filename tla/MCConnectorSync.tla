--------------------------- MODULE MCConnectorSync ---------------------------
(***************************************************************************)
(* Instance of ConnectorSync for TLC; every constant is a number.           *)
(***************************************************************************)
EXTENDS ConnectorSync, TLC
=============================================================================
