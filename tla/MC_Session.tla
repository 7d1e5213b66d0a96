----------------------------- MODULE MC_Session -----------------------------
(* The configurations of Session that TLC looks at.                         *)
EXTENDS Session

AllConfigs == ConfigSpace

(* A backend reached without TLS, otherwise as by default.                  *)
PlainConfigs == {c \in ConfigSpace : ~c.tls /\ ~c.rotation /\ c.ipMatch /\ c.epsv}
=============================================================================
