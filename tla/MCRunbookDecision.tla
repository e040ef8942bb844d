--------------------------- MODULE MCRunbookDecision ---------------------------
(* Instances of RunbookDecision for TLC: an OMS pattern whose runbook is    *)
(* restart_service; every other key has no row and takes the fallback.      *)
EXTENDS RunbookDecision

MCDefault == [k \in Patterns |-> IF k = "OMS_API_TIMEOUT" THEN "restart_service"
                                 ELSE NoRunbook]
===============================================================================
