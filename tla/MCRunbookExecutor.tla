--------------------------- MODULE MCRunbookExecutor ---------------------------
(* Instances of RunbookExecutor for TLC: a playbook like oms_service_crash, *)
(* and one of which the first action is broken.                            *)
EXTENDS RunbookExecutor

MCActions == [oms_service_crash |-> <<"k8s", "note">>,
              broken            |-> <<"bad", "ansible">>]

MCPlaybooks == DOMAIN MCActions
===============================================================================
