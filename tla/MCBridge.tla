---- MODULE MCBridge ----
EXTENDS BridgeHost, TLC
CONSTANTS c1, c2, x1, x2
MCDays == {c1 :> {"start_review", "resume_review", "triage_finding", "search", "show_findings", "register_extension_identity", "roger_bridge_status", "other"} @@ c2 :> {},
           c1 :> {"resume_review", "roger_bridge_status"} @@ c2 :> {"start_review"}}
====
