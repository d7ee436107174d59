-------------------------- MODULE MCPolicyResolution --------------------------
(* Instance of PolicyResolution for TLC: bodies with a tier or four caps,   *)
(* and bodies that are refused for each of the reasons there are.           *)
EXTENDS PolicyResolution

MCParsed == [s \in {"100", "2.50", "-1", "five"} |->
               CASE s = "100" -> 100 [] s = "2.50" -> 2 [] OTHER -> -1]
Four(s)  == [n \in CapNames |-> s]
Body(role, tier, caps) == [role |-> role, tier |-> tier, caps |-> caps]
MCBodies == {Body("", "standard", Four("")),
             Body("owner", "", Four("2.50")),
             Body("member", "standard", Four("")),
             Body("admin", "platinum", Four("")),
             Body("owner", "standard", Four("100")),
             Body("owner", "", Four("")),
             Body("owner", "", Four("five")),
             Body("owner", "", [Four("100") EXCEPT !["daily"] = ""])}
===============================================================================
