------------------------ MODULE MCThinkingProfiles -------------------------
(***************************************************************************)
(* One model that is given, again and again, a contract of each request    *)
(* format, as in the repository's tests, one that cannot be disabled, one  *)
(* with levels of its own only, one without levels, or none, or is taken   *)
(* from the list.  Models do not share state: one is enough.               *)
(***************************************************************************)
EXTENDS ThinkingProfiles

\* A level map that renames "off" and leaves one level out.
MapOf(levels) == [l \in levels \ {"high"} |-> IF l = "off" THEN "none" ELSE l]

MCContracts ==
    {[levels |-> {"off", "low", "high", "max", "turbo"}, default |-> "high",
      canDisable |-> TRUE, map |-> MapOf({"off", "low", "high", "max"}), format |-> "deepseek"],
     [levels |-> {"off", "low", "medium", "xhigh"}, default |-> "medium", canDisable |-> TRUE,
      map |-> [l \in {"off", "low", "medium", "xhigh"} |->
                  IF l = "medium" THEN "" ELSE MapOf({"off", "low", "xhigh"})[l]],
      format |-> "qwen"],
     [levels |-> {"low", "high", "max"}, default |-> "high", canDisable |-> FALSE,
      map |-> MapOf({"low", "high", "max"}), format |-> "openai"],
     [levels |-> {"turbo"}, default |-> "turbo", canDisable |-> FALSE,
      map |-> [l \in {} |-> ""], format |-> "deepseek"],
     [levels |-> {}, default |-> "", canDisable |-> TRUE,
      map |-> [l \in {} |-> ""], format |-> "openai"]}

MCBudgets  == {"-1", "0", "8192"}
MCBudgetOf == [b \in MCBudgets |-> CASE b = "-1" -> -1 [] b = "0" -> 0 [] OTHER -> 8192]
=============================================================================
