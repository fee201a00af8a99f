----------------------------- MODULE Thinking ------------------------------
(***************************************************************************)
(* How a chat request is shaped by a model's thinking contract: the suffix *)
(* "model(high)", the client's own reasoning_effort, and the fields written*)
(* for the model's request format.                                         *)
(*                                                                         *)
(* Names are abstract: case, spaces and brackets are left out.  A body is  *)
(* its three reasoning fields, Absent where the key is missing; the client *)
(* may have set any of them, those of another request format too.          *)
(***************************************************************************)
EXTENDS Integers

CONSTANTS Contracts,    \* what the gateway may advertise for a model
          NoContract,   \* no usable thinking metadata
          Budgets,      \* the numeric suffixes, as the text they are written in
          BudgetOf,     \* and their values
          NoSuffix, OtherSuffixes, \* no suffix, and those no rule recognises
          OtherLevels,  \* levels a gateway advertises that are not canonical
          Absent,       \* a field the body lacks
          Blank         \* an effort that is blank or not a string

\* canonicalThinkingLevels, from the least effort to the most.
Ordered == <<"minimal", "low", "medium", "high", "xhigh", "max">>
Off     == {"off", "none"}
Levels  == Off \cup {Ordered[i] : i \in DOMAIN Ordered}

\* The suffixes that say something, and all of them.
Known    == Levels \cup Budgets
Suffixes == {NoSuffix} \cup OtherSuffixes \cup OtherLevels \cup Known

\* A contract: the levels are whatever the gateway advertises; its level map is
\* partial.
IsContract(c) ==
    /\ c = [levels |-> c.levels, default |-> c.default, canDisable |-> c.canDisable,
            map |-> c.map, format |-> c.format]
    /\ c.levels \subseteq Levels \cup OtherLevels
    /\ DOMAIN c.map \subseteq Levels \cup OtherLevels
    /\ c.canDisable \in BOOLEAN

ASSUME ThinkingAssumption ==
    /\ \A c \in Contracts : IsContract(c)
    /\ NoContract \notin Contracts
    /\ {Absent, Blank, ""} \cap (Levels \cup OtherLevels) = {}
    /\ BudgetOf \in [Budgets -> Int]
    /\ Levels \cap Budgets = {}
    /\ ({NoSuffix} \cup OtherSuffixes \cup OtherLevels) \cap Known = {}

----------------------------------------------------------------------------
(* profiles.go *)

\* Faulty: a model that lost its levels keeps the profile it had.
KeptProfile(c, old) ==
    IF c = NoContract \/ c.levels = {} THEN old
    ELSE [c EXCEPT !.map = [l \in {k \in DOMAIN c.map : c.map[k] # ""} |-> c.map[l]]]

\* storeThinkingProfile: blank mappings are dropped; a model without levels has
\* no profile, whatever it had before (old).
Profile(c, old) ==
    IF c = NoContract \/ c.levels = {} THEN NoContract
    ELSE [c EXCEPT !.map = [l \in {k \in DOMAIN c.map : c.map[k] # ""} |-> c.map[l]]]

\* upstreamLevel.
Upstream(c, level) == IF level \in DOMAIN c.map THEN c.map[level] ELSE level

\* Faulty: the most effort instead of the least.
HighestLevel(c) ==
    LET offered == {i \in DOMAIN Ordered : Ordered[i] \in c.levels} IN
    IF offered = {} THEN c.default
    ELSE Ordered[CHOOSE i \in offered : \A j \in offered : i >= j]

\* lowestLevel; its last resort, "low", is for a contract without a default.
LowestLevel(c) ==
    LET offered == {i \in DOMAIN Ordered : Ordered[i] \in c.levels} IN
    IF offered # {} THEN Ordered[CHOOSE i \in offered : \A j \in offered : i <= j]
    ELSE IF c.default # "" THEN c.default ELSE "low"

----------------------------------------------------------------------------
(* thinking.go *)

NoIntent == [level |-> "", disable |-> FALSE, given |-> FALSE]

\* parseThinkingSuffix: a budget only switches thinking on or off; a level that is
\* not canonical is no level, even if the gateway advertises it.
Intent(suffix) ==
    IF suffix \in Budgets
    THEN [level |-> "", disable |-> BudgetOf[suffix] = 0, given |-> TRUE]
    ELSE IF suffix \in Levels
    THEN [level |-> suffix, disable |-> suffix \in Off, given |-> TRUE]
    ELSE NoIntent

\* What the body is to say: nothing new, thinking off, or an effort.
Untouched    == [kind |-> "untouched", effort |-> ""]
Disabled     == [kind |-> "off", effort |-> ""]
Effort(e)    == [kind |-> "on", effort |-> e]

Default(c)   == Effort(Upstream(c, c.default))

\* An asked level, if the model offers it.
Offered(c, level) == IF level \in c.levels THEN Effort(Upstream(c, level)) ELSE Default(c)

\* Faulty: a level the model does not offer is sent as it is.
DecisionVerbatim(c, suffix, effort) ==
    LET intent == Intent(suffix) IN
    CASE intent.disable /\ c.canDisable  -> Disabled
      [] intent.disable /\ ~c.canDisable -> Effort(Upstream(c, LowestLevel(c)))
      [] ~intent.disable /\ intent.level # "" -> Effort(Upstream(c, intent.level))
      [] intent.given /\ intent.level = "" /\ ~intent.disable -> Default(c)
      [] ~intent.given -> IF effort \in {Absent, Blank} THEN Untouched
                          ELSE Offered(c, effort)

\* applyThinking up to the fields: the suffix wins over the client's effort.
Decision(c, suffix, effort) ==
    LET intent == Intent(suffix) IN
    CASE intent.disable /\ c.canDisable  -> Disabled
      [] intent.disable /\ ~c.canDisable -> Effort(Upstream(c, LowestLevel(c)))
      [] ~intent.disable /\ intent.level # "" -> Offered(c, intent.level)
      [] intent.given /\ intent.level = "" /\ ~intent.disable -> Default(c)
      [] ~intent.given -> IF effort \in {Absent, Blank} THEN Untouched
                          ELSE Offered(c, effort)

\* Faulty: switching off leaves the client's effort in the body.
FieldsKeepEffort(c, d, client) ==
    [thinking        |-> IF c.format # "deepseek" THEN client.thinking
                         ELSE IF d.kind = "on" THEN "enabled" ELSE "disabled",
     enable_thinking |-> IF c.format # "qwen" THEN client.enable_thinking
                         ELSE IF d.kind = "on" THEN "true" ELSE "false",
     effort          |-> IF d.kind = "on" THEN d.effort ELSE client.effort]

\* The fields by request format; every other format writes the effort only, and a
\* field of another format stays as the client sent it.
Fields(c, d, client) ==
    [thinking        |-> IF c.format # "deepseek" THEN client.thinking
                         ELSE IF d.kind = "on" THEN "enabled" ELSE "disabled",
     enable_thinking |-> IF c.format # "qwen" THEN client.enable_thinking
                         ELSE IF d.kind = "on" THEN "true" ELSE "false",
     effort          |-> IF d.kind = "on" THEN d.effort ELSE Absent]

\* applyThinking as prepareBody calls it.  A model without a profile gets nothing.
Body(c, suffix, client) ==
    IF c = NoContract THEN client
    ELSE LET d == Decision(c, suffix, client.effort)
         IN  IF d = Untouched THEN client ELSE Fields(c, d, client)
=============================================================================
