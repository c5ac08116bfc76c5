------------------------------- MODULE MC_Setup -------------------------------
(* Pairs of commands over the checkouts they meet, with the files people edit   *)
(* meanwhile.                                                                   *)
EXTENDS Setup, TLC
CONSTANTS a, b

File(text) == Leaf("file", text, "")
Config == "config" :> File({"legacy"})
Yaml(lane) == "yaml" :> Leaf("file", {"profile"}, lane)
Workflow == "workflow" :> Leaf("file", {}, "managed")
Source == "source" :> File({"src"})
Claude == "claude" :> File({"notes"})
Adapters == "adapter" :> Leaf("file", {}, "generated")
Ignore == "ignore" :> File({"mine"})
Bare == "yaml" :> Leaf("file", {}, "off")

Meeting(first, second, held, open, lane) ==
  [cmd |-> a :> first @@ b :> second, held |-> held, editable |-> open, lane |-> lane]

MCScenarios == {
  Meeting("set", "migrate", Yaml("off") @@ Config, {"yaml", "config"}, "off"),
  Meeting("migrate", "migrate", Yaml("off") @@ Config, {"yaml", "config"}, "off"),
  Meeting("enable", "set", Yaml("off"), {"yaml", "workflow"}, "off"),
  Meeting("enable", "disable", Yaml("on") @@ Workflow, {"workflow"}, "off"),
  Meeting("enable", "disable", Yaml("off"), {"workflow"}, "off"),
  Meeting("disable", "set", Yaml("on") @@ Workflow, {"yaml"}, "off"),
  Meeting("disable", "migrate", Yaml("on") @@ Workflow @@ Config, {}, "off"),
  Meeting("sync", "sync", Yaml("off") @@ Source @@ Adapters @@ Claude, {"source", "claude"}, "off"),
  Meeting("sync", "sync", Bare @@ Source, {"source", "claude", "kept"}, "off"),
  Meeting("init", "none", Source @@ Claude @@ Ignore, {"source", "claude", "ignore", "asset"}, "on"),
  Meeting("init", "init", Ignore, {"ignore"}, "off"),
  Meeting("init", "sync", Source @@ Claude, {"source"}, "off"),
  Meeting("reinit", "none", Yaml("on") @@ Workflow @@ Source @@ Ignore @@ Claude, {"yaml", "source", "ignore", "workflow"}, "on"),
  Meeting("reinit", "set", Yaml("off") @@ Source, {"yaml"}, "on"),
  Meeting("init", "reinit", Ignore, {"asset"}, "off") }
=============================================================================
