----------------------------- MODULE MCPlugins ------------------------------
(* Plugins for TLC: two plugins with a name in common, one of which also   *)
(* has the name of a built-in command, and a library that is no plugin.    *)
EXTENDS Plugins, TLC

CONSTANTS p1, p2, other

TheLibs == {p1, p2, other}
ThePlugins == {p1, p2}
TheNames == {"version", "uptime", "hi"}
TheBuiltins == {"hi"}
TheExports == (p1 :> {"version", "uptime"}) @@ (p2 :> {"uptime", "hi"}) @@ (other :> {})
=============================================================================
