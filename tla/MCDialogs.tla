------------------------------ MODULE MCDialogs -----------------------------
\* One client, one keyboard and one request to load a plugin.
EXTENDS Dialogs, TLC
CONSTANTS c1, k1, p1
MCClients == {c1}
MCKeyboards == {k1}
MCPlugins == {p1}
MCButtons == {"terminate", "wait", "allow", "deny"}
MCThresholds == {1, 2}
=============================================================================
