---------------------------- MODULE MCWorkspaces ----------------------------
(* Two monitors, two windows, one special workspace.                        *)
EXTENDS Workspaces, TLC

Symmetry == Permutations(Windows) \union Permutations(Monitors)
=============================================================================
