----------------------------- MODULE MCZephyrBuild ----------------------------
(* Hosts and command lines that ZephyrBuild is checked on.                   *)
EXTENDS ZephyrBuild, TLC

CONSTANTS one, two, nordic, blinky, shell

TwoBuilders == {one, two}
Hals == {nordic}
TwoApps == {blinky, shell}
Hexes == {<<blinky, 1>>}
Nested == {shell}

Plain == [workspaces |-> {}, sdk |-> "none", toolchain |-> FALSE,
          imported |-> Hals, named |-> {}, clutter |-> FALSE]
ManyHosts == {
  Plain,
  [Plain EXCEPT !.imported = {}, !.named = Hals, !.sdk = "last"],
  [Plain EXCEPT !.workspaces = {{}}, !.sdk = "first", !.toolchain = TRUE,
                 !.clutter = TRUE],
  [Plain EXCEPT !.workspaces = {{}, Hals}] }

Usual == [required |-> Hals, ensureOnly |-> FALSE, skipWorkspace |-> FALSE,
          skipSdk |-> FALSE, scratch |-> FALSE, pristine |-> "auto",
          edits |-> FALSE]
Varied == {
  Usual,
  [Usual EXCEPT !.scratch = TRUE],
  [Usual EXCEPT !.pristine = "always", !.skipSdk = TRUE],
  [Usual EXCEPT !.pristine = "never", !.required = {}],
  [Usual EXCEPT !.ensureOnly = TRUE, !.required = {}, !.skipWorkspace = TRUE] }

\* One builder with a varied request and edits, or two that share the cache.
Only(r) == (one :> [r EXCEPT !.edits = TRUE]) @@ (two :> None)
Both == (one :> Usual) @@ (two :> [Usual EXCEPT !.ensureOnly = TRUE])
ManyRequests == {Only(r) : r \in Varied} \cup {Both}
=============================================================================
