------------------------------ MODULE MCReload ------------------------------
(* The registry and the migrations it waits for, model-checked.            *)
EXTENDS Startup, TLC

CONSTANTS api, web, main, trunk

MCSlugs == {api, web}
MCSettings == {main, trunk}

(* A project is added, removed and added again, and one's settings change. *)
MCRegistries == {api :> main @@ web :> main, api :> trunk}
=============================================================================
