---------------------------- MODULE ServiceTable ----------------------------
(***************************************************************************)
(* The repository's own tables: SERVICES (service.rs) and REQUIREMENTS     *)
(* (world.rs).                                                             *)
(***************************************************************************)
EXTENDS Naturals, Functions

SERVICES ==
  <<"postgresql", "mysql", "redis", "caddy", "cloudflared", "hajime_workflow",
    "hajime_console", "hajime_wa", "hajime_wa_bridge", "hajime_ai", "llamacpp">>

TypicalMb ==
  [s \in Range(SERVICES) |->
     CASE s = "postgresql" -> 500
       [] s = "mysql" -> 400
       [] s = "redis" -> 100
       [] s \in {"caddy", "cloudflared"} -> 50
       [] s = "hajime_workflow" -> 25
       [] s = "hajime_console" -> 15
       [] s = "hajime_wa" -> 20
       [] s \in {"hajime_wa_bridge", "hajime_ai"} -> 30
       [] s = "llamacpp" -> 2200]

EssentialTier ==
  {"postgresql", "mysql", "redis", "caddy", "cloudflared", "hajime_workflow"}

REQUIREMENTS ==
  {<<"hajime_workflow", "postgresql">>, <<"hajime_workflow", "redis">>,
   <<"caddy", "mysql">>, <<"cloudflared", "caddy">>,
   <<"hajime_wa", "hajime_wa_bridge">>, <<"hajime_ai", "llamacpp">>}
=============================================================================
