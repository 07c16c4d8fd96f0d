----------------------------- MODULE MCConsole -----------------------------
(***************************************************************************)
(* A small instance of Console: seven rows of the service table, one         *)
(* directory of secrets for all of them, and the addresses that matter.    *)
(***************************************************************************)
EXTENDS Console, TLC

MCOrder == <<"caddy", "cloudflared", "hajime_workflow", "hajime_console",
             "hajime_ai", "hajime_wa", "llamacpp">>
MCMb == [s \in Range(MCOrder) |-> 1]
MCRequirements == {<<"cloudflared", "caddy">>, <<"hajime_ai", "llamacpp">>}

File(text, pad, who) == [holds |-> text, padded |-> pad, access |-> who]
Good == File("t1", FALSE, "owner")

\* A file written with a space at the end is as common as one without.
MCDir ==
  [f \in Names |-> CASE f = ".swp" -> None
                    [] f = "ai_token" -> File("t1", TRUE, "owner")
                    [] OTHER -> Good]
MCEdits ==
  {<<"ai_token", None>>, <<"ai_token", File("t2", FALSE, "owner")>>,
   <<"workflow_token", File("t2", FALSE, "others")>>,
   <<"workflow_token", File("blanks", FALSE, "owner")>>,
   <<"wa_api_key", File("t1", TRUE, "owner")>>,
   <<".swp", File("t1", FALSE, "others")>>}

At(own, shared) == [own |-> own, shared |-> shared]
MCEnvironments == {At("exposed", None), At("blank", "exposed")}

RecordSymmetry == Permutations(Records)
============================================================================
