------------------------------ MODULE Startup ------------------------------
(***************************************************************************)
(* How the services of Hajime start: the environment (config.rs), the      *)
(* secrets directory (secrets.rs) and the token a service asks for         *)
(* (auth.rs, and hajime-wa's own check), up to the point where each main   *)
(* either exits or listens.                                                *)
(*                                                                         *)
(* A file is what it holds, whether blanks stand around it, and who may    *)
(* read it.  An address is "loopback" or "exposed" (beyond loopback).      *)
(***************************************************************************)
EXTENDS FiniteSets

CONSTANTS
  None,       \* no value: a variable unset, a file missing, no token
  Tokens,     \* the tokens in use
  Names,      \* files a secrets directory may hold
  Leftovers   \* names that begin with a dot or end with ~

\* A file of spaces only, and one of nothing but line ends.
Odd == {"blanks", "empty"}
Files == [holds : Tokens \cup Odd, padded : BOOLEAN,
          access : {"owner", "others", "denied"}]

ASSUME StartupAssumption ==
  /\ Leftovers \subseteq Names
  /\ Tokens \cap Odd = {}
  /\ None \notin Tokens \cup Odd \cup Files

----------------------------------------------------------------------------
(* config.rs *)

\* var: a value is trimmed, and a blank one counts as unset.
Var(raw) == IF raw = "blank" THEN None ELSE raw

\* or_else.
FirstSet(a, b) == IF a # None THEN a ELSE b

\* Common::from_env: the service's own variable, then the shared one, then the
\* default, which is on loopback for every service.
BindOf(env) == FirstSet(FirstSet(Var(env.own), Var(env.shared)), "loopback")

\* hajime-workflow reads HAJIME_BIND alone, and takes it as it stands.
WorkflowBind(env) ==
  IF env.shared = "blank" THEN "malformed" ELSE FirstSet(env.shared, "loopback")

\* Any address will do, whether there is a token or not.
GuardExposure_AnyBind(bind, hasToken) == TRUE

\* Common::guard_exposure.
GuardExposure(bind, hasToken) == bind = "loopback" \/ hasToken

----------------------------------------------------------------------------
(* secrets.rs *)

\* check_permissions: no bit for anyone but the owner.
TooOpen(f) == f.access = "others"

\* read_file: the mode, the read, and line ends trimmed off; spaces stay.
ReadsAsSecret(f) == ~TooOpen(f) /\ f.access # "denied" /\ f.holds # "empty"

\* The value alone, spaces around it included.
Secret(f) == [token |-> f.holds, padded |-> f.padded]

\* from_dir skips what editors leave behind.
Counted == Names \ Leftovers

\* Store::from_dir: every file must do, or there is no store.
StoreLoads(dir) == \A n \in Counted : dir[n] # None => ReadsAsSecret(dir[n])

\* Store::try_get on a store that loaded.
TryGet(dir, n) ==
  IF n \in Counted /\ dir[n] # None THEN Secret(dir[n]) ELSE None

----------------------------------------------------------------------------
(* auth.rs *)

\* Auth::new keeping the token as the file has it.
NewAuth_Untrimmed(secret) == secret

\* Auth::new: trimmed; blanks are no token.
NewAuth(secret) ==
  IF secret = None \/ secret.token = "blanks" THEN None
  ELSE [secret EXCEPT !.padded = FALSE]

\* bearer: what arrives of a secret sent in a header.  The blanks around it are
\* gone, and a header of blanks alone is no bearer token.
Presented(secret) ==
  IF secret = None \/ secret.token = "blanks" THEN None
  ELSE [token |-> secret.token, padded |-> FALSE]

\* Auth::accepts inside require_token.
Accepts(auth, presented) == auth = None \/ presented = auth

\* AppState::authorised of hajime-wa: the header against the key as the file has
\* it, which a missing header matches no more than a wrong one does.
Authorised(key, presented) == key = None \/ presented = key

----------------------------------------------------------------------------
(* The mains, up to where they listen *)

Exits == [up |-> FALSE, asks |-> None]
Listens(asks) == [up |-> TRUE, asks |-> asks]

\* hajime-ai and hajime-console: the address, the secrets, the token, the guard;
\* each failure ends the process.
StartGuarded(env, dir, name) ==
  LET auth == NewAuth(TryGet(dir, name)) IN
  IF /\ BindOf(env) # "malformed"
     /\ StoreLoads(dir)
     /\ GuardExposure(BindOf(env), auth # None)
  THEN Listens(auth) ELSE Exits

\* hajime-wa keeps the key as it is read.
StartWa(env, dir, name) ==
  LET key == TryGet(dir, name) IN
  IF /\ BindOf(env) # "malformed"
     /\ StoreLoads(dir)
     /\ GuardExposure(BindOf(env), key # None)
  THEN Listens(key) ELSE Exits

\* hajime-workflow: the token comes by the environment (rc.d puts the file's
\* content there), so that no mode is looked at.
StartWorkflow(env, dir, name) ==
  LET file == dir[name]
      auth == IF file = None \/ file.holds = "empty" THEN None ELSE NewAuth(Secret(file))
  IN IF WorkflowBind(env) # "malformed" /\ GuardExposure(WorkflowBind(env), auth # None)
     THEN Listens(auth) ELSE Exits
============================================================================
