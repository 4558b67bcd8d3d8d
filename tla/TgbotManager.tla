---------------------------- MODULE TgbotManager ----------------------------
(***************************************************************************)
(* The Telegram bot manager (internal/tgbot/manager.go) together with the  *)
(* settings handlers that drive it (internal/api/settings.go, wizard.go)   *)
(* and the overlay of the stored settings on config.yaml at boot:          *)
(* a candidate bot is validated, the settings are committed, and only then *)
(* is the running bot replaced.  Every call may fail or lose its context,  *)
(* a bot may end by itself, and a replaced bot ends some time after its    *)
(* context was cancelled.                                                  *)
(***************************************************************************)
EXTENDS Naturals

CONSTANTS
    Tokens,     \* bot tokens
    NoToken,    \* the empty token
    Admins,     \* non-empty lists of admin chat ids
    NoAdmins,   \* the empty list
    MaxGen,     \* bound: activations in one life of the daemon
    MaxCrashes  \* bound: daemon restarts

ASSUME TgbotManagerAssumption ==
    /\ NoToken \notin Tokens /\ NoAdmins \notin Admins
    /\ MaxGen \in Nat /\ MaxCrashes \in Nat

Settings == [token : Tokens \cup {NoToken}, admins : Admins \cup {NoAdmins}]
Unset == [token |-> NoToken, admins |-> NoAdmins]
Gens == 1..MaxGen

VARIABLES
    yaml,        \* config.yaml: token and admin chat ids
    stored,      \* panel_settings: token and admin chat ids
    cfg,         \* m.token and m.adminChatIDs
    running,     \* m.running
    cancel,      \* the bot whose context m.cancel ends, 0 for nil
    generation,  \* m.generation
    bot,         \* per generation: the state of its goroutine
    botCfg,      \* per generation: the settings it was built from
    call,        \* the call that holds updateMu
    booted,      \* Start has returned
    crashes      \* history: daemon restarts so far

mgrVars == <<cfg, running, cancel, generation, bot, botCfg>>
vars == <<yaml, stored, mgrVars, call, booted, crashes>>

BotStates == {"none", "serving", "cancelled", "exited", "gone"}

TypeOK ==
    /\ yaml \in Settings
    /\ stored \in Settings
    /\ cfg \in Settings
    /\ running \in BOOLEAN
    /\ cancel \in 0..MaxGen
    /\ generation \in 0..MaxGen
    /\ bot \in [Gens -> BotStates]
    /\ botCfg \in [Gens -> Settings]
    /\ call \in [pc : {"none", "validate", "commit", "swap"},
                 kind : {"start", "update", "token", "admins"}, cfg : Settings]
    /\ booted \in BOOLEAN
    /\ crashes \in 0..MaxCrashes

(* OverlayConfig: a stored value that is not empty wins over config.yaml. *)
Overlay(s) ==
    [token  |-> IF s.token = NoToken THEN yaml.token ELSE s.token,
     admins |-> IF s.admins = NoAdmins THEN yaml.admins ELSE s.admins]

Idle == [pc |-> "none", kind |-> "start", cfg |-> Unset]

(* NewManager on a fresh install, with or without a bot in config.yaml. *)
Init ==
    /\ yaml \in Settings
    /\ stored = Unset
    /\ cfg = Unset
    /\ running = FALSE
    /\ cancel = 0
    /\ generation = 0
    /\ bot = [g \in Gens |-> "none"]
    /\ botCfg = [g \in Gens |-> Unset]
    /\ call = Idle
    /\ booted = FALSE
    /\ crashes = 0

----------------------------------------------------------------------------
(* The calls.  updateMu makes them follow one another. *)

Begin(kind, s) ==
    /\ call.pc = "none"
    /\ s.token # NoToken => generation < MaxGen   \* bound
    /\ call' = [pc |-> IF s.token = NoToken THEN "commit" ELSE "validate",
                kind |-> kind, cfg |-> s]

End == call' = [call EXCEPT !.pc = "none"]

(* Start, once per boot and before the handlers are served: without a token *)
(* nothing is built.                                                        *)
Start ==
    /\ ~booted
    /\ booted' = TRUE
    /\ IF Overlay(stored).token = NoToken
         THEN UNCHANGED call
         ELSE Begin("start", Overlay(stored))
    /\ UNCHANGED <<yaml, stored, mgrVars, crashes>>

(* handleUpdateTgbotSettings: both values; a token without admins is        *)
(* refused before the manager is called.                                    *)
Update ==
    /\ booted
    /\ \E s \in Settings :
         /\ s.token # NoToken => s.admins # NoAdmins
         /\ Begin("update", s)
    /\ UNCHANGED <<yaml, stored, mgrVars, booted, crashes>>

(* effectiveTGBot: the value that is not patched comes from the store. *)
EffectiveTGBot(field, v) == [stored EXCEPT ![field] = v]

(* handleUpdatePanelSettings: one of the values is changed.  settingsMu is  *)
(* held from before the store is read until the call has returned.          *)
Patch ==
    /\ booted
    /\ \/ \E t \in Tokens \cup {NoToken} : Begin("token", EffectiveTGBot("token", t))
       \/ \E a \in Admins \cup {NoAdmins} : Begin("admins", EffectiveTGBot("admins", a))
    /\ UNCHANGED <<yaml, stored, mgrVars, booted, crashes>>

(* The candidate does not validate, the context ends, the commit fails.     *)
Fails ==
    /\ call.pc \in {"validate", "commit"}
    /\ End
    /\ UNCHANGED <<yaml, stored, mgrVars, booted, crashes>>

(* buildCandidate has succeeded; Start has nothing to commit. *)
Validated ==
    /\ call.pc = "validate"
    /\ call.cfg.admins # NoAdmins
    /\ call' = [call EXCEPT !.pc = IF call.kind = "start" THEN "swap" ELSE "commit"]
    /\ UNCHANGED <<yaml, stored, mgrVars, booted, crashes>>

(* Mutant: the running bot is replaced although nothing was stored. *)
CommitNothing ==
    /\ call.pc = "commit"
    /\ call' = [call EXCEPT !.pc = "swap"]
    /\ UNCHANGED <<yaml, stored, mgrVars, booted, crashes>>

(* SetMany, one transaction, while the old bot is still live. *)
Commit ==
    /\ call.pc = "commit"
    /\ stored' = call.cfg
    /\ call' = [call EXCEPT !.pc = "swap"]
    /\ UNCHANGED <<yaml, mgrVars, booted, crashes>>

(* Mutant: the old bot is not told to stop. *)
StopNothing == bot

(* stopLocked: the context m.cancel belongs to is cancelled. *)
StopLocked ==
    [g \in Gens |-> IF g = cancel /\ bot[g] = "serving" THEN "cancelled" ELSE bot[g]]

(* Mutant: the generation is bumped by stopLocked as well. *)
BumpTwice == generation + 2

Bump == generation + 1

(* stopLocked, then activateLocked unless the token is empty. *)
Swap ==
    /\ call.pc = "swap"
    /\ cfg' = IF call.cfg.token = NoToken THEN Unset ELSE call.cfg
    /\ IF call.cfg.token = NoToken
         THEN /\ running' = FALSE
              /\ cancel' = 0
              /\ bot' = StopLocked
              /\ UNCHANGED <<generation, botCfg>>
         ELSE /\ generation' = Bump
              /\ running' = TRUE
              /\ cancel' = generation'
              /\ bot' = [StopLocked EXCEPT ![generation'] = "serving"]
              /\ botCfg' = [botCfg EXCEPT ![generation'] = call.cfg]
    /\ End
    /\ UNCHANGED <<yaml, stored, booted, crashes>>

(* Stop keeps token and admin ids. *)
Stop ==
    /\ call.pc = "none"
    /\ running' = FALSE
    /\ cancel' = 0
    /\ bot' = StopLocked
    /\ UNCHANGED <<yaml, stored, cfg, generation, botCfg, call, booted, crashes>>

----------------------------------------------------------------------------
(* The goroutine of a bot. *)

(* Serve returns: its context was cancelled, or it failed. *)
ServeReturns(g) ==
    /\ bot[g] \in {"serving", "cancelled"}
    /\ bot' = [bot EXCEPT ![g] = "exited"]
    /\ UNCHANGED <<yaml, stored, cfg, running, cancel, generation, botCfg, call,
                   booted, crashes>>

(* Mutant: every bot that ends switches the manager off. *)
StillAny(g) == TRUE

(* Mutant: the generation has already been moved on. *)
StillNobody(g) == generation < g

StillMe(g) == generation = g

(* The cleanup: only the bot of the current generation is reflected. *)
CleanUp(g) ==
    /\ bot[g] = "exited"
    /\ bot' = [bot EXCEPT ![g] = "gone"]
    /\ running' = (running /\ ~StillMe(g))
    /\ cancel' = IF StillMe(g) THEN 0 ELSE cancel
    /\ UNCHANGED <<yaml, stored, cfg, generation, botCfg, call, booted, crashes>>

(* The daemon dies and starts again with what is stored. *)
Crash ==
    /\ crashes < MaxCrashes
    /\ crashes' = crashes + 1
    /\ cfg' = Unset
    /\ running' = FALSE
    /\ cancel' = 0
    /\ generation' = 0
    /\ bot' = [g \in Gens |-> "none"]
    /\ botCfg' = [g \in Gens |-> Unset]
    /\ call' = Idle
    /\ booted' = FALSE
    /\ UNCHANGED <<yaml, stored>>

----------------------------------------------------------------------------
CallStep == Fails \/ Validated \/ Commit \/ Swap

BotEnds(g) == bot[g] = "cancelled" /\ ServeReturns(g)

Next ==
    \/ Start \/ Update \/ Patch \/ CallStep \/ Stop \/ Crash
    \/ \E g \in Gens : ServeReturns(g) \/ CleanUp(g)

Spec == Init /\ [][Next]_vars

(* A call goes on, a cancelled bot ends, a bot that has ended cleans up. *)
Fairness ==
    /\ WF_vars(CallStep)
    /\ \A g \in Gens : WF_vars(BotEnds(g)) /\ WF_vars(CleanUp(g))

LiveSpec == Spec /\ Fairness

----------------------------------------------------------------------------
(* At most one bot is live - replaced bots have had their context cancelled *)
(* - and it is the one m.cancel would end (manager.go:25-28).               *)
OneLiveBot ==
    \A g \in Gens : bot[g] = "serving" => g = cancel /\ g = generation /\ running

(* Status does not lie (manager.go:216-225): enabled means that the current *)
(* bot is serving, or has just ended and is about to say so.                *)
StatusHonest ==
    running => generation # 0 /\ bot[generation] \in {"serving", "exited"}

(* SQLite and the running bot are in one failure domain (manager.go:        *)
(* 104-107): whenever no call is between its commit and its swap, the live  *)
(* bot is the one a restart of the daemon would bring up.                   *)
BotMatchesSettings ==
    call.pc # "swap" =>
        \A g \in Gens : bot[g] = "serving" => botCfg[g] = Overlay(stored) /\ cfg = botCfg[g]

(* A bot that ends by itself does not stay enabled: the panel sees it off   *)
(* unless the daemon activates another one (manager.go:216-225).            *)
EndIsNoticed == \A g \in Gens :
    bot[g] = "exited" /\ generation = g ~> ~running \/ generation # g

=============================================================================
