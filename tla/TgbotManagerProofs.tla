------------------------- MODULE TgbotManagerProofs -------------------------
(***************************************************************************)
(* The safety properties of the bot manager, for every set of tokens and   *)
(* admin lists and any number of activations and restarts.                 *)
(***************************************************************************)
EXTENDS TgbotManager, TLAPS

(* m.cancel and m.running belong to the current generation; later          *)
(* generations have not been started.                                      *)
GenerationInv ==
    /\ cancel # 0 => cancel = generation
    /\ running => cancel = generation
    /\ \A g \in Gens : g > generation => bot[g] = "none"

(* What a call carries: Start the overlaid settings; an update that has    *)
(* been validated a token with admins; and there is room for one more      *)
(* generation.  After its commit the store holds what the call carries.    *)
CallInv ==
    /\ call.pc # "none" /\ call.cfg.token # NoToken => generation < MaxGen
    /\ call.pc = "validate" => call.cfg.token # NoToken
    /\ call.pc = "commit" => call.kind # "start"
    /\ call.pc \in {"commit", "swap"} /\ call.cfg.token # NoToken
         => call.cfg.admins # NoAdmins
    /\ call.pc # "none" /\ call.kind = "start" => call.cfg = Overlay(stored)
    /\ call.pc = "swap" /\ call.kind # "start" => call.cfg = stored

IInv == /\ TypeOK
        /\ GenerationInv
        /\ CallInv
        /\ OneLiveBot
        /\ StatusHonest
        /\ BotMatchesSettings

(* The overlay of settings that are set is those settings. *)
LEMMA OverlayOfSet ==
    ASSUME NEW s \in Settings, s.token # NoToken, s.admins # NoAdmins
    PROVE  Overlay(s) = s
BY DEF Overlay, Settings

(* The overlay of two settings is settings. *)
LEMMA OverlayType ==
    ASSUME yaml \in Settings, NEW s \in Settings
    PROVE  Overlay(s) \in Settings
BY DEF Overlay, Settings

(* The invariant holds when the daemon starts. *)
LEMMA InitIInv == Init => IInv
<1> SUFFICES ASSUME Init PROVE IInv
  OBVIOUS
<1>1. Unset \in Settings
  BY DEF Unset, Settings
<1>2. call.pc = "none" /\ cancel = 0 /\ running = FALSE
  BY DEF Init, Idle
<1>3. \A g \in Gens : bot[g] = "none"
  BY DEF Init
<1>4. running \in BOOLEAN /\ booted \in BOOLEAN
  BY Zenon DEF Init
<1>5. TypeOK
  BY <1>1, <1>4, TgbotManagerAssumption DEF Init, Idle, TypeOK, BotStates
<1>6. GenerationInv /\ OneLiveBot /\ StatusHonest
  BY <1>2, <1>3 DEF GenerationInv, OneLiveBot, StatusHonest
<1>7. CallInv /\ BotMatchesSettings
  BY <1>2, <1>3 DEF CallInv, BotMatchesSettings
<1> QED BY <1>5, <1>6, <1>7 DEF IInv

(* Begin changes only the call. *)
LEMMA BeginIInv ==
    ASSUME IInv, NEW kind \in {"start", "update", "token", "admins"},
           NEW s \in Settings, Begin(kind, s),
           kind = "start" => s = Overlay(stored) /\ s.token # NoToken,
           UNCHANGED <<yaml, stored, mgrVars, crashes>>, booted' \in BOOLEAN
    PROVE  IInv'
<1>1. /\ call'.pc \in {"validate", "commit"} /\ call'.kind = kind /\ call'.cfg = s
      /\ call'.pc = "validate" <=> s.token # NoToken
  BY DEF Begin
<1>2. TypeOK'
  BY DEF Begin, IInv, TypeOK, mgrVars
<1>3. GenerationInv' /\ OneLiveBot' /\ StatusHonest'
  BY DEF IInv, GenerationInv, OneLiveBot, StatusHonest, mgrVars
<1>4. CallInv'
  BY <1>1 DEF Begin, CallInv, Overlay, mgrVars
<1>5. BotMatchesSettings'
  BY <1>1 DEF Begin, IInv, BotMatchesSettings, Overlay, mgrVars
<1> QED BY <1>2, <1>3, <1>4, <1>5 DEF IInv

(* Start, Update and Patch begin a call. *)
LEMMA CallsIInv ==
    ASSUME IInv, Start \/ Update \/ Patch
    PROVE  IInv'
<1>1. CASE Start
  <2>1. Overlay(stored) \in Settings
    BY OverlayType DEF IInv, TypeOK
  <2>2. CASE Overlay(stored).token = NoToken
    BY <1>1, <2>2
    DEF Start, IInv, TypeOK, GenerationInv, CallInv, OneLiveBot, StatusHonest,
        BotMatchesSettings, Overlay, mgrVars
  <2>3. CASE Overlay(stored).token # NoToken
    BY <1>1, <2>1, <2>3, BeginIInv DEF Start
  <2> QED BY <2>2, <2>3
<1>2. CASE Update
  <2>1. booted' \in BOOLEAN
    BY <1>2 DEF Update, IInv, TypeOK
  <2> QED BY <1>2, <2>1, BeginIInv DEF Update
<1>3. CASE Patch
  <2>1. booted' \in BOOLEAN
    BY <1>3 DEF Patch, IInv, TypeOK
  <2>2. CASE \E t \in Tokens \cup {NoToken} : Begin("token", EffectiveTGBot("token", t))
    <3>1. PICK t \in Tokens \cup {NoToken} : Begin("token", EffectiveTGBot("token", t))
      BY <2>2
    <3>2. EffectiveTGBot("token", t) \in Settings
      BY DEF EffectiveTGBot, IInv, TypeOK, Settings
    <3> QED BY <1>3, <2>1, <3>1, <3>2, BeginIInv DEF Patch
  <2>3. CASE \E a \in Admins \cup {NoAdmins} : Begin("admins", EffectiveTGBot("admins", a))
    <3>1. PICK a \in Admins \cup {NoAdmins} : Begin("admins", EffectiveTGBot("admins", a))
      BY <2>3
    <3>2. EffectiveTGBot("admins", a) \in Settings
      BY DEF EffectiveTGBot, IInv, TypeOK, Settings
    <3> QED BY <1>3, <2>1, <3>1, <3>2, BeginIInv DEF Patch
  <2> QED BY <1>3, <2>2, <2>3 DEF Patch
<1> QED BY <1>1, <1>2, <1>3

(* A call that fails leaves the bot and the settings as they are. *)
LEMMA FailsIInv ==
    ASSUME IInv, Fails
    PROVE  IInv'
BY DEF Fails, End, IInv, TypeOK, GenerationInv, CallInv, OneLiveBot, StatusHonest,
       BotMatchesSettings, Overlay, mgrVars

(* Validation changes nothing but the call. *)
LEMMA ValidatedIInv ==
    ASSUME IInv, Validated
    PROVE  IInv'
BY DEF Validated, IInv, TypeOK, GenerationInv, CallInv, OneLiveBot, StatusHonest,
       BotMatchesSettings, Overlay, mgrVars

(* The commit makes the store equal to what the call carries. *)
LEMMA CommitIInv ==
    ASSUME IInv, Commit
    PROVE  IInv'
BY DEF Commit, IInv, TypeOK, GenerationInv, CallInv, OneLiveBot, StatusHonest,
       BotMatchesSettings, Overlay, mgrVars

(* The bots after stopLocked: none is serving any more. *)
LEMMA StoppedNone ==
    ASSUME IInv
    PROVE  /\ StopLocked \in [Gens -> BotStates]
           /\ \A g \in Gens : StopLocked[g] # "serving"
           /\ \A g \in Gens : g > generation => StopLocked[g] = "none"
BY DEF StopLocked, IInv, TypeOK, GenerationInv, OneLiveBot, BotStates, Gens

(* Without a token the swap leaves no bot; with one it leaves exactly the  *)
(* new bot, built from what the store holds.                               *)
LEMMA SwapIInv ==
    ASSUME IInv, Swap
    PROVE  IInv'
<1>0. Unset \in Settings /\ call'.pc = "none"
  BY DEF Unset, Settings, Swap, End, IInv, TypeOK
<1>1. CASE call.cfg.token = NoToken
  <2>1. TypeOK'
    <3>1. running' \in BOOLEAN
      BY <1>1, Zenon DEF Swap
    <3>2. bot' \in [Gens -> BotStates]
      BY <1>1, StoppedNone DEF Swap
    <3> QED
      BY <1>0, <1>1, <3>1, <3>2, TgbotManagerAssumption DEF Swap, End, IInv, TypeOK
  <2>2. \A g \in Gens : bot'[g] # "serving" /\ (g > generation' => bot'[g] = "none")
    BY <1>1, StoppedNone DEF Swap
  <2>3. cancel' = 0 /\ running' = FALSE
    BY <1>1 DEF Swap
  <2> QED
    BY <1>0, <2>1, <2>2, <2>3
    DEF IInv, GenerationInv, CallInv, OneLiveBot, StatusHonest, BotMatchesSettings
<1>2. CASE call.cfg.token # NoToken
  <2>1. generation \in Nat /\ generation < MaxGen /\ generation' = generation + 1
        /\ generation' \in Gens /\ call.cfg \in Settings
    BY <1>2, TgbotManagerAssumption DEF Swap, Bump, IInv, TypeOK, CallInv, Gens
  <2>2. bot' = [StopLocked EXCEPT ![generation'] = "serving"]
        /\ botCfg' = [botCfg EXCEPT ![generation'] = call.cfg]
        /\ cancel' = generation' /\ running' = TRUE /\ cfg' = call.cfg
    BY <1>2 DEF Swap
  <2>3. TypeOK'
    BY <1>0, <2>1, <2>2, StoppedNone
    DEF Swap, End, IInv, TypeOK, BotStates, Gens
  <2>4. bot'[generation'] = "serving" /\ botCfg'[generation'] = call.cfg
    BY <2>1, <2>2, StoppedNone DEF IInv, TypeOK
  <2>5. \A g \in Gens : g # generation' => bot'[g] = StopLocked[g]
    BY <2>1, <2>2, StoppedNone
  <2>6. GenerationInv' /\ OneLiveBot' /\ StatusHonest'
    BY <2>1, <2>2, <2>4, <2>5, StoppedNone
    DEF GenerationInv, OneLiveBot, StatusHonest, Gens
  <2>7. call.cfg = Overlay(stored) /\ Overlay(stored)' = Overlay(stored)
    <3>1. Overlay(stored)' = Overlay(stored)
      BY DEF Swap, Overlay
    <3>2. call.pc = "swap"
      BY DEF Swap
    <3> QED
      BY <1>2, <2>1, <3>1, <3>2, OverlayOfSet DEF IInv, CallInv
  <2>8. BotMatchesSettings'
    BY <2>2, <2>4, <2>5, <2>7, StoppedNone DEF BotMatchesSettings
  <2>9. CallInv'
    BY <1>0 DEF CallInv
  <2> QED BY <2>3, <2>6, <2>8, <2>9 DEF IInv
<1> QED BY <1>1, <1>2

(* Stop leaves no bot serving. *)
LEMMA StopIInv ==
    ASSUME IInv, Stop
    PROVE  IInv'
<1>1. TypeOK'
  <2>1. running' \in BOOLEAN
    BY Zenon DEF Stop
  <2>2. bot' \in [Gens -> BotStates]
    BY StoppedNone DEF Stop
  <2> QED
    BY <2>1, <2>2, TgbotManagerAssumption DEF Stop, IInv, TypeOK
<1>2. \A g \in Gens : bot'[g] # "serving" /\ (g > generation' => bot'[g] = "none")
  BY StoppedNone DEF Stop
<1> QED
  BY <1>1, <1>2
  DEF Stop, IInv, GenerationInv, CallInv, OneLiveBot, StatusHonest,
      BotMatchesSettings, Overlay

(* A bot that ends is no longer live; its cleanup is still to come. *)
LEMMA ServeReturnsIInv ==
    ASSUME IInv, NEW g \in Gens, ServeReturns(g)
    PROVE  IInv'
<1>1. TypeOK'
  BY DEF ServeReturns, IInv, TypeOK, BotStates
<1>2. GenerationInv' /\ OneLiveBot'
  BY DEF ServeReturns, IInv, TypeOK, GenerationInv, OneLiveBot, BotStates, Gens
<1>3. StatusHonest'
  BY DEF ServeReturns, IInv, TypeOK, StatusHonest, BotStates, Gens
<1>4. CallInv' /\ BotMatchesSettings'
  BY DEF ServeReturns, IInv, TypeOK, CallInv, BotMatchesSettings, Overlay
<1> QED BY <1>1, <1>2, <1>3, <1>4 DEF IInv

(* The cleanup of the current bot switches the manager off, that of a      *)
(* replaced one changes nothing but its goroutine.                         *)
LEMMA CleanUpIInv ==
    ASSUME IInv, NEW g \in Gens, CleanUp(g)
    PROVE  IInv'
<1>0. running' \in BOOLEAN /\ (running' => running /\ generation # g)
  BY Zenon DEF CleanUp, StillMe
<1>1. TypeOK'
  BY <1>0, TgbotManagerAssumption DEF CleanUp, IInv, TypeOK, BotStates
<1>2. GenerationInv' /\ OneLiveBot'
  BY DEF CleanUp, StillMe, IInv, TypeOK, GenerationInv, OneLiveBot, BotStates, Gens
<1>3. StatusHonest'
  BY <1>0 DEF CleanUp, IInv, TypeOK, StatusHonest, BotStates, Gens
<1>4. CallInv' /\ BotMatchesSettings'
  BY DEF CleanUp, IInv, TypeOK, CallInv, BotMatchesSettings, Overlay
<1> QED BY <1>1, <1>2, <1>3, <1>4 DEF IInv

(* After a restart there is no bot until Start. *)
LEMMA CrashIInv ==
    ASSUME IInv, Crash
    PROVE  IInv'
<1>1. Unset \in Settings
  BY DEF Unset, Settings
<1>2. call'.pc = "none" /\ cancel' = 0 /\ running' = FALSE
  BY DEF Crash, Idle
<1>3. \A g \in Gens : bot'[g] = "none"
  BY DEF Crash
<1>4. TypeOK'
  <2>1. running' \in BOOLEAN /\ booted' \in BOOLEAN
    BY Zenon DEF Crash
  <2>2. crashes' \in 0..MaxCrashes
    BY TgbotManagerAssumption DEF Crash, IInv, TypeOK
  <2>3. /\ bot' \in [Gens -> BotStates] /\ botCfg' \in [Gens -> Settings]
        /\ call' \in [pc : {"none", "validate", "commit", "swap"},
                      kind : {"start", "update", "token", "admins"}, cfg : Settings]
    BY <1>1 DEF Crash, Idle, BotStates
  <2> QED
    BY <1>1, <2>1, <2>2, <2>3, TgbotManagerAssumption DEF Crash, IInv, TypeOK
<1>5. GenerationInv' /\ OneLiveBot' /\ StatusHonest'
  BY <1>2, <1>3 DEF GenerationInv, OneLiveBot, StatusHonest
<1>6. CallInv' /\ BotMatchesSettings'
  BY <1>2, <1>3 DEF CallInv, BotMatchesSettings
<1> QED BY <1>4, <1>5, <1>6 DEF IInv

(* Every step of the manager, the handlers and the bots keeps the          *)
(* invariant.                                                              *)
LEMMA NextIInv == IInv /\ [Next]_vars => IInv'
<1> SUFFICES ASSUME IInv, [Next]_vars PROVE IInv'
  OBVIOUS
<1>1. CASE Start \/ Update \/ Patch
  BY <1>1, CallsIInv
<1>2. CASE CallStep
  BY <1>2, FailsIInv, ValidatedIInv, CommitIInv, SwapIInv DEF CallStep
<1>3. CASE Stop
  BY <1>3, StopIInv
<1>4. CASE Crash
  BY <1>4, CrashIInv
<1>5. CASE \E g \in Gens : ServeReturns(g) \/ CleanUp(g)
  BY <1>5, ServeReturnsIInv, CleanUpIInv
<1>6. CASE UNCHANGED vars
  BY <1>6
  DEF IInv, TypeOK, GenerationInv, CallInv, OneLiveBot, StatusHonest,
      BotMatchesSettings, Overlay, vars, mgrVars
<1> QED BY <1>1, <1>2, <1>3, <1>4, <1>5, <1>6 DEF Next

(* The inductive invariant holds in every reachable state. *)
THEOREM Invariance == Spec => []IInv
BY InitIInv, NextIInv, PTL DEF Spec

(* Every variable of the manager keeps its type. *)
THEOREM TypeCorrect == Spec => []TypeOK
<1>1. IInv => TypeOK
  BY DEF IInv
<1> QED BY <1>1, Invariance, PTL

(* There is never more than one live bot, and the manager can stop it.     *)
THEOREM AtMostOneBot == Spec => []OneLiveBot
<1>1. IInv => OneLiveBot
  BY DEF IInv
<1> QED BY <1>1, Invariance, PTL

(* What the panel shows as enabled is a bot that serves or has just ended. *)
THEOREM StatusNeverLies == Spec => []StatusHonest
<1>1. IInv => StatusHonest
  BY DEF IInv
<1> QED BY <1>1, Invariance, PTL

(* Outside the swap the live bot is the one a restart would bring up,      *)
(* whichever validations and commits failed and wherever the daemon died.  *)
THEOREM BotFollowsSettings == Spec => []BotMatchesSettings
<1>1. IInv => BotMatchesSettings
  BY DEF IInv
<1> QED BY <1>1, Invariance, PTL
=============================================================================
