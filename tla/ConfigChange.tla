---------------------------- MODULE ConfigChange ----------------------------
(***************************************************************************)
(* What the change pipeline promises, with everything else left out: there *)
(* is a control plane (what the database says is in force) and a data      *)
(* plane (what files and units hold).  At most one change is open.  The    *)
(* control plane moves only while one is open, by one coordinate, and only *)
(* to what the data plane already holds - unless the change gives up and   *)
(* says so.  A change that closes without giving up leaves both planes     *)
(* equal.                                                                  *)
(***************************************************************************)
CONSTANTS
    Configs,  \* records with the fields rules and exit
    Torn,     \* a data plane that holds no single configuration
    Boot      \* the configuration in force at first

VARIABLES
    control,  \* the configuration the database says is in force
    plane,    \* the configuration every file and unit holds, or Torn
    open,     \* a change is under way
    sound     \* no change gave up since the last confirmed one

changeVars == <<control, plane, open, sound>>

Planes == Configs \cup {Torn}

ChangeTypeOK ==
    /\ control \in Configs
    /\ plane \in Planes
    /\ open \in BOOLEAN
    /\ sound \in BOOLEAN

(* c and d differ at most in their rules or at most in their exit. *)
OneCoordinate(c, d) == c.rules = d.rules \/ c.exit = d.exit

ChangeInit ==
    /\ control = Boot
    /\ plane = Boot
    /\ open = FALSE
    /\ sound = TRUE

Begin ==
    /\ ~open
    /\ open' = TRUE
    /\ UNCHANGED <<control, plane, sound>>

(* Files are written, units reloaded, snapshots restored. *)
Move ==
    /\ open
    /\ plane' \in Planes
    /\ UNCHANGED <<control, open, sound>>

(* The control plane follows the data plane, or is vouched to equal it. *)
Confirm ==
    /\ open
    /\ plane \in Configs
    /\ OneCoordinate(control, plane)
    /\ control' = plane
    /\ sound' \in {sound, TRUE}
    /\ open' \in BOOLEAN
    /\ UNCHANGED plane

(* Nothing to declare: the change closes with both planes equal, or with a *)
(* difference an earlier change has declared.                              *)
End ==
    /\ open
    /\ open' = FALSE
    /\ sound => plane = control
    /\ UNCHANGED <<control, plane, sound>>

(* The change is declared failed; an exit pointer may be left behind. *)
GiveUp ==
    /\ open
    /\ open' \in BOOLEAN
    /\ sound' = FALSE
    /\ control' \in {c \in Configs : OneCoordinate(control, c)}
    /\ UNCHANGED plane

(* A unit that a failed change left down comes back. *)
Repair ==
    /\ ~sound
    /\ plane' \in Planes
    /\ UNCHANGED <<control, open, sound>>

(* The daemon restarts: an open change is cut short. *)
CutShort ==
    /\ open' = FALSE
    /\ sound' = (sound /\ ~open)
    /\ control' \in {c \in Configs : OneCoordinate(control, c)}
    /\ ~open => control' = control
    /\ UNCHANGED plane

ChangeNext ==
    Begin \/ Move \/ Confirm \/ End \/ GiveUp \/ Repair \/ CutShort

ChangeSpec == ChangeInit /\ [][ChangeNext]_changeVars

(* What the caller of a change relies on: while none is open and none has   *)
(* given up, the data plane holds what the database says.                   *)
Settled == ~open /\ sound => plane = control
=============================================================================
