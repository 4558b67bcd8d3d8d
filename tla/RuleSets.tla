----------------------------- MODULE RuleSets ------------------------------
(***************************************************************************)
(* A registered rule set and its refresh (internal/rulesets, the handlers  *)
(* of internal/api/rulesets.go): the periodic Syncer.Run and the syncs on  *)
(* demand fetch without a lock, each in three moments: the row is read,    *)
(* the server answers, the outcome is written to the row of that name,     *)
(* whatever became of the row meanwhile. The database itself does not fail *)
(* here.                                                                   *)
(*                                                                         *)
(* A server (external) has a current version. It answers 304 to the tag of *)
(* that version; a server that knows dates only answers 304 to any newer   *)
(* version, of whatever source.                                            *)
(***************************************************************************)
EXTENDS Integers

CONSTANTS
    Urls,      \* sources
    Dated,     \* sources that compare dates only
    Syncs,     \* the periodic sync "run" and the syncs on demand
    MaxEdits   \* bound on what the operator and the servers change

ASSUME RuleSetsAssumption ==
    Urls /= {} /\ Dated \subseteq Urls /\ "run" \in Syncs /\ MaxEdits \in Nat

VARIABLES
    row,     \* the row of the rule set
    served,  \* the version each source serves
    sync,    \* the syncs
    edits    \* changes so far

rsVars == <<row, served, sync, edits>>

Versions == 0..MaxEdits
Content == [url : Urls, version : Versions]
AnyUrl == CHOOSE u \in Urls : TRUE
Nothing == [url |-> AnyUrl, version |-> -1]

NoRow == [there |-> FALSE, url |-> AnyUrl, on |-> FALSE, content |-> Nothing,
          tag |-> Nothing, err |-> FALSE]

SyncIdle == [pc |-> "idle", url |-> AnyUrl, tag |-> Nothing, got |-> "none", body |-> Nothing]

Rows == [there : BOOLEAN, url : Urls, on : BOOLEAN, content : Content \cup {Nothing},
         tag : Content \cup {Nothing}, err : BOOLEAN]

SyncStates == [pc : {"idle", "begin", "fetch", "store"}, url : Urls, tag : Content \cup {Nothing},
               got : {"none", "same", "body", "error"}, body : Content \cup {Nothing}]

RsTypeOK ==
    /\ row \in Rows
    /\ served \in [Urls -> Versions]
    /\ edits \in 0..MaxEdits
    /\ sync \in [Syncs -> SyncStates]

RsInit ==
    /\ row = NoRow /\ edits = 0
    /\ served = [u \in Urls |-> 0]
    /\ sync = [p \in Syncs |-> SyncIdle]

-----------------------------------------------------------------------------
(* The store                                                                *)

\* Upsert: a row that is there keeps its content and its tags.
Upserted(u, on) ==
    IF row.there THEN [row EXCEPT !.url = u, !.on = on]
                 ELSE [NoRow EXCEPT !.there = TRUE, !.url = u, !.on = on]

\* UpdateContent, TouchSyncedAt and RecordError change nothing when the row is gone.
UpdateContent(c) ==
    IF row.there THEN [row EXCEPT !.content = c, !.tag = c, !.err = FALSE] ELSE row
TouchSyncedAt == IF row.there THEN [row EXCEPT !.err = FALSE] ELSE row

\* Mutant: a body that is too large is remembered by its tag.
RecordErrorAndTag(c) ==
    IF row.there THEN [row EXCEPT !.err = TRUE, !.tag = IF c = Nothing THEN @ ELSE c] ELSE row

\* The body c of a failed read leaves no trace.
RecordError(c) == IF row.there THEN [row EXCEPT !.err = TRUE] ELSE row

-----------------------------------------------------------------------------
(* SyncOne                                                                  *)

\* SyncOne is called for the name of the set, from the list of Run or by a goroutine
\* of its own, and reads the row when it gets to run.
Called(p) == [sync EXCEPT ![p].pc = "begin"]

\* Store.Get; a row that is gone ends the sync.
Begin(p) ==
    /\ sync[p].pc = "begin"
    /\ sync' = [sync EXCEPT ![p] =
                  IF row.there
                  THEN [SyncIdle EXCEPT !.pc = "fetch", !.url = row.url, !.tag = row.tag]
                  ELSE SyncIdle]
    /\ UNCHANGED <<row, served, edits>>

NotModified(u, tag) ==
    \/ tag = [url |-> u, version |-> served[u]]
    \/ u \in Dated /\ tag.version >= served[u]

\* The server answers, or the client gives up; the body may be lost or too large.
Fetch(p) ==
    /\ sync[p].pc = "fetch"
    /\ LET u == sync[p].url
           now == [url |-> u, version |-> served[u]]
           Got(kind, c) == sync' = [sync EXCEPT ![p].pc = "store", ![p].got = kind, ![p].body = c]
       IN \/ NotModified(u, sync[p].tag) /\ Got("same", Nothing)
          \/ ~NotModified(u, sync[p].tag) /\ (Got("body", now) \/ Got("error", now))
          \/ Got("error", Nothing)
    /\ UNCHANGED <<row, served, edits>>

Store(p) ==
    /\ sync[p].pc = "store"
    /\ row' = CASE sync[p].got = "same" -> TouchSyncedAt
                [] sync[p].got = "body" -> UpdateContent(sync[p].body)
                [] OTHER -> RecordError(sync[p].body)
    /\ sync' = [sync EXCEPT ![p] = SyncIdle]
    /\ UNCHANGED <<served, edits>>

\* The context of a sync on demand ends, with its client or after 30 s: neither the
\* outcome nor the error can be written any more.
Abandoned(p) ==
    /\ p /= "run" /\ sync[p].pc /= "idle"
    /\ sync' = [sync EXCEPT ![p] = SyncIdle]
    /\ UNCHANGED <<row, served, edits>>

\* Run: a tick takes the enabled sets in turn.
Tick ==
    /\ sync["run"].pc = "idle"
    /\ row.there /\ row.on
    /\ sync' = Called("run")
    /\ UNCHANGED <<row, served, edits>>

-----------------------------------------------------------------------------
(* Requests and servers                                                     *)

Edit == edits < MaxEdits /\ edits' = edits + 1

\* handleRegisterRuleset starts a sync of its own and does not wait for it.
Register(p) ==
    /\ Edit
    /\ p /= "run" /\ sync[p].pc = "idle"
    /\ \E u \in Urls, on \in BOOLEAN :
          row' = Upserted(u, on) /\ sync' = Called(p)
    /\ UNCHANGED served

\* handleSyncRuleset
SyncNow(p) ==
    /\ p /= "run" /\ sync[p].pc = "idle"
    /\ row.there
    /\ sync' = Called(p)
    /\ UNCHANGED <<row, served, edits>>

\* handleToggleRuleset, handleDeleteRuleset
ToggleSet ==
    /\ Edit /\ row.there
    /\ row' = [row EXCEPT !.on = ~@]
    /\ UNCHANGED <<served, sync>>

DeleteSet ==
    /\ Edit /\ row.there
    /\ row' = NoRow
    /\ UNCHANGED <<served, sync>>

\* A source publishes a new version.
SourceChanges ==
    /\ Edit
    /\ \E u \in Urls : served' = [served EXCEPT ![u] = @ + 1]
    /\ UNCHANGED <<row, sync>>

RsNext ==
    \/ \E p \in Syncs : Begin(p) \/ Fetch(p) \/ Store(p) \/ Abandoned(p)
    \/ \E p \in Syncs : Register(p) \/ SyncNow(p)
    \/ Tick \/ ToggleSet \/ DeleteSet \/ SourceChanges

-----------------------------------------------------------------------------
\* The tag a row sends with its next fetch is the tag of the content it holds, and that
\* content was served by the source it is from: a failed or late sync, a source that is
\* moved and a set that is deleted and registered again never leave a tag whose 304 would
\* vouch for content the row does not have.
TagVouches ==
    /\ row.tag = row.content
    /\ row.content.version <= served[row.content.url]

\* A rule set that stays enabled gets what its source serves, or shows why not,
\* however syncs overlap, a late one writes an older body, or the source is moved
\* while one is under way. Not so for a source that was moved to a server which
\* compares dates only: the date of the old source is sent to the new one.
Current == row.content = [url |-> row.url, version |-> served[row.url]]

SyncConverges ==
    (row.there /\ row.on) ~>
        (Current \/ row.err \/ ~row.on
         \/ (row.content.url /= row.url /\ row.url \in Dated))

=============================================================================
