----------------------------- MODULE AdminLists -----------------------------
(***************************************************************************)
(* The administrator's pages of channels, subscription plans and payment   *)
(* settings (app/admin/channels, subscriptions, payment-config): each is a *)
(* list with a form in a modal window, switches in the rows and a reload   *)
(* after a change.  One row is followed, which the form may also create.   *)
(*                                                                         *)
(* As on the recharge page a handler runs up to its next await, and what   *)
(* it waits for is a member of calls.  The modal covers the page: nothing  *)
(* behind it is clicked, but it can be left while its save is under way.   *)
(***************************************************************************)
EXTENDS Naturals, FiniteSets

CONSTANT MaxCalls      \* bound: outstanding calls when the user starts one

VARIABLES
    adminPage,        \* "channels", "plans", "instances" or "none"
    row,              \* on the server: "absent", "on" or "off"
    shownRow,         \* as the list on the screen has it
    modal,            \* "closed", "new", "edit", "groups" or "selected"
    saving,           \* saving, instanceSaving
    syncImporting,
    rcSaving,
    rcOverrideEnv,    \* the switch that lets the database override
    rcOverrideSaved,  \* the page was told that it is on
    calls

adminFlags == <<saving, syncImporting, rcSaving>>
override == <<rcOverrideEnv, rcOverrideSaved>>
listVars == <<adminPage, row, shownRow, modal, adminFlags, override, calls>>

RowStates == {"absent", "on", "off"}

Submissions(op) == {c \in calls : c.op = op}

\* with: what the handler remembers; reply: the server's answer; nr tells
\* submissions apart, other calls that agree on everything are one.
Call(op, with) ==
    [op |-> op, with |-> with, reply |-> "waiting",
     nr |-> IF op \in {"save", "import", "saveConfig"}
            THEN Cardinality(Submissions(op)) ELSE 0]

\* Every page loads its list when it is opened and after a change.
fetchList == Call("fetch", "none")

ListInit ==
    /\ adminPage \in {"channels", "plans", "instances"}
    /\ row \in RowStates /\ shownRow = "absent" /\ modal = "closed"
    /\ saving = FALSE /\ syncImporting = FALSE /\ rcSaving = FALSE
    /\ rcOverrideEnv = FALSE /\ rcOverrideSaved = FALSE
    /\ calls = {[op |-> op, with |-> "none", reply |-> "waiting", nr |-> 0] :
                   op \in {"fetch"} \cup (IF adminPage = "instances"
                                         THEN {"config"} ELSE {})}

-----------------------------------------------------------------------------
(* Clicks.  The forms and the buttons of the rows are the same on the       *)
(* three pages; the handlers below the line are each page's own.           *)

CanCall == Cardinality(calls) < MaxCalls
Start(op, with) == CanCall /\ calls' = calls \cup {Call(op, with)}

Refresh ==
    /\ modal = "closed"
    /\ Start("fetch", "none")
    /\ UNCHANGED <<adminPage, row, shownRow, modal, adminFlags, override>>

OpenForm ==
    /\ modal = "closed"
    /\ modal' \in {"new"} \cup (IF shownRow # "absent" THEN {"edit"} ELSE {})
    /\ UNCHANGED <<adminPage, row, shownRow, adminFlags, override, calls>>

closeModal ==
    /\ modal # "closed"
    /\ modal' = "closed"
    /\ UNCHANGED <<adminPage, row, shownRow, adminFlags, override, calls>>

SaveForm ==
    /\ modal \in {"new", "edit"} /\ ~saving
    /\ Start("save", modal)
    /\ saving' = TRUE
    /\ UNCHANGED <<adminPage, row, shownRow, modal, syncImporting, rcSaving,
                   override>>

DeleteRow ==
    /\ modal = "closed" /\ shownRow # "absent"
    /\ Start("delete", "none")
    /\ UNCHANGED <<adminPage, row, shownRow, modal, adminFlags, override>>

\* The switch sends the opposite of what the list shows.
ToggleRow ==
    /\ modal = "closed" /\ shownRow # "absent"
    /\ Start("toggle", IF shownRow = "on" THEN "off" ELSE "on")
    /\ UNCHANGED <<adminPage, row, shownRow, modal, adminFlags, override>>

-----------------------------------------------------------------------------

fetchChannels       == adminPage = "channels" /\ Refresh
openEditModal       == adminPage = "channels" /\ OpenForm
handleSave          == adminPage = "channels" /\ SaveForm
handleDelete        == adminPage = "channels" /\ DeleteRow
handleToggleEnabled == adminPage = "channels" /\ ToggleRow

fetchPlans          == adminPage = "plans" /\ Refresh
openEdit            == adminPage = "plans" /\ OpenForm
savePlan            == adminPage = "plans" /\ SaveForm
deletePlan          == adminPage = "plans" /\ DeleteRow
togglePlan          == adminPage = "plans" /\ ToggleRow

\* The payment settings have no refresh button.
openEditInstance      == adminPage = "instances" /\ OpenForm
saveInstance          == adminPage = "instances" /\ SaveForm
handleDeleteInstance  == adminPage = "instances" /\ DeleteRow
toggleInstanceEnabled == adminPage = "instances" /\ ToggleRow

\* The platform's groups are offered for import, as channels, once loaded.
openSyncModal ==
    /\ adminPage = "channels" /\ modal = "closed"
    /\ Start("groups", "none")
    /\ modal' = "groups"
    /\ UNCHANGED <<adminPage, row, shownRow, adminFlags, override>>

\* The box of a group that already has a channel in the list is disabled.
toggleSyncGroup ==
    /\ modal \in {"groups", "selected"}
    /\ \A c \in calls : c.op # "groups"
    /\ shownRow = "absent"
    /\ modal' = IF modal = "groups" THEN "selected" ELSE "groups"
    /\ UNCHANGED <<adminPage, row, shownRow, adminFlags, override, calls>>

handleSyncImport ==
    /\ modal = "selected" /\ ~syncImporting
    /\ Start("import", "none")
    /\ syncImporting' = TRUE
    /\ UNCHANGED <<adminPage, row, shownRow, modal, saving, rcSaving, override>>

\* The switch can be clicked again as long as the page has not been told that
\* the override is stored.  It remembers whether the list is empty.
handleOverrideEnvToggle ==
    /\ adminPage = "instances" /\ modal = "closed" /\ ~rcOverrideSaved
    /\ Start("defaults", IF shownRow = "absent" THEN "create" ELSE "none")
    /\ rcOverrideEnv' = TRUE
    /\ UNCHANGED <<adminPage, row, shownRow, modal, adminFlags, rcOverrideSaved>>

saveConfig ==
    /\ adminPage = "instances" /\ modal = "closed" /\ ~rcSaving
    /\ Start("saveConfig", IF rcOverrideEnv THEN "on" ELSE "off")
    /\ rcSaving' = TRUE
    /\ UNCHANGED <<adminPage, row, shownRow, modal, saving, syncImporting,
                   override>>

-----------------------------------------------------------------------------
(* The server (external).                                                  *)

Answer(c, reply) ==
    calls' = (calls \ {c}) \cup {[c EXCEPT !.reply = reply]}

Creates(c) == c.op \in {"import", "create"} \/ c.with = "new"

\* A group has one channel; a second plan or instance is not followed.  What
\* the server refuses is a call that fails.
Writes(c) ==
    /\ c.op \in {"save", "delete", "toggle", "import", "create"}
    /\ IF Creates(c) THEN adminPage = "channels" => row = "absent"
       ELSE row # "absent"
    /\ Answer(c, "ok")
    /\ row' \in CASE c.op = "delete" -> {"absent"}
                  [] c.op = "toggle" -> {c.with}
                  [] Creates(c) /\ row # "absent" -> {row}
                  [] c.op = "save" -> {"on", "off"}
                  [] c.op \in {"import", "create"} /\ row = "absent" -> {"on"}

Reads(c) ==
    /\ \/ c.op = "fetch" /\ Answer(c, row)
       \/ c.op = "config" /\ \E on \in {"on", "off"} : Answer(c, on)
       \/ c.op \in {"groups", "defaults", "saveConfig"} /\ Answer(c, "ok")
    /\ UNCHANGED row

AdminReplied(c) ==
    /\ c.reply = "waiting"
    /\ Writes(c) \/ Reads(c)
    /\ UNCHANGED <<adminPage, shownRow, modal, adminFlags, rcOverrideEnv,
                   rcOverrideSaved>>

-----------------------------------------------------------------------------
(* The continuations.                                                      *)

\* The calls after c was consumed and the handler went on.
Then(c, more) == calls' = (calls \ {c}) \cup more

FetchReceived(c) ==
    /\ c.op = "fetch" /\ shownRow' = c.reply /\ Then(c, {})
    /\ UNCHANGED <<modal, adminFlags, rcOverrideEnv, rcOverrideSaved>>

ConfigReceived(c) ==
    /\ c.op = "config" /\ Then(c, {})
    /\ rcOverrideEnv' = (c.reply = "on") /\ rcOverrideSaved' = (c.reply = "on")
    /\ UNCHANGED <<shownRow, modal, adminFlags>>

\* A success closes the form that is open by now, whichever it is.
SaveReceived(c) ==
    /\ c.op = "save" /\ saving' = FALSE
    /\ modal' = IF modal \in {"new", "edit"} THEN "closed" ELSE modal
    /\ Then(c, {fetchList})
    /\ UNCHANGED <<shownRow, syncImporting, rcSaving, rcOverrideEnv,
                   rcOverrideSaved>>

DeleteReceived(c) ==
    /\ c.op = "delete" /\ Then(c, {fetchList})
    /\ UNCHANGED <<shownRow, modal, adminFlags, rcOverrideEnv, rcOverrideSaved>>

\* Channels and plans turn over what the switch shows by then; the settings
\* show what was sent.
ToggleReceived(c) ==
    /\ c.op = "toggle" /\ Then(c, {})
    /\ shownRow' = IF shownRow = "absent" THEN shownRow
                   ELSE IF adminPage = "instances" THEN c.with
                   ELSE IF shownRow = "on" THEN "off" ELSE "on"
    /\ UNCHANGED <<modal, adminFlags, rcOverrideEnv, rcOverrideSaved>>

GroupsReceived(c) ==
    /\ c.op = "groups" /\ Then(c, {})
    /\ UNCHANGED <<shownRow, modal, adminFlags, rcOverrideEnv, rcOverrideSaved>>

ImportReceived(c) ==
    /\ c.op = "import" /\ syncImporting' = FALSE
    /\ modal' = IF modal \in {"groups", "selected"} THEN "closed" ELSE modal
    /\ Then(c, {fetchList})
    /\ UNCHANGED <<shownRow, saving, rcSaving, rcOverrideEnv, rcOverrideSaved>>

\* The environment's instances are created if the list was empty.
DefaultsReceived(c) ==
    /\ \/ /\ c.op = "defaults"
          /\ Then(c, IF c.with = "create" THEN {Call("create", "new")} ELSE {})
       \/ c.op = "create" /\ Then(c, {fetchList})
    /\ UNCHANGED <<shownRow, modal, adminFlags, rcOverrideEnv, rcOverrideSaved>>

ConfigSaved(c) ==
    /\ c.op = "saveConfig" /\ rcSaving' = FALSE /\ Then(c, {})
    /\ UNCHANGED <<shownRow, modal, saving, syncImporting, rcOverrideEnv,
                   rcOverrideSaved>>

AdminReceives(c) ==
    /\ c.reply # "waiting"
    /\ \/ FetchReceived(c) \/ ConfigReceived(c) \/ SaveReceived(c)
       \/ DeleteReceived(c) \/ ToggleReceived(c) \/ GroupsReceived(c)
       \/ ImportReceived(c) \/ DefaultsReceived(c) \/ ConfigSaved(c)
    /\ UNCHANGED <<adminPage, row>>

\* A refusal, an error, or no answer: the flag is reset.  The page of plans
\* reloads its list even then, the page of settings after its instances.
AdminCallFails(c) ==
    /\ saving' = (saving /\ c.op # "save")
    /\ syncImporting' = (syncImporting /\ c.op # "import")
    /\ rcSaving' = (rcSaving /\ c.op # "saveConfig")
    /\ modal' = IF c.op \in {"groups", "import"} /\ modal \in {"groups", "selected"}
                THEN "closed" ELSE modal
    /\ Then(c, IF c.op = "create" \/ (c.op = "save" /\ adminPage = "plans")
               THEN {fetchList} ELSE {})
    /\ UNCHANGED <<adminPage, row, shownRow, override>>

ListNext ==
    \/ fetchChannels \/ openEditModal \/ handleSave \/ handleDelete
    \/ handleToggleEnabled \/ openSyncModal \/ toggleSyncGroup
    \/ handleSyncImport
    \/ fetchPlans \/ openEdit \/ savePlan \/ deletePlan \/ togglePlan
    \/ openEditInstance \/ saveInstance \/ handleDeleteInstance
    \/ toggleInstanceEnabled \/ handleOverrideEnvToggle \/ saveConfig
    \/ closeModal
    \/ \E c \in calls : AdminReplied(c) \/ AdminReceives(c) \/ AdminCallFails(c)

=============================================================================
