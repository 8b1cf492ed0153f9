----------------------------- MODULE ClientSetup -----------------------------
(***************************************************************************)
(* Connecting the MCP server to an AI tool and disconnecting it again:     *)
(* `nlm setup add`, `nlm setup remove` and the wizard                      *)
(* (cli/commands/setup.py, setup_wizard.py, cli/setup_safety.py), on one   *)
(* tool whose configuration file the tool itself writes too.               *)
(*                                                                         *)
(* A configuration is a set: the settings that are none of our business,   *)
(* and our server entries, each under a name and with or without settings  *)
(* of the user's own.  A file that is missing is the empty set.  OpenCode  *)
(* has one setting that both sides write: experimental.mcp_timeout, the    *)
(* user's own or the one that comes and goes with our entry.               *)
(***************************************************************************)
EXTENDS FiniteSets

CONSTANTS
    Tools,      \* how a tool is set up: a subset of ToolKinds
    Settings,   \* what else there may be in a configuration
    Servers,    \* the settings that are other MCP servers
    Custom,     \* the setting that is an mcp_timeout of the user's own
    Default,    \* the mcp_timeout that we write, OPENCODE_MCP_TIMEOUT_MS
    Current,    \* MCP_SERVER_NAME
    Legacy,     \* LEGACY_MCP_SERVER_NAMES
    Broken      \* a file that does not parse

ASSUME NamesAssumption == Current \notin Legacy
ToolKinds == {"json", "desktop", "claude", "codex", "opencode"}
ASSUME ToolsAssumption == Tools \subseteq ToolKinds

VARIABLES
    tool,       \* the tool that is set up
    file,       \* its configuration file
    memory,     \* what a running desktop application will save, Broken if it is stopped
    copies,     \* ghost: everything that is in some backup
    command,    \* the running command
    fresh,      \* ghost: written by the tool since the last backup of the command
    since       \* ghost: written by the tool since the command read the file

vars == <<tool, file, memory, copies, command, fresh, since>>

Entry == [name : Legacy \cup {Current}, own : BOOLEAN]
Timeouts == {Custom, Default}
Items == Settings \cup Entry \cup {Default}
Configs == {s \cup e :
              s \in {x \in SUBSET (Settings \cup {Default}) : ~(Timeouts \subseteq x)},
              e \in {x \in SUBSET Entry : \A i, j \in x : i.name = j.name => i = j}}

\* The settings are no entries, and a file that does not parse is no configuration.
ASSUME SettingsAssumption == Settings \cap Entry = {}
ASSUME TimeoutAssumption ==
    /\ Servers \subseteq Settings /\ Custom \in Settings \ Servers
    /\ Default \notin Settings \cup Entry
ASSUME BrokenAssumption == \A config \in SUBSET Items : config # Broken

Ours(config) == config \cap Entry
Named(config, names) == {i \in Ours(config) : i.name \in names}

\* "offered" in a list of tools; "begin"; "backup" and "replace" of a new content; "ask",
\* "adding", "removing", "verify" of a tool's own command line.
Places == {"idle", "offered", "begin", "backup", "replace", "ask", "adding", "removing", "verify"}
\* again: the tools are looked at again when they have been chosen.
Command == [op : {"add", "repair", "remove"}, at : Places, new : Configs, names : SUBSET Entry,
            again : BOOLEAN, ok : BOOLEAN]
NoCommand == [op |-> "add", at |-> "idle", new |-> {}, names |-> {}, again |-> FALSE, ok |-> FALSE]

TypeOK ==
    /\ tool \in Tools
    /\ file \in Configs \cup {Broken} /\ memory \in Configs \cup {Broken}
    /\ copies \subseteq Items
    /\ command \in Command
    /\ fresh \subseteq Items /\ since \subseteq Items

Init ==
    /\ tool \in Tools
    /\ file \in {c \in Configs : Default \in c => tool = "opencode"} \cup {Broken}
    /\ memory = Broken
    /\ copies = {} /\ fresh = {} /\ since = {}
    /\ command = NoCommand

-----------------------------------------------------------------------------
\* The tool.  Most tools read their file again before they change it; the desktop
\* application saves the configuration that it read when it started.

Wrote(items) == fresh' = fresh \cup items /\ since' = since \cup items

\* An mcp_timeout is set and deleted whatever it was.
Same(s) == IF s = Custom THEN Timeouts ELSE {s}

Edit(s) ==
    /\ tool # "desktop" /\ file # Broken
    /\ file' \in {(file \ Same(s)) \cup {s}, file \ Same(s)}
    /\ Wrote({s})
    /\ UNCHANGED <<tool, memory, copies, command>>

\* The user breaks or repairs the file by hand.
EditByHand ==
    /\ command.at = "idle"
    /\ file' = IF file = Broken THEN {} ELSE Broken
    /\ UNCHANGED <<tool, memory, copies, command, fresh, since>>

OpenApp ==
    /\ tool = "desktop" /\ memory = Broken /\ file # Broken
    /\ memory' = file
    /\ UNCHANGED <<tool, file, copies, command, fresh, since>>

SaveApp(s) ==
    /\ memory # Broken
    /\ memory' = memory \cup {s} /\ file' = memory \cup {s}
    /\ Wrote(memory \cup {s})
    /\ UNCHANGED <<tool, copies, command>>

CloseApp ==
    /\ memory # Broken
    /\ memory' = Broken
    /\ UNCHANGED <<tool, file, copies, command, fresh, since>>

-----------------------------------------------------------------------------
\* What is written.

\* _migrate_legacy_mcp_entry: one entry of an old name gets the current one.
Migrated(config) ==
    IF Named(config, {Current}) # {} \/ Named(config, Legacy) = {} THEN {config}
    ELSE {(config \ {i}) \cup {[i EXCEPT !.name = Current]} : i \in Named(config, Legacy)}

\* _ensure_opencode_timeout: only if there is none.
WithTimeout(config) ==
    IF tool = "opencode" /\ config \cap Timeouts = {} THEN config \cup {Default} ELSE config

\* mutant: the configuration is written anew around our entry
MutantWritesAnew(config) ==
    {WithTimeout(new) : new \in IF Ours(config) # {} THEN Migrated(config)
                                ELSE {{[name |-> Current, own |-> FALSE]}}}

\* The configurations that add may write; one that has an entry is only migrated.
Added(config) ==
    {WithTimeout(new) : new \in IF Ours(config) # {} THEN Migrated(config)
                                ELSE {config \cup {[name |-> Current, own |-> FALSE]}}}

\* _edit_codex_entry: every old name goes, and the current one inherits from one of them.
Edited(config) ==
    LET old == Named(config, Legacy)
        rest == config \ old
    IN IF Named(config, {Current}) # {} THEN {rest}
       ELSE IF old # {} THEN {rest \cup {[i EXCEPT !.name = Current]} : i \in old}
       ELSE {rest \cup {[name |-> Current, own |-> FALSE]}}

\* _remove_mcp_entries; for OpenCode the mcp_timeout goes with the last MCP server, also
\* one of the user's own.
Removed(config) ==
    LET rest == config \ Ours(config)
    IN {IF tool = "opencode" /\ rest \cap Servers = {} THEN rest \ Timeouts ELSE rest}

-----------------------------------------------------------------------------
\* A command.

At(place) == command.at = place
Goes(c) == command' = c
Ends(ok) == command' = [NoCommand EXCEPT !.op = command.op, !.ok = ok]
Kept == UNCHANGED <<tool, memory>>

Begin(op) ==
    /\ At("idle")
    /\ op = "repair" => tool = "codex"
    /\ Goes([NoCommand EXCEPT !.op = op, !.at = "begin"])
    /\ fresh' = {} /\ since' = {}
    /\ UNCHANGED <<file, copies>> /\ Kept

-----------------------------------------------------------------------------
\* The wizard and the commands for all tools: a tool is offered for what its file held when
\* the list was made, and the user takes his time to choose.

\* A file that does not parse is one without our entry.
Configured(config) == config # Broken /\ Ours(config) # {}
OldName(config) == Configured(config) /\ Named(config, {Current}) = {}

\* scan_mcp_targets: what connecting would do.  An entry of codex may lack the path or the
\* timeout; other tools migrate an old name when they are added again.
Connectable(config) ==
    CASE ~Configured(config)                     -> {"add"}
      [] Configured(config) /\ tool = "codex"    -> {"repair"}
      [] OldName(config) /\ tool # "codex"       -> {"add"}
      [] OTHER                                   -> {}

Removable(config) == IF Configured(config) THEN {"remove"} ELSE {}

Offer(op, again) ==
    /\ At("idle")
    /\ Goes([NoCommand EXCEPT !.op = op, !.at = "offered", !.again = again])
    /\ fresh' = {} /\ since' = {}
    /\ UNCHANGED <<file, copies>> /\ Kept

FlowAdd == \E op \in Connectable(file) : Offer(op, TRUE)
SetupAll == ~Configured(file) /\ Offer("add", FALSE)
FlowRemove == \E op \in Removable(file) : Offer(op, TRUE)
RemoveAll == \E op \in Removable(file) : Offer(op, FALSE)

\* The commands for all tools go by their list.
Chosen(op) ==
    /\ At("offered")
    /\ Goes([NoCommand EXCEPT !.op = op, !.at = "begin"])
    /\ fresh' = {} /\ since' = {}
    /\ UNCHANGED <<file, copies>> /\ Kept

RunAll == ~command.again /\ Chosen(command.op)

\* run_add and run_remove look again.
RunAdd == command.again /\ command.op # "remove" /\ \E op \in Connectable(file) : Chosen(op)
RunRemove == command.again /\ command.op = "remove" /\ \E op \in Removable(file) : Chosen(op)

\* Connected, or disconnected, by now.
RunSkips ==
    /\ At("offered") /\ command.again
    /\ IF command.op = "remove" THEN Removable(file) = {} ELSE Configured(file) /\ ~OldName(file)
    /\ Ends(command.op # "remove")
    /\ UNCHANGED <<file, copies, fresh, since>> /\ Kept

-----------------------------------------------------------------------------
\* One tool.

\* It cannot do its work, or the user declines: the file does not parse, the desktop
\* application is running, the server's binary is not found, the prompt is denied.
GivesUp ==
    /\ At("begin")
    /\ Ends(FALSE)
    /\ UNCHANGED <<file, copies, fresh, since>> /\ Kept

Stopped == tool = "desktop" => memory = Broken

\* Nothing to do: an entry is there (with the current name, where add migrates), or none.
\* For OpenCode the file is written again, for the timeout.
NothingToDo ==
    /\ At("begin") /\ file # Broken /\ Stopped
    /\ CASE command.op = "remove" -> Ours(file) = {} /\ Ends(FALSE)
         [] command.op = "add" /\ tool = "codex" -> Ours(file) # {} /\ Ends(TRUE)
         [] command.op = "add" /\ tool \notin {"codex", "opencode"} ->
              Named(file, {Current}) # {} /\ Ends(TRUE)
         [] OTHER -> FALSE
    /\ UNCHANGED <<file, copies, fresh, since>> /\ Kept

Write(new) == [command EXCEPT !.at = "backup", !.new = new]

\* The JSON and TOML adapters read the file and settle what will be written.
ReadJson ==
    /\ At("begin") /\ tool \in {"json", "desktop", "opencode"}
    /\ file # Broken /\ Stopped
    /\ \/ /\ command.op = "add" /\ (tool = "opencode" \/ Named(file, {Current}) = {})
          /\ \E new \in Added(file) : Goes(Write(new))
       \/ /\ command.op = "remove" /\ Ours(file) # {}
          /\ \E new \in Removed(file) : Goes(Write(new))
    /\ since' = {}
    /\ UNCHANGED <<file, copies, fresh>> /\ Kept

ReadCodex ==
    /\ At("begin") /\ tool = "codex" /\ file # Broken
    /\ \/ /\ \/ command.op = "repair"
             \/ command.op = "add" /\ Ours(file) = {}
          /\ \E new \in Edited(file) : Goes(Write(new))
       \/ /\ command.op = "remove" /\ Ours(file) # {}
          /\ \E new \in Removed(file) : Goes(Write(new))
    /\ since' = {}
    /\ UNCHANGED <<file, copies, fresh>> /\ Kept

\* With a `codex` or `claude` command the tool writes; what it will do is settled here.
\* Without `claude`, entries are removed from the file.
ReadClaude ==
    /\ At("begin") /\ file # Broken
    /\ \/ /\ tool = "codex" /\ command.op \in {"add", "repair"} /\ Ours(file) = {}
          /\ Goes([command EXCEPT !.at = "ask"])
       \/ /\ tool = "claude" /\ command.op = "add" /\ Named(file, {Current}) = {}
          /\ \/ Ours(file) = {} /\ Goes([command EXCEPT !.at = "ask"])
             \/ \E i \in Named(file, Legacy) :
                  Goes([command EXCEPT !.at = "ask", !.names = {i}])
       \/ /\ tool = "claude" /\ command.op = "remove" /\ Ours(file) # {}
          /\ \/ Goes([command EXCEPT !.at = "ask", !.names = Ours(file)])
             \/ \E new \in Removed(file) : Goes(Write(new))
    /\ since' = {}
    /\ UNCHANGED <<file, copies, fresh>> /\ Kept

\* backup_existing copies what the file holds by now.
Copied == copies' = IF file = Broken THEN copies ELSE copies \cup file

\* mutant: a backup is made of the file that will be there
MutantBacksUpLater ==
    /\ At("backup")
    /\ copies' = copies \cup command.new /\ fresh' = {}
    /\ Goes([command EXCEPT !.at = "replace"])
    /\ UNCHANGED <<file, since>> /\ Kept

Backup ==
    /\ At("backup")
    /\ Copied /\ fresh' = {}
    /\ Goes([command EXCEPT !.at = "replace"])
    /\ UNCHANGED <<file, since>> /\ Kept

\* atomic_write_text
Replace ==
    /\ At("replace")
    /\ file' = command.new
    /\ Ends(TRUE)
    /\ UNCHANGED <<copies, fresh, since>> /\ Kept

\* The disk is full, or permission is denied: the file is as it was.
WriteFails ==
    /\ command.at \in {"backup", "replace"}
    /\ Ends(FALSE)
    /\ UNCHANGED <<file, copies, fresh, since>> /\ Kept

-----------------------------------------------------------------------------
\* The command lines of the tools.  Each call succeeds, is refused, or runs into its
\* timeout with or without its effect.

Ask ==
    /\ At("ask")
    /\ Copied /\ fresh' = {}
    /\ Goes([command EXCEPT !.at = IF command.op # "remove" THEN "adding" ELSE "removing"])
    /\ UNCHANGED <<file, since>> /\ Kept

NewEntries == IF command.names = {} THEN {[name |-> Current, own |-> FALSE]}
              ELSE {[i EXCEPT !.name = Current] : i \in command.names}

\* The tool has an entry of the current name afterwards; an entry that was there stays.
WithEntry(config) ==
    IF Named(config, {Current}) # {} THEN config ELSE config \cup NewEntries

\* `mcp add`, `mcp add-json`; codex then edits the file, and a rename goes on.
AddIt ==
    /\ At("adding") /\ file # Broken
    /\ file' = WithEntry(file)
    /\ CASE tool = "codex" -> \E new \in Edited(file') : Goes(Write(new))
         [] tool # "codex" /\ command.names # {} -> Goes([command EXCEPT !.at = "removing"])
         [] tool # "codex" /\ command.names = {} -> Ends(TRUE)
    /\ since' = IF tool = "codex" THEN {} ELSE since
    /\ UNCHANGED <<copies, fresh>> /\ Kept

\* mutant: a rename goes on after its addition has failed
MutantGoesOn ==
    /\ At("adding") /\ file # Broken
    /\ file' \in {file, WithEntry(file)}
    /\ IF command.names # {} THEN Goes([command EXCEPT !.at = "removing"]) ELSE Ends(FALSE)
    /\ UNCHANGED <<copies, fresh, since>> /\ Kept

AddFails ==
    /\ At("adding") /\ file # Broken
    /\ file' \in {file, WithEntry(file)}
    /\ Ends(FALSE)
    /\ UNCHANGED <<copies, fresh, since>> /\ Kept

\* `mcp remove` of one name; the first failure of a rename shows only in the file.
RemoveIt(i) ==
    /\ At("removing") /\ file # Broken /\ i \in command.names
    /\ \/ /\ file' = file \ Named(file, {i.name})
          /\ Goes([command EXCEPT !.names = @ \ {i}, !.ok = TRUE])
       \/ file' = file /\ Goes([command EXCEPT !.names = @ \ {i}])
    /\ UNCHANGED <<copies, fresh, since>> /\ Kept

RemoveTimesOut(i) ==
    /\ At("removing") /\ file # Broken /\ i \in command.names
    /\ file' \in {file, file \ Named(file, {i.name})}
    /\ Ends(FALSE)
    /\ UNCHANGED <<copies, fresh, since>> /\ Kept

\* A removal believes the exit codes, a rename reads the file.
Asked ==
    /\ At("removing") /\ command.names = {}
    /\ IF command.op = "remove" THEN Ends(command.ok)
       ELSE Goes([command EXCEPT !.at = "verify"])
    /\ UNCHANGED <<file, copies, fresh, since>> /\ Kept

Verify ==
    /\ At("verify")
    /\ Ends(file # Broken /\ Named(file, {Current}) # {})
    /\ UNCHANGED <<file, copies, fresh, since>> /\ Kept

\* Ctrl-C, Esc in a list, or the process is killed.
Interrupt ==
    /\ ~At("idle")
    /\ Ends(FALSE)
    /\ UNCHANGED <<file, copies, fresh, since>> /\ Kept

Work ==
    \/ RunAll \/ RunAdd \/ RunRemove \/ RunSkips
    \/ GivesUp \/ NothingToDo \/ ReadJson \/ ReadCodex \/ ReadClaude
    \/ Backup \/ Replace \/ WriteFails
    \/ Ask \/ AddIt \/ AddFails \/ Asked \/ Verify \/ Interrupt
    \/ \E i \in Entry : RemoveIt(i) \/ RemoveTimesOut(i)

Next ==
    \/ \E op \in {"add", "repair", "remove"} : Begin(op)
    \/ FlowAdd \/ SetupAll \/ FlowRemove \/ RemoveAll
    \/ Work
    \/ \E s \in Settings : Edit(s) \/ SaveApp(s)
    \/ EditByHand \/ OpenApp \/ CloseApp

Spec == Init /\ [][Next]_vars

-----------------------------------------------------------------------------
Gone == IF file = Broken THEN {} ELSE IF file' = Broken THEN {} ELSE file \ file'

\* What a command takes out of the file is in one of its backups, except what the tool
\* wrote after the backup was made: also if it is an entry with settings of the user's,
\* if the file is the tool's to write, or if the command ends half-way.
DiscardsOnlyCopies == [][Work => Gone \subseteq copies \cup fresh]_vars

\* The setting that remove takes along with the last MCP server.
GoesAlong(s) ==
    s = Custom /\ tool = "opencode" /\ command.op = "remove" /\ file' \cap Servers = {}

\* What is not ours stays, except what the tool wrote after the command read the file, and
\* an mcp_timeout of OpenCode's when our entry was the last MCP server: add leaves it alone
\* if it is the user's ("don't overwrite it", test_setup_opencode.py:293), remove does not
\* look whose it is.
OthersKept == [][Work => \A s \in Gone \cap Settings : s \in since \/ GoesAlong(s)]_vars

\* Adding, renaming and repairing never leave a tool that was connected unconnected, not
\* even for a moment: "a failed add leaves the working old entry in place" (setup.py:851).
StaysConnected ==
    [][Work /\ command.op # "remove" /\ file # Broken /\ Ours(file) # {}
         => file' # Broken /\ Ours(file') # {}]_vars
=============================================================================
