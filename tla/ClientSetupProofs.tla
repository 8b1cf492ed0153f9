-------------------------- MODULE ClientSetupProofs --------------------------
(***************************************************************************)
(* Proofs about ClientSetup, for any settings, old names and kinds of      *)
(* tools: what a command may take out of a tool's configuration.           *)
(***************************************************************************)
EXTENDS ClientSetup, TLAPS

\* A coarse type: that names are unique in a file is not needed.
SomeCommand == [op : {"add", "repair", "remove"}, at : Places, new : SUBSET Items,
                names : SUBSET Entry, again : BOOLEAN, ok : BOOLEAN]

Typed ==
    /\ tool \in Tools
    /\ file \in (SUBSET Items) \cup {Broken} /\ memory \in (SUBSET Items) \cup {Broken}
    /\ command \in SomeCommand

\* Only the desktop application keeps what it has read, and it has no command line.
KeptByDesktop ==
    /\ memory # Broken => tool = "desktop"
    /\ command.at \in {"ask", "adding", "removing", "verify"} => tool \in {"claude", "codex"}

\* What is about to be written has all settings that the tool has not written since.
\* What a removal may leave out besides: an mcp_timeout, with the last MCP server.
Forfeits(s, new) ==
    s = Custom /\ tool = "opencode" /\ command.op = "remove" /\ new \cap Servers = {}

KeepsSettings ==
    command.at \in {"backup", "replace"} /\ file # Broken
        => \A s \in (file \ command.new) \cap Settings :
             s \in since \/ Forfeits(s, command.new)

\* ... and all that no backup has.
KeepsUncopied ==
    command.at = "replace" /\ file # Broken => file \ command.new \subseteq copies \cup fresh

\* While the tool's command line works, all but the entry it has added is in a backup.
Backed ==
    command.at \in {"adding", "removing"} /\ file # Broken =>
        \A x \in file : x \in copies \cup fresh
                        \/ (command.op # "remove" /\ x \in Entry /\ x.name = Current)

\* What is about to be written, and what is left to be removed, do not disconnect.
Connects ==
    /\ command.at = "adding" => command.op # "remove"
    /\ command.op # "remove" =>
        /\ command.at \in {"backup", "replace"} => Ours(command.new) # {}
        /\ command.at \in {"begin", "ask", "adding", "removing"} =>
             \A i \in command.names : i.name \in Legacy
        /\ command.at = "removing" /\ file # Broken => Named(file, {Current}) # {}

IInv == Typed /\ KeptByDesktop /\ KeepsSettings /\ KeepsUncopied /\ Backed /\ Connects

-----------------------------------------------------------------------------
\* What is written.

\* An entry that gets the current name.
LEMMA Renaming ==
    ASSUME NEW i \in Entry
    PROVE  [i EXCEPT !.name = Current] \in Entry /\ [i EXCEPT !.name = Current].name = Current
  BY DEF Entry

\* The entry that add makes.
LEMMA NewEntry ==
    LET e == [name |-> Current, own |-> FALSE]
    IN e \in Entry /\ e.name = Current
  BY DEF Entry

\* Nothing but entries is taken out, and something is left when one is added.
LEMMA MigratedKeeps ==
    ASSUME NEW config \in SUBSET Items, Ours(config) # {}, NEW new \in Migrated(config)
    PROVE  new \in SUBSET Items /\ config \cap Settings \subseteq new /\ Ours(new) # {}
  <1>1. CASE new = config
    BY <1>1
  <1>2. CASE new # config
    <2>1. PICK i \in Named(config, Legacy) :
            new = (config \ {i}) \cup {[i EXCEPT !.name = Current]}
      BY <1>2 DEF Migrated
    <2>2. i \in Entry /\ i \notin Settings
      BY <2>1, SettingsAssumption DEF Named, Ours
    <2>3. [i EXCEPT !.name = Current] \in Entry
      BY <2>2, Renaming
    <2>4. QED
      BY <2>1, <2>2, <2>3 DEF Ours, Items
  <1>3. QED
    BY <1>1, <1>2

\* The timeout that is set changes nothing else.
LEMMA WithTimeoutKeeps ==
    ASSUME NEW config \in SUBSET Items
    PROVE  /\ WithTimeout(config) \in SUBSET Items /\ config \subseteq WithTimeout(config)
           /\ Ours(config) \subseteq Ours(WithTimeout(config))
  BY DEF WithTimeout, Ours, Items

LEMMA AddedKeeps ==
    ASSUME NEW config \in SUBSET Items, NEW new \in Added(config)
    PROVE  new \in SUBSET Items /\ config \cap Settings \subseteq new /\ Ours(new) # {}
  <1> DEFINE bare == IF Ours(config) # {} THEN Migrated(config)
                     ELSE {config \cup {[name |-> Current, own |-> FALSE]}}
  <1>1. PICK b \in bare : new = WithTimeout(b)
    BY DEF Added
  <1>2. b \in SUBSET Items /\ config \cap Settings \subseteq b /\ Ours(b) # {}
    <2>1. CASE Ours(config) # {}
      BY <1>1, <2>1, MigratedKeeps
    <2>2. CASE Ours(config) = {}
      <3>1. b = config \cup {[name |-> Current, own |-> FALSE]}
        BY <1>1, <2>2
      <3>2. QED
        BY <3>1, NewEntry DEF Ours, Items
    <2>3. QED
      BY <2>1, <2>2
  <1>3. QED
    BY <1>1, <1>2, WithTimeoutKeeps

LEMMA EditedKeeps ==
    ASSUME NEW config \in SUBSET Items, NEW new \in Edited(config)
    PROVE  new \in SUBSET Items /\ config \cap Settings \subseteq new /\ Ours(new) # {}
  <1> DEFINE old == Named(config, Legacy)
             rest == config \ old
  <1>1. old \subseteq Entry /\ old \cap Settings = {}
    BY SettingsAssumption DEF Named, Ours
  <1>2. CASE Named(config, {Current}) # {}
    <2>1. new = rest
      BY <1>2 DEF Edited
    <2>2. PICK j \in Named(config, {Current}) : TRUE
      BY <1>2
    <2>3. j \in config /\ j \in Entry /\ j.name = Current
      BY <2>2 DEF Named, Ours
    <2>4. j \notin old
      BY <2>3, NamesAssumption DEF Named
    <2>5. QED
      BY <1>1, <2>1, <2>3, <2>4 DEF Ours, Items
  <1>3. CASE Named(config, {Current}) = {} /\ old # {}
    <2>1. PICK i \in old : new = rest \cup {[i EXCEPT !.name = Current]}
      BY <1>3 DEF Edited
    <2>2. [i EXCEPT !.name = Current] \in Entry
      BY <1>1, <2>1, Renaming
    <2>3. QED
      BY <1>1, <2>1, <2>2 DEF Ours, Items
  <1>4. CASE Named(config, {Current}) = {} /\ old = {}
    <2>1. new = rest \cup {[name |-> Current, own |-> FALSE]}
      BY <1>4 DEF Edited
    <2>2. QED
      BY <1>1, <2>1, NewEntry DEF Ours, Items
  <1>5. QED
    BY <1>2, <1>3, <1>4

LEMMA RemovedKeeps ==
    ASSUME NEW config \in SUBSET Items, NEW new \in Removed(config)
    PROVE  /\ new \in SUBSET Items
           /\ \A s \in config \cap Settings :
                s \in new \/ (s = Custom /\ tool = "opencode" /\ new \cap Servers = {})
  <1> DEFINE rest == config \ Ours(config)
  <1>1. config \cap Settings \subseteq rest /\ rest \in SUBSET Items
    BY SettingsAssumption DEF Ours
  <1>2. new = rest \/ (tool = "opencode" /\ new = rest \ Timeouts /\ rest \cap Servers = {})
    BY DEF Removed
  <1>3. Default \notin Settings
    BY TimeoutAssumption
  <1>4. QED
    BY <1>1, <1>2, <1>3 DEF Timeouts

-----------------------------------------------------------------------------
\* Steps after which nothing is under way.

LEMMA NoCommandType ==
    /\ NoCommand \in SomeCommand /\ NoCommand.at = "idle" /\ NoCommand.names = {}
    /\ \A op \in {"add", "repair", "remove"}, ok \in BOOLEAN :
         LET c == [NoCommand EXCEPT !.op = op, !.ok = ok] IN c \in SomeCommand /\ c.at = "idle" /\ c.names = {}
    /\ \A op \in {"add", "repair", "remove"} :
         LET c == [NoCommand EXCEPT !.op = op, !.at = "begin"]
         IN c \in SomeCommand /\ c.at = "begin" /\ c.names = {}
    /\ \A op \in {"add", "repair", "remove"}, again \in BOOLEAN :
         LET c == [NoCommand EXCEPT !.op = op, !.at = "offered", !.again = again]
         IN c \in SomeCommand /\ c.at = "offered" /\ c.names = {}
  BY DEF NoCommand, SomeCommand, Places

Calm ==
    /\ command' \in SomeCommand /\ command'.names = {}
    /\ command'.at \in {"idle", "offered", "begin"}

LEMMA EndsCalm ==
    ASSUME Typed, NEW ok \in BOOLEAN, Ends(ok)
    PROVE  Calm
  <1>1. command.op \in {"add", "repair", "remove"}
    BY DEF Typed, SomeCommand
  <1>2. QED
    BY <1>1, NoCommandType DEF Ends, Calm

LEMMA CalmKeeps ==
    ASSUME IInv, Calm, file' \in (SUBSET Items) \cup {Broken}, UNCHANGED <<tool, memory>>
    PROVE  IInv'
  <1>1. Typed'
    BY DEF IInv, Typed, Calm
  <1>2. KeptByDesktop'
    BY DEF IInv, KeptByDesktop, Calm
  <1>3. KeepsSettings' /\ KeepsUncopied' /\ Backed' /\ Connects'
    BY DEF Calm, KeepsSettings, KeepsUncopied, Backed, Connects
  <1>4. QED
    BY <1>1, <1>2, <1>3 DEF IInv

\* Asking, offering, choosing, giving up, finding nothing to do.
LEMMA CalmSteps ==
    ASSUME IInv,
           \/ \E op \in {"add", "repair", "remove"} : Begin(op)
           \/ FlowAdd \/ SetupAll \/ FlowRemove \/ RemoveAll
           \/ RunAll \/ RunAdd \/ RunRemove \/ RunSkips
           \/ GivesUp \/ NothingToDo \/ Verify \/ Interrupt
    PROVE  IInv'
  <1> DEFINE Ops == {"add", "repair", "remove"}
  <1>0. command.op \in Ops /\ file \in (SUBSET Items) \cup {Broken}
    BY DEF IInv, Typed, SomeCommand
  <1>1. ASSUME NEW op \in Ops, Begin(op) PROVE IInv'
    BY <1>0, <1>1, NoCommandType, CalmKeeps DEF Begin, Goes, Kept, Calm
  <1>2. ASSUME NEW op \in Ops, NEW again \in BOOLEAN, Offer(op, again) PROVE IInv'
    BY <1>0, <1>2, NoCommandType, CalmKeeps DEF Offer, Goes, Kept, Calm
  <1>3. ASSUME NEW op \in Ops, Chosen(op) PROVE IInv'
    BY <1>0, <1>3, NoCommandType, CalmKeeps DEF Chosen, Goes, Kept, Calm
  <1>4. Connectable(file) \subseteq Ops /\ Removable(file) \subseteq Ops
    BY DEF Connectable, Removable
  <1>5. CASE \E op \in Ops : Begin(op)
    BY <1>1, <1>5
  <1>6. CASE FlowAdd \/ SetupAll \/ FlowRemove \/ RemoveAll
    BY <1>2, <1>4, <1>6 DEF FlowAdd, SetupAll, FlowRemove, RemoveAll
  <1>7. CASE RunAll \/ RunAdd \/ RunRemove
    BY <1>0, <1>3, <1>4, <1>7 DEF RunAll, RunAdd, RunRemove
  <1>8. ASSUME NEW ok \in BOOLEAN, Ends(ok), UNCHANGED file, Kept PROVE IInv'
    BY <1>0, <1>8, EndsCalm, CalmKeeps DEF Kept, IInv
  <1>9. CASE GivesUp \/ Interrupt
    BY <1>8, <1>9 DEF GivesUp, Interrupt
  <1>13. CASE RunSkips
    <2>1. UNCHANGED file /\ Kept
      BY <1>13 DEF RunSkips
    <2>2. Ends(TRUE) \/ Ends(FALSE)
      BY <1>13 DEF RunSkips, Ends
    <2>3. QED
      BY <1>8, <2>1, <2>2
  <1>10. CASE NothingToDo
    <2>1. UNCHANGED file /\ Kept
      BY <1>10 DEF NothingToDo
    <2>2. CASE command.op = "remove"
      BY <1>8, <1>10, <2>1, <2>2 DEF NothingToDo
    <2>3. CASE command.op = "add" /\ tool = "codex"
      BY <1>8, <1>10, <2>1, <2>3 DEF NothingToDo
    <2>4. CASE command.op = "add" /\ tool # "codex"
      BY <1>8, <1>10, <2>1, <2>4 DEF NothingToDo
    <2>5. CASE command.op = "repair"
      BY <1>10, <2>5 DEF NothingToDo
    <2>6. QED
      BY <1>0, <2>2, <2>3, <2>4, <2>5
  <1>11. CASE Verify
    BY <1>8, <1>11 DEF Verify
  <1>12. QED
    BY <1>5, <1>6, <1>7, <1>9, <1>10, <1>11, <1>13

-----------------------------------------------------------------------------
\* Steps that settle what will be written.

LEMMA SettlesKeeps ==
    ASSUME IInv, NEW new \in SUBSET Items,
           file' \in SUBSET Items,
           \A s \in file' \cap Settings : s \in new \/ Forfeits(s, new),
           command.op # "remove" => Ours(new) # {},
           command' = Write(new), UNCHANGED <<tool, memory>>
    PROVE  IInv'
  <1>1. command \in SomeCommand
    BY DEF IInv, Typed
  <1>2. command' \in SomeCommand /\ command'.at = "backup" /\ command'.new = new
        /\ command'.op = command.op
    BY <1>1 DEF Write, SomeCommand, Places
  <1>3. Typed' /\ KeptByDesktop'
    BY <1>2 DEF IInv, Typed, KeptByDesktop
  <1>4. KeepsSettings'
    BY <1>2 DEF KeepsSettings, Forfeits
  <1>5. KeepsUncopied' /\ Backed' /\ Connects'
    BY <1>2 DEF KeepsUncopied, Backed, Connects
  <1>6. QED
    BY <1>3, <1>4, <1>5 DEF IInv

\* A step that hands over to the command line of the tool.
LEMMA AsksKeeps ==
    ASSUME IInv, tool \in {"claude", "codex"},
           command' \in SomeCommand, command'.at = "ask", command'.op = command.op,
           command.op # "remove" => \A i \in command'.names : i.name \in Legacy,
           UNCHANGED <<tool, memory, file>>
    PROVE  IInv'
  <1>1. Typed' /\ KeptByDesktop'
    BY DEF IInv, Typed, KeptByDesktop
  <1>2. KeepsSettings' /\ KeepsUncopied' /\ Backed' /\ Connects'
    BY DEF KeepsSettings, KeepsUncopied, Backed, Connects
  <1>3. QED
    BY <1>1, <1>2 DEF IInv

LEMMA ReadSteps ==
    ASSUME IInv, ReadJson \/ ReadCodex \/ ReadClaude
    PROVE  IInv'
  <1>1. command.op \in {"add", "repair", "remove"} /\ command \in SomeCommand
    BY DEF IInv, Typed, SomeCommand
  <1>2. file # Broken /\ UNCHANGED <<file, tool, memory>> /\ command.at = "begin"
    BY DEF ReadJson, ReadCodex, ReadClaude, Kept, At
  <1>0. file \in SUBSET Items
    BY <1>2 DEF IInv, Typed
  <1>3. ASSUME NEW new \in Added(file), Goes(Write(new)) PROVE IInv'
    BY <1>0, <1>1, <1>2, <1>3, AddedKeeps, SettlesKeeps DEF Goes
  <1>4. ASSUME NEW new \in Edited(file), Goes(Write(new)) PROVE IInv'
    BY <1>0, <1>1, <1>2, <1>4, EditedKeeps, SettlesKeeps DEF Goes
  <1>5. ASSUME NEW new \in Removed(file), Goes(Write(new)), command.op = "remove" PROVE IInv'
    BY <1>0, <1>1, <1>2, <1>5, RemovedKeeps, SettlesKeeps DEF Goes, Forfeits
  <1>6. CASE ReadJson
    BY <1>3, <1>5, <1>6 DEF ReadJson
  <1>7. CASE ReadCodex
    BY <1>1, <1>4, <1>5, <1>7 DEF ReadCodex
  <1>8. CASE ReadClaude
    <2>1. ASSUME tool \in {"codex", "claude"}, Goes([command EXCEPT !.at = "ask"]) PROVE IInv'
      <3>1. /\ command' \in SomeCommand /\ command'.at = "ask" /\ command'.op = command.op
            /\ command'.names = command.names
        BY <1>1, <2>1 DEF Goes, SomeCommand, Places
      <3>2. command.op # "remove" => \A i \in command.names : i.name \in Legacy
        BY <1>2 DEF IInv, Connects
      <3>3. QED
        BY <1>2, <2>1, <3>1, <3>2, AsksKeeps
    <2>3. ASSUME NEW i \in Named(file, Legacy), tool = "claude",
                 Goes([command EXCEPT !.at = "ask", !.names = {i}])
          PROVE  IInv'
      <3>1. i \in Entry /\ i.name \in Legacy
        BY DEF Named, Ours
      <3>2. /\ command' \in SomeCommand /\ command'.at = "ask" /\ command'.op = command.op
            /\ command'.names = {i}
        BY <1>1, <2>3, <3>1 DEF Goes, SomeCommand, Places
      <3>3. QED
        BY <1>2, <2>3, <3>1, <3>2, AsksKeeps
    <2>4. ASSUME tool = "claude", command.op = "remove",
                 Goes([command EXCEPT !.at = "ask", !.names = Ours(file)])
          PROVE  IInv'
      <3>1. command' \in SomeCommand /\ command'.at = "ask" /\ command'.op = command.op
        BY <1>1, <2>4 DEF Goes, SomeCommand, Places, Ours
      <3>2. QED
        BY <1>2, <2>4, <3>1, AsksKeeps
    <2>5. CASE tool = "codex"
      BY <1>8, <2>1, <2>5 DEF ReadClaude
    <2>6. CASE tool = "claude" /\ command.op = "add"
      BY <1>8, <2>1, <2>3, <2>6 DEF ReadClaude
    <2>7. CASE tool = "claude" /\ command.op = "remove"
      BY <1>5, <1>8, <2>4, <2>7 DEF ReadClaude
    <2>8. QED
      BY <1>8, <2>5, <2>6, <2>7 DEF ReadClaude
  <1>9. QED
    BY <1>6, <1>7, <1>8

-----------------------------------------------------------------------------
\* Steps that write.

LEMMA BackupStep ==
    ASSUME IInv, Backup
    PROVE  IInv'
  <1>1. command' \in SomeCommand /\ command'.at = "replace" /\ command'.new = command.new
        /\ command'.op = command.op /\ command.at = "backup"
    BY DEF IInv, Typed, Backup, At, Goes, SomeCommand, Places
  <1>2. UNCHANGED <<tool, memory, file, since>> /\ (file # Broken => file \subseteq copies')
    BY DEF Backup, Copied, Kept
  <1>3. Typed' /\ KeptByDesktop'
    BY <1>1, <1>2 DEF IInv, Typed, KeptByDesktop
  <1>4. KeepsSettings' /\ KeepsUncopied'
    BY <1>1, <1>2 DEF IInv, KeepsSettings, KeepsUncopied, Forfeits
  <1>5. Backed' /\ Connects'
    BY <1>1, <1>2 DEF IInv, Backed, Connects
  <1>6. QED
    BY <1>3, <1>4, <1>5 DEF IInv

LEMMA AskStep ==
    ASSUME IInv, Ask
    PROVE  IInv'
  <1>1. /\ command' \in SomeCommand /\ command'.names = command.names
        /\ command'.op = command.op /\ command.at = "ask"
        /\ command'.at = IF command.op # "remove" THEN "adding" ELSE "removing"
    BY DEF IInv, Typed, Ask, At, Goes, SomeCommand, Places
  <1>2. UNCHANGED <<tool, memory, file, since>> /\ (file # Broken => file \subseteq copies')
    BY DEF Ask, Copied, Kept
  <1>3. Typed' /\ KeptByDesktop'
    BY <1>1, <1>2 DEF IInv, Typed, KeptByDesktop
  <1>4. KeepsSettings' /\ KeepsUncopied'
    BY <1>1 DEF KeepsSettings, KeepsUncopied
  <1>5. Backed' /\ Connects'
    BY <1>1, <1>2 DEF IInv, Backed, Connects
  <1>6. QED
    BY <1>3, <1>4, <1>5 DEF IInv

\* What a tool's own command line leaves in the file.
LEMMA WithEntryKeeps ==
    ASSUME NEW config \in SUBSET Items, command.names \in SUBSET Entry
    PROVE  /\ WithEntry(config) \in SUBSET Items /\ config \subseteq WithEntry(config)
           /\ Named(WithEntry(config), {Current}) # {}
           /\ \A x \in WithEntry(config) \ config : x \in Entry /\ x.name = Current
  <1>1. CASE Named(config, {Current}) # {}
    BY <1>1 DEF WithEntry
  <1>2. CASE Named(config, {Current}) = {}
    <2>1. \A x \in NewEntries : x \in Entry /\ x.name = Current
      BY NewEntry, Renaming DEF NewEntries
    <2>2. NewEntries # {}
      BY DEF NewEntries
    <2>3. WithEntry(config) = config \cup NewEntries
      BY <1>2 DEF WithEntry
    <2>4. QED
      BY <2>1, <2>2, <2>3 DEF Named, Ours, Items
  <1>3. QED
    BY <1>1, <1>2

LEMMA AddItStep ==
    ASSUME IInv, AddIt
    PROVE  IInv' /\ file \subseteq file' /\ file' \in SUBSET Items
  <1>1. /\ command \in SomeCommand /\ command.at = "adding" /\ command.names \in SUBSET Entry
        /\ file # Broken /\ file \in SUBSET Items /\ UNCHANGED <<tool, memory, copies, fresh>>
        /\ file' = WithEntry(file) /\ tool \in {"claude", "codex"}
    BY DEF IInv, Typed, KeptByDesktop, AddIt, At, Kept, SomeCommand
  <1>2. /\ file' \in SUBSET Items /\ file \subseteq file' /\ Named(file', {Current}) # {}
        /\ \A x \in file' \ file : x \in Entry /\ x.name = Current
    BY <1>1, WithEntryKeeps
  <1>3. CASE tool = "codex"
    <2>1. PICK new \in Edited(file') : Goes(Write(new))
      BY <1>3 DEF AddIt
    <2>2. new \in SUBSET Items /\ file' \cap Settings \subseteq new /\ Ours(new) # {}
      BY <1>2, EditedKeeps
    <2>3. QED
      BY <1>1, <1>2, <2>1, <2>2, SettlesKeeps DEF Goes
  <1>4. CASE tool # "codex" /\ command.names = {}
    <2>1. Ends(TRUE)
      BY <1>4 DEF AddIt
    <2>2. Calm
      BY <2>1, EndsCalm DEF IInv
    <2>3. QED
      BY <1>1, <1>2, <2>2, CalmKeeps
  <1>5. CASE tool # "codex" /\ command.names # {}
    <2>1. command' = [command EXCEPT !.at = "removing"]
      BY <1>5 DEF AddIt, Goes
    <2>2. /\ command' \in SomeCommand /\ command'.names = command.names
          /\ command'.op = command.op /\ command'.at = "removing"
      BY <1>1, <2>1 DEF SomeCommand, Places
    <2>3. Typed' /\ KeptByDesktop'
      BY <1>1, <1>2, <2>2 DEF IInv, Typed, KeptByDesktop
    <2>4. KeepsSettings' /\ KeepsUncopied' /\ Connects'
      BY <1>1, <1>2, <2>2 DEF IInv, KeepsSettings, KeepsUncopied, Connects
    <2>5. command.op # "remove"
      BY <1>1 DEF IInv, Connects
    <2>6. Backed'
      BY <1>1, <1>2, <2>2, <2>5 DEF IInv, Backed
    <2>7. QED
      BY <1>2, <2>3, <2>4, <2>6 DEF IInv
  <1>6. QED
    BY <1>3, <1>4, <1>5

\* A removal of the command line takes out entries of one name only.
LEMMA WithoutKeeps ==
    ASSUME NEW config \in SUBSET Items, NEW i \in Entry,
           NEW new, new = config \ Named(config, {i.name})
    PROVE  /\ new \in SUBSET Items /\ config \cap Settings \subseteq new
           /\ \A x \in config \ new : x \in Entry /\ x.name = i.name
           /\ i.name # Current => Named(config, {Current}) \subseteq Named(new, {Current})
  BY SettingsAssumption DEF Items, Named, Ours

LEMMA RemoveItStep ==
    ASSUME IInv, NEW i \in Entry, RemoveIt(i)
    PROVE  IInv' /\ file' \in SUBSET Items
  <1>1. /\ command \in SomeCommand /\ command.at = "removing" /\ i \in command.names
        /\ file # Broken /\ file \in SUBSET Items /\ UNCHANGED <<tool, memory, copies, fresh>>
    BY DEF IInv, Typed, RemoveIt, At, Kept
  <1>2. /\ command' \in SomeCommand /\ command'.at = "removing" /\ command'.op = command.op
        /\ command'.names \subseteq command.names
    BY <1>1 DEF RemoveIt, Goes, SomeCommand, Places
  <1>3. file' = file \/ file' = file \ Named(file, {i.name})
    BY DEF RemoveIt
  <1>4. file' \in SUBSET Items /\ file' \subseteq file
    BY <1>1, <1>3
  <1>5. Typed' /\ KeptByDesktop'
    BY <1>1, <1>2, <1>4 DEF IInv, Typed, KeptByDesktop
  <1>6. KeepsSettings' /\ KeepsUncopied' /\ Backed'
    BY <1>1, <1>2, <1>4 DEF IInv, KeepsSettings, KeepsUncopied, Backed
  <1>7. Connects'
    <2>1. CASE command.op = "remove"
      BY <1>2, <2>1 DEF Connects
    <2>2. CASE command.op # "remove"
      <3>1. i.name # Current /\ Named(file, {Current}) # {}
        BY <1>1, <2>2, NamesAssumption DEF IInv, Connects
      <3>2. Named(file', {Current}) # {}
        BY <1>1, <1>3, <3>1, WithoutKeeps
      <3>3. QED
        BY <1>1, <1>2, <2>2, <3>2 DEF IInv, Connects
    <2>3. QED
      BY <2>1, <2>2
  <1>8. QED
    BY <1>4, <1>5, <1>6, <1>7 DEF IInv

\* Replacing the file, failures, timeouts, and the end of a removal.
LEMMA EndSteps ==
    ASSUME IInv,
           \/ Replace \/ WriteFails \/ AddFails \/ Asked
           \/ \E i \in Entry : RemoveTimesOut(i)
    PROVE  IInv'
  <1>1. command \in SomeCommand /\ file \in (SUBSET Items) \cup {Broken}
    BY DEF IInv, Typed
  <1>2. command.new \in SUBSET Items /\ command.names \in SUBSET Entry
    BY <1>1 DEF SomeCommand
  <1>3. ASSUME NEW ok \in BOOLEAN, Ends(ok), file' \in (SUBSET Items) \cup {Broken}, Kept
        PROVE  IInv'
    BY <1>3, EndsCalm, CalmKeeps DEF IInv, Kept
  <1>4. CASE Replace
    BY <1>2, <1>3, <1>4 DEF Replace
  <1>5. CASE WriteFails
    BY <1>1, <1>3, <1>5 DEF WriteFails
  <1>6. CASE AddFails
    <2>1. file \in SUBSET Items /\ file' \in {file, WithEntry(file)}
      BY <1>1, <1>6 DEF AddFails
    <2>2. file' \in SUBSET Items
      BY <1>2, <2>1, WithEntryKeeps
    <2>3. QED
      BY <1>3, <1>6, <2>2 DEF AddFails
  <1>7. CASE \E i \in Entry : RemoveTimesOut(i)
    <2>1. PICK i \in Entry : RemoveTimesOut(i)
      BY <1>7
    <2>2. file \in SUBSET Items /\ file' \subseteq file /\ Ends(FALSE) /\ Kept
      BY <1>1, <2>1 DEF RemoveTimesOut
    <2>3. file' \in SUBSET Items
      BY <2>2
    <2>4. QED
      BY <1>3, <2>2, <2>3
  <1>8. CASE Asked
    <2>1. CASE command.op = "remove"
      <3>1. Ends(TRUE) \/ Ends(FALSE)
        BY <1>1, <1>8, <2>1 DEF Asked, SomeCommand, Ends
      <3>2. QED
        BY <1>1, <1>3, <1>8, <3>1 DEF Asked
    <2>2. CASE command.op # "remove"
      <3>1. /\ command' \in SomeCommand /\ command'.at = "verify" /\ command.at = "removing"
            /\ UNCHANGED <<file, tool, memory>>
        BY <1>1, <1>8, <2>2 DEF Asked, At, Goes, Kept, SomeCommand, Places
      <3>2. Typed' /\ KeptByDesktop'
        BY <3>1 DEF IInv, Typed, KeptByDesktop
      <3>3. KeepsSettings' /\ KeepsUncopied' /\ Backed' /\ Connects'
        BY <3>1 DEF KeepsSettings, KeepsUncopied, Backed, Connects
      <3>4. QED
        BY <3>2, <3>3 DEF IInv
    <2>3. QED
      BY <2>1, <2>2
  <1>9. QED
    BY <1>4, <1>5, <1>6, <1>7, <1>8

-----------------------------------------------------------------------------
\* The steps of the tool.

LEMMA EditStep ==
    ASSUME IInv, NEW s \in Settings, Edit(s)
    PROVE  IInv'
  <1>1. /\ UNCHANGED <<tool, memory, copies, command>> /\ file # Broken /\ file \in SUBSET Items
        /\ file' \in {(file \ Same(s)) \cup {s}, file \ Same(s)} /\ tool # "desktop"
        /\ fresh' = fresh \cup {s} /\ since' = since \cup {s}
    BY DEF IInv, Typed, Edit, Wrote
  <1>2. file' \in SUBSET Items /\ file' \ file \subseteq {s}
    BY <1>1 DEF Items
  <1>8. Same(s) \cap Entry = {} /\ s \notin Entry
    BY SettingsAssumption, TimeoutAssumption DEF Same, Timeouts
  <1>3. Typed' /\ KeptByDesktop'
    BY <1>1, <1>2 DEF IInv, Typed, KeptByDesktop
  <1>4. KeepsSettings'
    BY <1>1, <1>2 DEF IInv, KeepsSettings, Forfeits
  <1>9. KeepsUncopied' /\ Backed'
    BY <1>1, <1>2 DEF IInv, KeepsUncopied, Backed
  <1>5. Named(file', {Current}) = Named(file, {Current})
    BY <1>1, <1>8 DEF Named, Ours
  <1>6. Connects'
    BY <1>1, <1>5 DEF IInv, Connects
  <1>7. QED
    BY <1>3, <1>4, <1>6, <1>9 DEF IInv

LEMMA SaveAppStep ==
    ASSUME IInv, NEW s \in Settings, SaveApp(s)
    PROVE  IInv'
  <1>1. /\ UNCHANGED <<tool, copies, command>> /\ memory \in SUBSET Items /\ tool = "desktop"
        /\ file' = memory \cup {s} /\ memory' = memory \cup {s}
        /\ file' \subseteq fresh' /\ file' \subseteq since'
    BY DEF IInv, Typed, KeptByDesktop, SaveApp, Wrote
  <1>2. file' \in SUBSET Items
    BY <1>1 DEF Items
  <1>3. Typed' /\ KeptByDesktop'
    BY <1>1, <1>2 DEF IInv, Typed, KeptByDesktop
  <1>4. KeepsSettings' /\ KeepsUncopied' /\ Backed'
    BY <1>1 DEF KeepsSettings, KeepsUncopied, Backed
  <1>5. command.at \notin {"ask", "adding", "removing", "verify"}
    BY <1>1 DEF IInv, KeptByDesktop
  <1>6. Connects'
    BY <1>1, <1>5 DEF IInv, Connects
  <1>7. QED
    BY <1>3, <1>4, <1>6 DEF IInv

LEMMA OtherSteps ==
    ASSUME IInv, EditByHand \/ OpenApp \/ CloseApp
    PROVE  IInv'
  <1>1. CASE EditByHand
    <2>1. /\ UNCHANGED <<tool, memory, command>> /\ command.at = "idle"
          /\ file' \in (SUBSET Items) \cup {Broken}
      BY <1>1, NoCommandType DEF EditByHand
    <2>2. Typed' /\ KeptByDesktop'
      BY <2>1 DEF IInv, Typed, KeptByDesktop
    <2>3. KeepsSettings' /\ KeepsUncopied' /\ Backed' /\ Connects'
      BY <2>1 DEF KeepsSettings, KeepsUncopied, Backed, Connects
    <2>4. QED
      BY <2>2, <2>3 DEF IInv
  <1>2. CASE OpenApp \/ CloseApp
    <2>1. /\ UNCHANGED <<tool, file, copies, command, fresh, since>>
          /\ memory' \in {file, Broken} /\ (memory' # Broken => tool = "desktop")
      BY <1>2 DEF OpenApp, CloseApp
    <2>2. Typed' /\ KeptByDesktop'
      BY <2>1 DEF IInv, Typed, KeptByDesktop
    <2>3. KeepsSettings' /\ KeepsUncopied' /\ Backed' /\ Connects'
      BY <2>1 DEF IInv, KeepsSettings, KeepsUncopied, Backed, Connects, Forfeits
    <2>4. QED
      BY <2>2, <2>3 DEF IInv
  <1>3. QED
    BY <1>1, <1>2

-----------------------------------------------------------------------------
LEMMA WorkKeeps ==
    ASSUME IInv, Work
    PROVE  IInv'
  <1>1. CASE RunAll \/ RunAdd \/ RunRemove \/ RunSkips \/ GivesUp \/ NothingToDo \/ Verify \/ Interrupt
    BY <1>1, CalmSteps
  <1>2. CASE ReadJson \/ ReadCodex \/ ReadClaude
    BY <1>2, ReadSteps
  <1>3. CASE Backup \/ Ask
    BY <1>3, BackupStep, AskStep
  <1>4. CASE AddIt
    BY <1>4, AddItStep
  <1>5. CASE \E i \in Entry : RemoveIt(i)
    BY <1>5, RemoveItStep
  <1>6. CASE Replace \/ WriteFails \/ AddFails \/ Asked \/ \E i \in Entry : RemoveTimesOut(i)
    BY <1>6, EndSteps
  <1>7. QED
    BY <1>1, <1>2, <1>3, <1>4, <1>5, <1>6 DEF Work

LEMMA StepKeeps ==
    ASSUME IInv, [Next]_vars
    PROVE  IInv'
  <1>1. CASE Work
    BY <1>1, WorkKeeps
  <1>2. CASE \/ \E op \in {"add", "repair", "remove"} : Begin(op)
             \/ FlowAdd \/ SetupAll \/ FlowRemove \/ RemoveAll
    BY <1>2, CalmSteps
  <1>3. CASE \E s \in Settings : Edit(s) \/ SaveApp(s)
    BY <1>3, EditStep, SaveAppStep
  <1>4. CASE EditByHand \/ OpenApp \/ CloseApp
    BY <1>4, OtherSteps
  <1>5. CASE UNCHANGED vars
    BY <1>5 DEF vars, IInv, Typed, KeptByDesktop, KeepsSettings, KeepsUncopied, Backed, Connects,
                Forfeits
  <1>6. QED
    BY <1>1, <1>2, <1>3, <1>4, <1>5 DEF Next

LEMMA InitKeeps == Init => IInv
  <1> SUFFICES ASSUME Init PROVE IInv
    OBVIOUS
  <1>1. command \in SomeCommand /\ command.at = "idle" /\ memory = Broken
    BY NoCommandType DEF Init
  <1>2. Typed /\ KeptByDesktop
    BY <1>1 DEF Init, Typed, KeptByDesktop, Configs, Items
  <1>3. KeepsSettings /\ KeepsUncopied /\ Backed /\ Connects
    BY <1>1 DEF KeepsSettings, KeepsUncopied, Backed, Connects
  <1>4. QED
    BY <1>2, <1>3 DEF IInv

(* The invariant that the theorems below rest on. *)
THEOREM Invariant == Spec => []IInv
  BY InitKeeps, StepKeeps, PTL DEF Spec

-----------------------------------------------------------------------------
\* What a command's step does to the file.
LEMMA WorkChanges ==
    ASSUME IInv, Work
    PROVE  \/ file' = file
           \/ command.at = "replace" /\ file' = command.new
           \/ file # Broken /\ file' \in SUBSET Items /\ file \subseteq file'
           \/ /\ file # Broken /\ command.at = "removing"
              /\ \E i \in command.names : file' = file \ Named(file, {i.name})
  <1>1. CASE AddIt
    BY <1>1, AddItStep DEF AddIt
  <1>2. CASE AddFails
    <2>1. file # Broken /\ file \in SUBSET Items /\ command.names \in SUBSET Entry
          /\ file' \in {file, WithEntry(file)}
      BY <1>2 DEF AddFails, IInv, Typed, SomeCommand
    <2>2. QED
      BY <2>1, WithEntryKeeps
  <1>3. CASE \E i \in Entry : RemoveIt(i) \/ RemoveTimesOut(i)
    BY <1>3 DEF RemoveIt, RemoveTimesOut, At
  <1>4. CASE Replace
    BY <1>4 DEF Replace, At
  <1>5. CASE RunAll \/ RunAdd \/ RunRemove \/ RunSkips
    BY <1>5 DEF RunAll, RunAdd, RunRemove, RunSkips, Chosen
  <1>6. CASE GivesUp \/ NothingToDo \/ ReadJson \/ ReadCodex \/ ReadClaude
    BY <1>6 DEF GivesUp, NothingToDo, ReadJson, ReadCodex, ReadClaude
  <1>7. CASE Backup \/ WriteFails \/ Ask \/ Asked \/ Verify \/ Interrupt
    BY <1>7 DEF Backup, WriteFails, Ask, Asked, Verify, Interrupt
  <1>8. QED
    BY <1>1, <1>2, <1>3, <1>4, <1>5, <1>6, <1>7 DEF Work

\* What is left of the file when a command line has removed a name.
LEMMA RemovalTakes ==
    ASSUME IInv, file # Broken, command.at = "removing", NEW i \in command.names,
           file' = file \ Named(file, {i.name})
    PROVE  /\ file \in SUBSET Items /\ i \in Entry
           /\ file \cap Settings \subseteq file'
           /\ \A x \in file \ file' : x \in Entry /\ x.name = i.name
           /\ i.name # Current => Named(file, {Current}) \subseteq Named(file', {Current})
           /\ command.op # "remove" => i.name # Current
  <1>1. file \in SUBSET Items /\ i \in Entry
    BY DEF IInv, Typed, SomeCommand
  <1>2. command.op # "remove" => i.name # Current
    BY NamesAssumption DEF IInv, Connects
  <1>3. QED
    BY <1>1, <1>2, SettingsAssumption DEF Items, Named, Ours

(* A command takes nothing out of a configuration that is not in one of its backups or    *)
(* was written by the tool after the backup, whatever the settings and names, and however *)
(* the steps of the tool fall between its own.                                            *)
THEOREM OnlyCopiesDiscarded == Spec => DiscardsOnlyCopies
  <1>1. ASSUME IInv, Work PROVE Gone \subseteq copies \cup fresh
    <2>1. CASE file' = file
      BY <2>1 DEF Gone
    <2>2. CASE command.at = "replace" /\ file' = command.new
      BY <1>1, <2>2 DEF IInv, KeepsUncopied, Gone
    <2>3. CASE file # Broken /\ file' \in SUBSET Items /\ file \subseteq file'
      BY <2>3 DEF Gone
    <2>4. CASE /\ file # Broken /\ command.at = "removing"
               /\ \E i \in command.names :
                    file' = file \ Named(file, {i.name})
      <3>1. PICK i \in command.names : file' = file \ Named(file, {i.name})
        BY <2>4
      <3>2. ASSUME NEW x \in file, x \notin file' PROVE x \in copies \cup fresh
        <4>1. x.name = i.name /\ (command.op # "remove" => i.name # Current)
          BY <1>1, <2>4, <3>1, <3>2, RemovalTakes
        <4>2. QED
          BY <1>1, <2>4, <3>2, <4>1 DEF IInv, Backed
      <3>3. QED
        BY <3>2 DEF Gone
    <2>5. QED
      BY <1>1, <2>1, <2>2, <2>3, <2>4, WorkChanges
  <1>2. ASSUME IInv, [Next]_vars PROVE [Work => Gone \subseteq copies \cup fresh]_vars
    BY <1>1, <1>2
  <1>3. QED
    BY <1>2, Invariant, PTL DEF Spec, DiscardsOnlyCopies

(* What is not ours stays in the file, except what the tool wrote after the command had   *)
(* read it, and OpenCode's mcp_timeout when remove has taken out its last MCP server.     *)
THEOREM OthersAlwaysKept == Spec => OthersKept
  <1> DEFINE Kind == \A s \in Gone \cap Settings : s \in since \/ GoesAlong(s)
  <1>1. ASSUME IInv, Work PROVE Kind
    <2>1. CASE file' = file
      BY <2>1 DEF Gone
    <2>2. CASE command.at = "replace" /\ file' = command.new
      BY <1>1, <2>2 DEF IInv, KeepsSettings, Forfeits, Gone, GoesAlong
    <2>3. CASE file # Broken /\ file' \in SUBSET Items /\ file \subseteq file'
      BY <2>3 DEF Gone
    <2>4. CASE /\ file # Broken /\ command.at = "removing"
               /\ \E i \in command.names :
                    file' = file \ Named(file, {i.name})
      <3>1. file \cap Settings \subseteq file'
        BY <1>1, <2>4, RemovalTakes
      <3>2. QED
        BY <3>1 DEF Gone
    <2>5. QED
      BY <1>1, <2>1, <2>2, <2>3, <2>4, WorkChanges
  <1>2. ASSUME IInv, [Next]_vars PROVE [Work => Kind]_vars
    BY <1>1, <1>2
  <1>3. QED
    BY <1>2, Invariant, PTL DEF Spec, OthersKept

(* A step that adds, renames or repairs leaves a connected tool connected.                *)
THEOREM NeverDisconnects == Spec => StaysConnected
  <1>1. ASSUME IInv, Work, command.op # "remove", file # Broken, Ours(file) # {}
        PROVE  file' # Broken /\ Ours(file') # {}
    <2>1. CASE file' = file
      BY <1>1, <2>1
    <2>2. CASE command.at = "replace" /\ file' = command.new
      <3>1. command.new \in SUBSET Items /\ Ours(command.new) # {}
        BY <1>1, <2>2 DEF IInv, Typed, SomeCommand, Connects
      <3>2. QED
        BY <2>2, <3>1, BrokenAssumption DEF Items
    <2>3. CASE file' \in SUBSET Items /\ file \subseteq file'
      BY <1>1, <2>3, BrokenAssumption DEF Items, Ours
    <2>4. CASE /\ command.at = "removing"
               /\ \E i \in command.names :
                    file' = file \ Named(file, {i.name})
      <3>1. PICK i \in command.names : file' = file \ Named(file, {i.name})
        BY <2>4
      <3>2. file \in SUBSET Items /\ Named(file, {Current}) \subseteq Named(file', {Current})
        BY <1>1, <2>4, <3>1, RemovalTakes
      <3>3. Named(file, {Current}) # {}
        BY <1>1, <2>4 DEF IInv, Connects
      <3>4. file' \in SUBSET Items
        BY <3>1, <3>2
      <3>5. QED
        BY <3>2, <3>3, <3>4, BrokenAssumption DEF Named, Items
    <2>5. QED
      BY <1>1, <2>1, <2>2, <2>3, <2>4, WorkChanges
  <1>2. ASSUME IInv, [Next]_vars
        PROVE  [Work /\ command.op # "remove" /\ file # Broken /\ Ours(file) # {}
                  => file' # Broken /\ Ours(file') # {}]_vars
    <2>1. CASE Work /\ command.op # "remove" /\ file # Broken /\ Ours(file) # {}
      BY <1>1, <1>2, <2>1
    <2>2. CASE ~(Work /\ command.op # "remove" /\ file # Broken /\ Ours(file) # {})
      BY <2>2
    <2>3. QED
      BY <2>1, <2>2
  <1>3. QED
    BY <1>2, Invariant, PTL DEF Spec, StaysConnected
=============================================================================
