---------------------------- MODULE BrowserLogins ----------------------------
(***************************************************************************)
(* Commands, each a process of its own, that work through a managed        *)
(* browser: `nlm login`, the refresh in a headless browser, and the client *)
(* that sends its requests through a page (utils/cdp.py, cli/main.py,      *)
(* core/cdp_transport.py).                                                 *)
(*                                                                         *)
(* Every profile has a browser directory of its own.  A browser is started *)
(* on one and asked to listen on a port that was free when it was looked   *)
(* for; commands talk to whatever listens on a port.  chrome-port-map.json *)
(* says which browser was started for which port.                          *)
(***************************************************************************)
EXTENDS Integers, FiniteSets, FiniteSetsExt

CONSTANTS
    Commands,
    Profiles,
    FirstPort,      \* CDP_DEFAULT_PORT; a refresh begins at the next one
    LastPort,       \* the end of CDP_PORT_RANGE
    TopPort,        \* bound: ports that the system gives out beyond it
    MaxLaunches,    \* bound: browsers started
    MaxCalls,       \* bound: commands called
    MaxKills        \* bound: commands killed

ASSUME PortsAssumption ==
    /\ {FirstPort, LastPort, TopPort} \subseteq Nat \ {0}
    /\ FirstPort < LastPort /\ LastPort <= TopPort
ASSUME BoundsAssumption == {MaxLaunches, MaxCalls, MaxKills} \subseteq Nat
ASSUME ProfilesAssumption == Profiles # {}

VARIABLES
    browser,    \* the browsers started, in order
    portmap,    \* chrome-port-map.json: port to browser
    lock,       \* locks/<profile>.recovery.lock: the profiles that are being refreshed
    saved,      \* the saved login of a profile: out of whose browser, and its revision
    command,
    calls, kills,
    left        \* ghost: browsers whose command was killed

loginVars == <<browser, portmap, lock, saved, command, calls, kills, left>>

Ports == FirstPort .. TopPort
Conventional == FirstPort .. LastPort
RefreshPort == FirstPort + 1
Browsers == 1 .. MaxLaunches
None == 0

Browser == [profile : Profiles, port : Ports, headless : BOOLEAN,
            at : {"none", "starting", "up", "deaf", "gone"}]
PortMap == [Ports -> Browsers \cup {None}]
NoEntry == [n \in Ports |-> None]

\* swept: the entries that the sweep has yet to go over; doomed: the port of the one that it
\* is about to kill; ghost mute: the browser that was asked for and did not answer.
CommandPlaces == {"idle", "clear", "sweep", "probe", "kill", "lock", "find", "launch", "await",
                  "page", "save", "use", "close"}
Command == [op : {"login", "refresh", "transport"}, at : CommandPlaces, profile : Profiles,
            clear : BOOLEAN, force : BOOLEAN, retry : BOOLEAN, port : Ports,
            own : Browsers \cup {None}, via : Browsers \cup {None}, seen : Nat,
            swept : PortMap, doomed : Ports, mute : Browsers \cup {None}]

Idle(p) == [op |-> "login", at |-> "idle", profile |-> p, clear |-> FALSE, force |-> FALSE,
            retry |-> FALSE, port |-> FirstPort, own |-> None, via |-> None, seen |-> 0,
            swept |-> NoEntry, doomed |-> FirstPort, mute |-> None]
Anyone == CHOOSE p \in Profiles : TRUE

LoginTypeOK ==
    /\ browser \in [Browsers -> Browser]
    /\ portmap \in PortMap
    /\ lock \subseteq Profiles
    /\ saved \in [Profiles -> [whose : Profiles, rev : Nat]]
    /\ command \in [Commands -> Command]
    /\ calls \in 0 .. MaxCalls /\ kills \in 0 .. MaxKills
    /\ left \subseteq Browsers

LoginInit ==
    /\ browser = [b \in Browsers |-> [profile |-> Anyone, port |-> FirstPort,
                                      headless |-> FALSE, at |-> "none"]]
    /\ portmap = NoEntry
    /\ lock = {}
    /\ saved = [p \in Profiles |-> [whose |-> p, rev |-> 0]]
    /\ command = [c \in Commands |-> Idle(Anyone)]
    /\ calls = 0 /\ kills = 0 /\ left = {}

-----------------------------------------------------------------------------
\* Browsers.

Alive(b) == b # None /\ browser[b].at \in {"starting", "up", "deaf"}
Listens(b) == b # None /\ browser[b].at = "up"
Uses(p) == {b \in Browsers : Alive(b) /\ browser[b].profile = p}

\* What listens on a port, and the ports that may not answer in time although something
\* does: every request of /json/version has a timeout, mostly of a second.
On(port) == {b \in Browsers : Listens(b) /\ browser[b].port = port}
Slow == SUBSET {n \in Ports : On(n) # {}}

\* Those that were asked to close, or killed, end.
Gone(set) == [b \in Browsers |-> IF b \in set /\ Alive(b)
                                 THEN [browser[b] EXCEPT !.at = "gone"] ELSE browser[b]]

\* A browser on a directory that is in use hands over to the one there and exits; one
\* that finds its port taken goes on without listening.
Starts(b) ==
    /\ browser[b].at = "starting"
    /\ browser' = [browser EXCEPT ![b].at =
         IF \E a \in Uses(browser[b].profile) : browser[a].at # "starting" THEN "gone"
         ELSE IF On(browser[b].port) # {} THEN "deaf" ELSE "up"]
    /\ UNCHANGED <<portmap, lock, saved, command, calls, kills, left>>

\* The user quits it, or it crashes.
Quits(b) ==
    /\ Alive(b)
    /\ browser' = Gone({b})
    /\ UNCHANGED <<portmap, lock, saved, command, calls, kills, left>>

-----------------------------------------------------------------------------
\* Commands, and the port map: a file without a lock.  What another command writes
\* between the reading and the writing is lost, and so is everything if the file is read
\* while it is being written.  Entries of browsers that have ended are dropped.

At(c, place) == command[c].at = place
Goes(c, d) == command' = [command EXCEPT ![c] = d]
To(c, place) == Goes(c, [command[c] EXCEPT !.at = place])
Others(c) == {d \in Commands \ {c} : ~At(d, "idle")}

Writes(c, map) ==
    \E lost \in SUBSET {n \in Ports : map[n] # None} :
        /\ lost # {} => Others(c) # {}
        /\ portmap' = [n \in Ports |-> IF n \in lost \/ ~Alive(map[n]) THEN None ELSE map[n]]
Without(ports) == [n \in Ports |-> IF n \in ports THEN None ELSE portmap[n]]

\* mutant: a listener is as good as the profile's
MutantTrustsListener(b, p, n) == b # None /\ browser[b].port = n

\* _mapped_chrome_owns_profile: what the command line of a process says.
OwnsProfile(b, p, n) == b # None /\ browser[b].profile = p /\ browser[b].port = n

\* The profile's ports according to the map, and those of them that will not do.
Mapped(p) == {n \in Ports : Alive(portmap[n]) /\ browser[portmap[n]].profile = p}
Suits(n, headless, slow) == n \notin slow /\ \E b \in On(n) : headless \/ ~browser[b].headless
Unfit(p, headless, slow) ==
    {n \in Mapped(p) : ~Suits(n, headless, slow) \/ ~OwnsProfile(portmap[n], p, n)}

\* find_existing_nlm_chrome: the map first, then what listens on the ports.
Existing(p, headless, ports, slow) ==
    IF Mapped(p) # Unfit(p, headless, slow) THEN Mapped(p) \ Unfit(p, headless, slow)
    ELSE {n \in ports : Suits(n, headless, slow) /\ \E b \in On(n) : OwnsProfile(b, p, n)}

\* Some of the entries that will not do are cleared on the way; a browser that the map
\* does not know is entered.
Looks(c, p, headless, slow, n) ==
    LET kept == Without(Unfit(p, headless, slow))
    IN Writes(c, IF n \in Mapped(p) THEN kept ELSE [kept EXCEPT ![n] = CHOOSE b \in On(n) : TRUE])

-----------------------------------------------------------------------------
\* How a command begins and ends.

Begin(c, op, p) ==
    /\ At(c, "idle") /\ calls < MaxCalls
    /\ \E clear, force \in BOOLEAN :
        /\ op # "login" => ~clear /\ ~force
        /\ Goes(c, [Idle(p) EXCEPT !.op = op, !.clear = clear, !.force = force,
                    !.seen = saved[p].rev,
                    !.at = CASE op = "login" -> IF clear THEN "clear" ELSE "sweep"
                             [] op = "refresh" -> "lock"
                             [] op = "transport" -> "find"])
    /\ calls' = calls + 1
    /\ UNCHANGED <<browser, portmap, lock, saved, kills, left>>

Unlocked(c) == IF command[c].op = "refresh" THEN lock \ {command[c].profile} ELSE lock

Leaves(c) == /\ Goes(c, Idle(command[c].profile))
           /\ lock' = Unlocked(c)

\* terminate_chrome: Browser.close goes to the page the command has talked to, else to
\* what listens on the port; the browser it launched is then waited for, or killed.
Terminates(c) ==
    LET k == command[c]
    IN IF k.own = None THEN UNCHANGED <<browser, portmap>>
       ELSE /\ \E asked \in IF Listens(k.via) THEN {{k.via}} ELSE {{}, On(k.port)} :
                 browser' = Gone(asked \cup {k.own})
            /\ Writes(c, Without({k.port}))

\* mutant: a browser that never answered is left alone
MutantLeavesSilent(c) ==
    /\ IF command[c].retry \/ command[c].via = None THEN UNCHANGED <<browser, portmap>>
       ELSE Terminates(c)
    /\ left' = IF command[c].retry THEN left \cup ({command[c].own} \ {None}) ELSE left
    /\ Leaves(c)

\* A command that has failed before it has a page closes what it launched: `finally` of
\* a refresh, _close_login_chrome, the except of get_cdp_page_context.  The retry of a
\* login ends without.
GivesUp(c) ==
    /\ IF command[c].retry THEN UNCHANGED <<browser, portmap>> ELSE Terminates(c)
    /\ left' = IF command[c].retry THEN left \cup ({command[c].own} \ {None}) ELSE left
    /\ Leaves(c)

Fails(c) ==
    /\ command[c].at \in {"clear", "launch", "await", "page", "save"}
    /\ GivesUp(c)
    /\ UNCHANGED <<saved, calls, kills>>

\* The process is killed; its browser goes on.
Killed(c) ==
    /\ ~At(c, "idle") /\ kills < MaxKills
    /\ Leaves(c)
    /\ kills' = kills + 1
    /\ left' = left \cup ({command[c].own} \ {None})
    /\ UNCHANGED <<browser, portmap, saved, calls>>

-----------------------------------------------------------------------------
\* Looking for a browser, and starting one.

\* _clear_managed_profile_directory: the profile's browser is closed, if it is found and
\* its process is the profile's, and the directory is removed.
Clear(c) ==
    /\ At(c, "clear")
    /\ \E slow \in Slow :
       LET p == command[c].profile
           found == Existing(p, TRUE, Conventional, slow)
           unfit == Unfit(p, TRUE, slow)
       IN IF found = {} THEN Writes(c, Without(unfit)) /\ UNCHANGED browser
          ELSE \E n \in found : \E b \in On(n) :
                 /\ OwnsProfile(b, p, n)
                 /\ browser' = Gone({b})
                 /\ Writes(c, Without(unfit \cup {n}))
    /\ To(c, "sweep")
    /\ UNCHANGED <<lock, saved, calls, kills, left>>

\* _kill_stale_nlm_browsers goes over the browsers of all profiles, as the map was when the
\* sweep began (nothing, if it could not be read), in any order.
GoesOver(c, rest) ==
    LET k == command[c]
        next == IF rest # NoEntry THEN "probe" ELSE IF k.clear THEN "launch" ELSE "find"
    IN Goes(c, [k EXCEPT !.at = next, !.swept = rest, !.doomed = FirstPort, !.mute = None])
Probed(c, n) == [command[c].swept EXCEPT ![n] = None]

Sweep(c) ==
    /\ At(c, "sweep")
    /\ \/ GoesOver(c, [n \in Ports |-> IF Alive(portmap[n]) THEN portmap[n] ELSE None])
       \/ Others(c) # {} /\ GoesOver(c, NoEntry)
    /\ Writes(c, portmap)
    /\ UNCHANGED <<browser, lock, saved, calls, kills, left>>

\* mutant: what answers is killed as well
MutantSparesNone(answered) == TRUE

\* What does not answer is dead.
Unresponsive(answered) == ~answered

\* Whatever listens on the port may answer, within a second or not.
Probe(c) ==
    /\ At(c, "probe")
    /\ \E n \in Ports : \E answered \in IF On(n) = {} THEN {FALSE} ELSE BOOLEAN :
        /\ command[c].swept[n] # None
        /\ IF Unresponsive(answered)
           THEN Goes(c, [command[c] EXCEPT !.at = "kill", !.doomed = n,
                         !.mute = IF answered THEN None ELSE command[c].swept[n]])
           ELSE GoesOver(c, Probed(c, n))
    /\ UNCHANGED <<browser, portmap, lock, saved, calls, kills, left>>

\* mutant: the process that the map names by now
MutantLooksAgain(c) == portmap[command[c].doomed]

\* The process that the map had named, whatever it does by now; and the entry of the port,
\* whatever it names by now.
Target(c) == command[c].swept[command[c].doomed]

Kill(c) ==
    /\ At(c, "kill")
    /\ browser' = Gone({Target(c)})
    /\ Writes(c, Without({command[c].doomed}))
    /\ GoesOver(c, Probed(c, command[c].doomed))
    /\ UNCHANGED <<lock, saved, calls, kills, left>>

\* run_headless_auth: one refresh of a profile at a time; the next one takes the login
\* that the last one has saved, if it is valid.
Lock(c) ==
    /\ At(c, "lock")
    /\ LET p == command[c].profile
       IN \/ /\ p \notin lock
             /\ lock' = lock \cup {p} /\ To(c, "find")
          \/ /\ p \notin lock /\ saved[p].rev # command[c].seen
             /\ Goes(c, Idle(p)) /\ UNCHANGED lock
          \/ /\ p \in lock      \* FileLockTimeout
             /\ Goes(c, Idle(p)) /\ UNCHANGED lock
    /\ UNCHANGED <<browser, portmap, saved, calls, kills, left>>

SearchedPorts(c) == IF command[c].op = "refresh" THEN {RefreshPort} ELSE Conventional

Find(c) ==
    /\ At(c, "find")
    /\ \E slow \in Slow :
       LET p == command[c].profile
           headless == command[c].op # "login"
           found == Existing(p, headless, SearchedPorts(c), slow)
       IN \/ /\ found = {}
             /\ Writes(c, Without(Unfit(p, headless, slow)))
             /\ To(c, "launch")
          \/ \E n \in found : \E b \in On(n) :
                /\ Looks(c, p, headless, slow, n)
                /\ Goes(c, [command[c] EXCEPT !.port = n, !.via = b, !.at = "page"])
    /\ UNCHANGED <<browser, lock, saved, calls, kills, left>>

\* The first port that nothing listens on (find_available_port) or that does not answer
\* (_find_free_cdp_port).  Only find_available_port has the system give it another one when
\* all of its range are taken.
FreePorts(c, slow) ==
    LET range == IF command[c].op = "refresh" THEN RefreshPort .. LastPort ELSE Conventional
    IN {n \in range : On(n) = {} \/ (command[c].op = "transport" /\ n \in slow)}
NewPorts(c, slow) ==
    IF FreePorts(c, slow) # {} THEN {Min(FreePorts(c, slow))}
    ELSE IF command[c].op = "transport" THEN {}
    ELSE {n \in Ports \ Conventional : On(n) = {}}

\* The browser's own lock on the directory is looked at by a login only, and shows
\* nothing where it is a dangling link.  A refresh does not write the map.
LaunchBrowser(c) ==
    /\ At(c, "launch")
    /\ \E b \in Browsers, slow \in Slow : \E n \in NewPorts(c, slow) :
        LET k == command[c]
        IN /\ browser[b].at = "none" /\ \A a \in 1 .. b - 1 : browser[a].at # "none"
           /\ browser' = [browser EXCEPT ![b] =
                [profile |-> k.profile, port |-> n, headless |-> k.op # "login",
                 at |-> "starting"]]
           /\ IF k.op = "refresh" THEN UNCHANGED portmap
              ELSE \E lost \in BOOLEAN :
                     /\ lost => Others(c) # {}
                     /\ portmap' = IF lost THEN portmap ELSE [portmap EXCEPT ![n] = b]
           /\ Goes(c, [k EXCEPT !.port = n, !.own = b, !.at = "await"])
    /\ UNCHANGED <<lock, saved, calls, kills, left>>

-----------------------------------------------------------------------------
\* Talking to it.

\* Whatever listens on the port is taken for the browser that was started.
Answered(c) ==
    /\ At(c, "await")
    /\ \E b \in On(command[c].port) :
        Goes(c, [command[c] EXCEPT !.via = b, !.at = "page"])
    /\ UNCHANGED <<browser, portmap, lock, saved, calls, kills, left>>

\* _wait_for_launched_or_existing_browser: another browser of the profile has come up.
AnsweredElsewhere(c) ==
    /\ At(c, "await") /\ command[c].op = "transport"
    /\ \E slow \in Slow :
       \E n \in Existing(command[c].profile, TRUE, Conventional, slow) : \E b \in On(n) :
        /\ On(command[c].port) = {} \/ command[c].port \in slow
        /\ Terminates(c)
        /\ Goes(c, [command[c] EXCEPT !.port = n, !.via = b, !.own = None, !.at = "page"])
    /\ UNCHANGED <<lock, saved, calls, kills, left>>

\* The user signs in, or is signed in; cookies and tokens are read from the page.
SignedIn(c) ==
    /\ At(c, "page") /\ Listens(command[c].via)
    /\ To(c, IF command[c].op = "transport" THEN "use" ELSE "save")
    /\ UNCHANGED <<browser, portmap, lock, saved, calls, kills, left>>

\* A login saves what it has read; a refresh has tried it with the service before, and
\* saves it if the revision is still the one it began with.
Save(c) ==
    LET k == command[c]
    IN /\ At(c, "save")
       /\ k.op = "refresh" => saved[k.profile].rev = k.seen
       /\ saved' = [saved EXCEPT ![k.profile] =
            [whose |-> browser[k.via].profile, rev |-> @.rev + 1]]
       /\ To(c, "close")
       /\ UNCHANGED <<browser, portmap, lock, calls, kills, left>>

\* AccountMismatchError: the browser is closed, the directory cleared, and whatever
\* account is signed in next is saved.
Mismatch(c) ==
    /\ At(c, "save") /\ command[c].op = "login" /\ ~command[c].force /\ ~command[c].retry
    /\ Terminates(c)
    /\ Goes(c, [Idle(command[c].profile) EXCEPT !.clear = TRUE, !.retry = TRUE, !.at = "clear"])
    /\ UNCHANGED <<lock, saved, calls, kills, left>>

\* The command is done, or the client is closed.
Close(c) ==
    /\ command[c].at \in {"use", "close"}
    /\ Terminates(c)
    /\ Leaves(c)
    /\ UNCHANGED <<saved, calls, kills, left>>

-----------------------------------------------------------------------------
CommandStep(c) ==
    \/ Clear(c) \/ Sweep(c) \/ Probe(c) \/ Kill(c) \/ Lock(c) \/ Find(c) \/ LaunchBrowser(c)
    \/ Fails(c) \/ Answered(c) \/ AnsweredElsewhere(c) \/ SignedIn(c) \/ Save(c) \/ Mismatch(c)
    \/ Close(c)

LoginNext ==
    \/ \E b \in Browsers : Starts(b) \/ Quits(b)
    \/ \E c \in Commands :
         \/ \E op \in {"login", "refresh", "transport"}, p \in Profiles : Begin(c, op, p)
         \/ CommandStep(c) \/ Killed(c)

LoginSpec == LoginInit /\ [][LoginNext]_loginVars

-----------------------------------------------------------------------------
\* Whose login is taken depends on two lookups at different times: of the process that the
\* map or the port names, and of what listens when the page is opened.  A command works in
\* a page of another profile's browser only on a port that a browser of its own profile was
\* started for and did not get (or lost).
StrangersByRace ==
    \A c \in Commands :
        LET k == command[c]
        IN Listens(k.via) /\ browser[k.via].profile # k.profile =>
            \E b \in Browsers :
                /\ browser[b].at \in {"starting", "deaf", "gone"}
                /\ browser[b].profile = k.profile /\ browser[b].port = browser[k.via].port

\* The sweep at the beginning of every login goes over the browsers of all profiles, and
\* Browser.close goes to whatever was last talked to; what a login has read of the map is
\* out of date by the time it kills.  A browser that listens is never stopped by a command
\* of another profile, but for one that was started on its port, or one that this command
\* has asked on its port without an answer.
Stops(c, b) == browser[b].at # "gone" /\ browser'[b].at = "gone" /\ command'[c] # command[c]
StopsByRace ==
    [][\A b \in Browsers, c \in Commands :
         Listens(b) /\ Stops(c, b) =>
            \/ browser[b].profile = command[c].profile
            \/ command[c].own # None /\ browser[command[c].own].port = browser[b].port
            \/ b = command[c].mute]_loginVars

\* _kill_stale_nlm_browsers, as its docstring (cdp.py:1487) has it: browsers "that are no
\* longer responsive".  One that another command has just started never was.
OnlyTheDead ==
    [][\A b \in Browsers, c \in Commands :
         At(c, "kill") /\ Stops(c, b) => browser[b].at # "starting"]_loginVars

\* A headless browser keeps its directory in use, so that no login or refresh can start
\* another one: when it is not closed by the command that started it, on every path that
\* command can end, it stays for good.  Only a killed command leaves one.
NoHeadlessLeft ==
    \A b \in Browsers :
        Alive(b) /\ browser[b].headless /\ b \notin left => \E c \in Commands : command[c].own = b

\* The login saved for a profile is one of its own browser's.
SavedIsOwn == \A p \in Profiles : saved[p].whose = p
=============================================================================
