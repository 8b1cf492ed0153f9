------------------------ MODULE ProfileNamesProofs ------------------------
(***************************************************************************)
(* Proofs, for any number of commands, names and accounts and any bounds:  *)
(* a name's browser and its login belong together, no profile is moved     *)
(* into the directory of another, and the default names a profile with a   *)
(* login, but for the races and failures that the properties name.         *)
(***************************************************************************)
EXTENDS ProfileNames, TLAPS

\* A directory is there when there is something in it.
Present ==
    \A n \in Names : /\ auth[n].there <=> auth[n].login # None
                     /\ browser[n].there <=> browser[n].account # None

\* The login of one name and the browser of another may become those of one.
Joined(n, m) ==
    \/ auth[n].login = None \/ browser[m].account = None \/ auth[n].login = browser[m].account
    \/ browser[m].switched

\* What a command may be at.
Formed(r) ==
    /\ r.op \in {"login", "refresh", "check", "http", "delete", "rename"} => r.name \in Names
    /\ r.op = "config" => r.config \in Names
    /\ r.op = "rename" => r.to \in Names /\ r.to # r.name /\ r.config \in Names
    /\ r.op \in {"login", "refresh", "check", "http"} /\ r.at = "save" => r.who \in Accounts
    /\ r.op = "none" <=> r.at = "idle"
    /\ r.at = "browse" => r.op \in {"login", "refresh"}
    /\ r.at = "save" => r.op \in {"login", "refresh", "check", "http"}
    /\ r.op = "rename" => r.at \in {"browser", "auth", "config", "undo auth", "undo browser"}
    /\ r.op = "config" => r.at = "config"
    /\ r.op = "delete" => r.at = "delete"

\* The account that a login or a refresh is about to save is that of the browser.
Pending(r) ==
    r.op \in {"login", "refresh"} /\ r.at = "save" =>
        \/ browser[r.name].account \in {None, r.who} \/ browser[r.name].switched
        \/ r.name \in raced

\* What a rename has not moved yet, or has to move back, fits what it has moved.
Follows(r) ==
    /\ r.at = "browser" => ~browser[r.to].there /\ r.moved = {}
    /\ r.at = "auth" => ~browser[r.name].there /\ Joined(r.name, r.to)
    /\ r.at = "config" => ~browser[r.name].there /\ Joined(r.name, r.to)
    /\ r.at = "undo auth" /\ r.moved # {} => ~browser[r.name].there /\ Joined(r.name, r.to)
    /\ r.at = "undo browser" /\ "browser" \in r.moved => Joined(r.name, r.to)

\* A snap browser stays where it was, and a login that is moved back fits it as before.
LeavesBehind(r) ==
    /\ r.at # "browser" /\ "browser" \notin r.moved
    /\ "auth" \in r.moved /\ r.at # "undo browser" => Joined(r.to, r.name) \/ r.name \in behind

\* ... and nothing is in its way.
Halfway(r) ==
    r.op = "rename" =>
        \/ r.name \in raced \/ r.to \in raced
        \/ /\ r.at \in {"browser", "auth"} => ~auth[r.to].there /\ "auth" \notin r.moved
           /\ ~snap => Follows(r)
           /\ snap => LeavesBehind(r)

MixedAt(n) == Agree(n) \/ browser[n].switched \/ n \in raced \cup behind

\* What a step does to the kind of browser and to the names of those left behind.
Ghosts ==
    /\ snap' = snap
    /\ behind \subseteq behind' /\ behind' \subseteq Names
    /\ behind' = behind \/ snap

\* What a command relies on.
Fits(c) == Formed(command[c]) /\ Pending(command[c]) /\ Halfway(command[c])

PairsInv ==
    /\ TypeOK /\ Present
    /\ \A c \in Commands : Fits(c)
    /\ MixedByRace /\ BuriedByRace
    /\ snap \/ behind = {}

-----------------------------------------------------------------------------
\* How a step that keeps its hands off what others rely on keeps the invariant.

Counted ==
    /\ calls \in 0 .. MaxCalls /\ failures \in 0 .. MaxFailures /\ crashes \in 0 .. MaxCrashes
    /\ default \in Names /\ astray \in BOOLEAN

\* Only command c moves.
Moves(c) ==
    /\ command' \in [Commands -> Command]
    /\ \A d \in Commands \ {c} : command'[d] = command[d]

\* Only command c moves, to r.
LEMMA Effect ==
    ASSUME PairsInv, NEW c \in Commands, NEW r \in Command, Goes(c, r)
    PROVE  Moves(c) /\ command'[c] = r
  BY DEF PairsInv, TypeOK, Goes, Moves

\* A step that moves c alone.
LEMMA Quiet ==
    ASSUME PairsInv, Ghosts, NEW c \in Commands, Moves(c), Fits(c)', Counted',
           UNCHANGED <<auth, browser, buried, raced>>
    PROVE  PairsInv'
  <1>1. TypeOK' /\ Present' /\ (snap \/ behind = {})'
    BY DEF PairsInv, TypeOK, Present, Counted, Moves, Ghosts
  <1>2. ASSUME NEW d \in Commands \ {c} PROVE Fits(d)'
    <2>1. command'[d] = command[d] /\ Fits(d)
      BY DEF Moves, PairsInv
    <2>2. QED
      BY <2>1 DEF Fits, Pending, Halfway, Follows, LeavesBehind, Joined, Ghosts
  <1>3. MixedByRace' /\ BuriedByRace'
    BY DEF PairsInv, MixedByRace, Agree, BuriedByRace, Ghosts
  <1>4. QED
    BY <1>1, <1>2, <1>3 DEF PairsInv

\* Those whom a command disturbs are told.
LEMMA Told ==
    ASSUME NEW c \in Commands, NEW d \in Commands \ {c}, NEW names, Enters(c, names),
           command[d].at # "idle", Concerns(d) \cap names # {},
           "rename" \in {command[c].op, command[d].op}
    PROVE  Concerns(d) \subseteq raced'
  BY DEF Enters

\* What is raced stays so, and a disturbed step tells of its names.
LEMMA RacedGrows ==
    ASSUME NEW c \in Commands, NEW names, Enters(c, names)
    PROVE  raced \subseteq raced' /\ (raced \cap names # {} => names \subseteq raced')
  BY DEF Enters

\* Another command's rename is not disturbed by what happens elsewhere, or is told.
LEMMA OthersHalfway ==
    ASSUME PairsInv, Ghosts, NEW c \in Commands, NEW d \in Commands \ {c}, NEW names \in SUBSET Names,
           Moves(c), raced \subseteq raced',
           command[d].op = "rename" /\ Concerns(d) \cap names # {} =>
               Concerns(d) \cap raced' # {},
           \A n \in Names \ names : auth'[n] = auth[n] /\ browser'[n] = browser[n]
    PROVE  Halfway(command[d])'
  <1> DEFINE r == command[d]
  <1>1. Halfway(r) /\ Formed(r) /\ command'[d] = r
    BY DEF PairsInv, Fits, Moves
  <1>2. CASE r.op # "rename"
    BY <1>1, <1>2 DEF Halfway
  <1>3. CASE r.op = "rename"
    <2>1. Concerns(d) = {r.name, r.to} /\ r.name \in Names /\ r.to \in Names
      BY <1>1, <1>3 DEF Concerns, Formed
    <2>2. CASE r.name \in raced' \/ r.to \in raced'
      BY <1>1, <2>2 DEF Halfway
    <2>3. CASE r.name \notin raced' /\ r.to \notin raced'
      <3>1. r.name \notin names /\ r.to \notin names
        BY <1>3, <2>1, <2>3
      <3>2. /\ auth'[r.name] = auth[r.name] /\ auth'[r.to] = auth[r.to]
            /\ browser'[r.name] = browser[r.name] /\ browser'[r.to] = browser[r.to]
        BY <2>1, <3>1
      <3>3. r.name \notin raced /\ r.to \notin raced
        BY <2>3
      <3>4. QED
        BY <1>1, <3>2, <3>3 DEF Halfway, Follows, LeavesBehind, Joined, Ghosts
    <2>4. QED
      BY <2>2, <2>3
  <1>4. QED
    BY <1>2, <1>3

\* A step that works at some names.
LEMMA Works ==
    ASSUME PairsInv, Ghosts, NEW c \in Commands, NEW names \in SUBSET Names,
           Moves(c), Fits(c)', Counted',
           raced \subseteq raced', raced' \subseteq Names,
           auth' \in [Names -> Auth], browser' \in [Names -> Browser],
           buried' \subseteq {"browser", "auth"} \X Names \X Names,
           \A n \in Names \ names : auth'[n] = auth[n] /\ browser'[n] = browser[n],
           \A n \in names :
               /\ auth'[n].there <=> auth'[n].login # None
               /\ browser'[n].there <=> browser'[n].account # None
               /\ MixedAt(n)',
           \A d \in Commands \ {c} :
               /\ command[d].op = "rename" /\ Concerns(d) \cap names # {} =>
                      Concerns(d) \cap raced' # {}
               /\ Pending(command[d])',
           BuriedByRace'
    PROVE  PairsInv'
  <1>1. TypeOK' /\ (snap \/ behind = {})'
    BY DEF PairsInv, TypeOK, Counted, Moves, Ghosts
  <1>2. Present'
    BY DEF PairsInv, Present
  <1>3. ASSUME NEW d \in Commands \ {c} PROVE Fits(d)'
    <2>1. Halfway(command[d])'
      BY OthersHalfway
    <2>2. Formed(command[d])'
      BY DEF PairsInv, Fits, Moves
    <2>3. QED
      BY <2>1, <2>2 DEF Fits
  <1>4. ASSUME NEW n \in Names \ names PROVE MixedAt(n)'
    BY DEF PairsInv, MixedByRace, MixedAt, Agree, Ghosts
  <1>5. MixedByRace'
    BY <1>4 DEF MixedByRace, MixedAt
  <1>6. QED
    BY <1>1, <1>2, <1>3, <1>5 DEF PairsInv

\* A step that changes nothing but c's record and the counters.
LEMMA Stands ==
    ASSUME PairsInv, Ghosts, NEW c \in Commands, NEW r \in Command, Goes(c, r),
           Formed(r), Pending(r), Halfway(r), Counted',
           UNCHANGED <<auth, browser, buried, raced>>
    PROVE  PairsInv'
  <1>1. Moves(c) /\ command'[c] = r
    BY Effect
  <1>2. Fits(c)'
    BY <1>1 DEF Fits, Pending, Halfway, Follows, LeavesBehind, Joined, Ghosts
  <1>3. QED
    BY <1>1, <1>2, Quiet

\* The bounds are numbers.
LEMMA Bounds == MaxCalls \in Nat /\ MaxFailures \in Nat /\ MaxCrashes \in Nat
  BY BoundsAssumption

\* The counters are in their ranges.
LEMMA CountedNow == ASSUME PairsInv PROVE Counted
  BY DEF PairsInv, TypeOK, Counted

\* A command that is not running relies on nothing.
LEMMA IdleFits ==
    Idle \in Command /\ Formed(Idle) /\ Pending(Idle) /\ Halfway(Idle) /\ Idle.op = "none"
    /\ Idle.at = "idle"
  <1>1. Idle \in Command
    BY DEF Idle, Command
  <1>2. QED
    BY <1>1 DEF Idle, Formed, Pending, Halfway

\* A record that starts from that of an idle command.
LEMMA BeginStep ==
    ASSUME PairsInv, Ghosts, NEW c \in Commands, NEW r \in Command, Begins(c, r),
           Formed(r), Pending(r), Halfway(r)
    PROVE  PairsInv'
  <1>1. Counted'
    BY CountedNow, BoundsAssumption DEF Begins, Counted
  <1>2. QED
    BY <1>1, Stands DEF Begins

\* A login begins.
LEMMA StartLoginStep ==
    ASSUME PairsInv, Ghosts, NEW c \in Commands, NEW n \in Names, NEW protect \in BOOLEAN,
           NEW force \in BOOLEAN, StartLogin(c, n, protect, force)
    PROVE  PairsInv'
  <1> DEFINE new == auth[n].login = None
             protected == protect /\ auth[n].login = None
             r == [Idle EXCEPT !.op = "login", !.at = "browse", !.name = n, !.force = force,
                               !.new = new, !.protect = protected]
  <1>1. Begins(c, r)
    BY DEF StartLogin
  <1>2. new \in BOOLEAN /\ protected \in BOOLEAN
    OBVIOUS
  <1> HIDE DEF new, protected
  <1>3. r \in Command /\ r.op = "login" /\ r.at = "browse" /\ r.name = n
    BY <1>2 DEF Idle, Command
  <1> HIDE DEF r
  <1>4. Formed(r) /\ Pending(r) /\ Halfway(r)
    BY <1>3 DEF Formed, Pending, Halfway
  <1>5. QED
    BY <1>1, <1>3, <1>4, BeginStep

\* A refresh begins.
LEMMA StartRefreshStep ==
    ASSUME PairsInv, Ghosts, NEW c \in Commands, NEW n \in Names, StartRefresh(c, n)
    PROVE  PairsInv'
  <1> DEFINE seen == auth[n].login
             r == [Idle EXCEPT !.op = "refresh", !.at = "browse", !.name = n, !.seen = seen]
  <1>1. Begins(c, r)
    BY DEF StartRefresh
  <1>2. seen \in Accounts \cup {None}
    BY DEF PairsInv, TypeOK, Auth
  <1> HIDE DEF seen
  <1>3. r \in Command /\ r.op = "refresh" /\ r.at = "browse" /\ r.name = n
    BY <1>2 DEF Idle, Command
  <1> HIDE DEF r
  <1>4. Formed(r) /\ Pending(r) /\ Halfway(r)
    BY <1>3 DEF Formed, Pending, Halfway
  <1>5. QED
    BY <1>1, <1>3, <1>4, BeginStep

\* A check or an HTTP refresh begins, with the login that it has loaded.
LEMMA LoadsStep ==
    ASSUME PairsInv, Ghosts, NEW c \in Commands, NEW n \in Names, StartCheck(c, n) \/ StartHttp(c, n)
    PROVE  PairsInv'
  <1> DEFINE who == auth[n].login
             email == auth[n].email
             protected == auth[n].protected
             r(op) == [Idle EXCEPT !.op = op, !.at = "save", !.name = n, !.who = who,
                                   !.email = email, !.protect = protected]
  <1>1. (Begins(c, r("check")) \/ Begins(c, r("http"))) /\ who # None
    BY DEF StartCheck, StartHttp, Loads
  <1>2. who \in Accounts /\ email \in Accounts \cup {None} /\ protected \in BOOLEAN
    BY <1>1 DEF PairsInv, TypeOK, Auth
  <1> HIDE DEF who, email, protected
  <1>3. ASSUME NEW op \in {"check", "http"}
        PROVE  /\ r(op) \in Command /\ Formed(r(op)) /\ Pending(r(op)) /\ Halfway(r(op))
    <2>1. r(op) \in Command /\ r(op).op = op /\ r(op).at = "save" /\ r(op).name = n
          /\ r(op).who = who
      BY <1>2 DEF Idle, Command
    <2> HIDE DEF r
    <2>2. QED
      BY <1>2, <2>1 DEF Formed, Pending, Halfway
  <1> HIDE DEF r
  <1>4. QED
    BY <1>1, <1>3, BeginStep

\* A deletion begins.
LEMMA StartDeleteStep ==
    ASSUME PairsInv, Ghosts, NEW c \in Commands, NEW n \in Names, StartDelete(c, n)
    PROVE  PairsInv'
  <1> DEFINE r == [Idle EXCEPT !.op = "delete", !.at = "delete", !.name = n]
  <1>1. Begins(c, r)
    BY DEF StartDelete
  <1>2. r \in Command /\ r.op = "delete" /\ r.at = "delete" /\ r.name = n
    BY DEF Idle, Command
  <1> HIDE DEF r
  <1>3. Formed(r) /\ Pending(r) /\ Halfway(r)
    BY <1>2 DEF Formed, Pending, Halfway
  <1>4. QED
    BY <1>1, <1>2, <1>3, BeginStep

\* A command that writes the default begins.
LEMMA StartWriteStep ==
    ASSUME PairsInv, Ghosts, NEW c \in Commands,
           StartConfig(c) \/ \E n \in Names : StartSwitch(c, n)
    PROVE  PairsInv'
  <1>1. PICK n \in Names :
            Begins(c, [Idle EXCEPT !.op = "config", !.at = "config", !.config = n])
    BY DEF StartConfig, StartSwitch, PairsInv, TypeOK
  <1> DEFINE r == [Idle EXCEPT !.op = "config", !.at = "config", !.config = n]
  <1>2. r \in Command /\ r.op = "config" /\ r.at = "config" /\ r.config = n
    BY DEF Idle, Command
  <1>3. Begins(c, r)
    BY <1>1
  <1> HIDE DEF r
  <1>4. Formed(r) /\ Pending(r) /\ Halfway(r)
    BY <1>2 DEF Formed, Pending, Halfway
  <1>5. QED
    BY <1>2, <1>3, <1>4, BeginStep

\* A rename finds both directories of the new name free.
LEMMA StartRenameStep ==
    ASSUME PairsInv, Ghosts, NEW c \in Commands, NEW n \in Names, NEW m \in Names \ {n},
           NEW asked \in {n, m, None}, StartRename(c, n, m, asked)
    PROVE  PairsInv'
  <1> DEFINE place == IF Seen(n) THEN "browser" ELSE "auth"
             config == Read(asked)
             by == asked # None
             r == [Idle EXCEPT !.op = "rename", !.at = place, !.name = n, !.to = m,
                               !.config = config, !.asked = by]
  <1>1. Begins(c, r) /\ ~auth[m].there /\ (snap \/ ~browser[m].there)
    BY DEF StartRename, Renamable, Seen
  <1>2. config \in Names /\ by \in BOOLEAN /\ place \in {"browser", "auth"}
        /\ (place = "auth" => snap \/ ~browser[n].there) /\ (place = "browser" => ~snap)
    BY DEF Read, Seen, PairsInv, TypeOK
  <1> HIDE DEF config, by, place
  <1>3. /\ r \in Command /\ r.op = "rename" /\ r.at = place /\ r.name = n /\ r.to = m
        /\ r.config = config /\ r.moved = {}
    BY <1>2 DEF Idle, Command
  <1> HIDE DEF r
  <1>4. snap \/ browser[m].account = None
    BY <1>1 DEF PairsInv, Present
  <1>5. Formed(r) /\ Pending(r) /\ Halfway(r)
    BY <1>1, <1>2, <1>3, <1>4 DEF Formed, Pending, Halfway, Follows, LeavesBehind, Joined
  <1>6. QED
    BY <1>1, <1>3, <1>5, BeginStep

-----------------------------------------------------------------------------
\* Steps that change no directory.

\* A command that ends, or is killed.
LEMMA EndStep ==
    ASSUME PairsInv, Ghosts, NEW c \in Commands,
           Cancel(c) \/ Crash(c) \/ FollowDefault(c) \/ WriteConfig(c)
    PROVE  PairsInv'
  <1>1. Goes(c, Idle) /\ UNCHANGED <<auth, browser, buried, raced>>
    BY DEF Cancel, Crash, FollowDefault, WriteConfig, Ends, Stays, Counts
  <1>2. Counted'
    <2>1. command[c] \in Command /\ Formed(command[c])
      BY DEF PairsInv, TypeOK, Fits
    <2>2. default' \in Names
      BY <2>1, CountedNow DEF Cancel, Crash, FollowDefault, WriteConfig, Stays, Saved, At,
                              Formed, Counted
    <2>3. /\ calls' = calls /\ failures' = failures
          /\ crashes' = crashes \/ (crashes < MaxCrashes /\ crashes' = crashes + 1)
      BY DEF Cancel, Crash, FollowDefault, WriteConfig, Stays, Counts
    <2>4. crashes' \in 0 .. MaxCrashes
      BY <2>3, CountedNow, Bounds DEF Counted
    <2>5. astray' \in BOOLEAN
      BY <2>1, CountedNow
         DEF Cancel, Crash, FollowDefault, WriteConfig, Stays, Counted, Command
    <2>6. QED
      BY <2>2, <2>3, <2>4, <2>5, CountedNow DEF Counted
  <1>3. QED
    BY <1>1, <1>2, IdleFits, Stands

\* A login finds another account and begins again.
LEMMA MismatchStep ==
    ASSUME PairsInv, Ghosts, NEW c \in Commands, Mismatch(c)
    PROVE  PairsInv'
  <1> DEFINE k == command[c]
             r == [k EXCEPT !.at = "browse", !.force = TRUE, !.who = None, !.email = None]
  <1>1. k.op = "login" /\ Goes(c, r) /\ Stays
    BY DEF Mismatch, At
  <1>2. k \in Command /\ Formed(k)
    BY DEF PairsInv, TypeOK, Fits
  <1>3. r \in Command /\ r.op = "login" /\ r.at = "browse" /\ r.name = k.name
    BY <1>1, <1>2 DEF Command
  <1> HIDE DEF r
  <1>4. Formed(r) /\ Pending(r) /\ Halfway(r)
    BY <1>1, <1>2, <1>3 DEF Formed, Pending, Halfway
  <1>5. Counted'
    BY <1>1, CountedNow DEF Stays, Counts, Counted
  <1>6. QED
    BY <1>1, <1>3, <1>4, <1>5, Stands DEF Stays

\* A refresh reads what the browser is signed in with.
LEMMA ExtractStep ==
    ASSUME PairsInv, Ghosts, NEW c \in Commands, Extract(c)
    PROVE  PairsInv'
  <1> DEFINE k == command[c]
             who == browser[k.name].account
             r == [k EXCEPT !.at = "save", !.who = who]
  <1>1. k.op = "refresh" /\ who # None /\ Goes(c, r) /\ Stays
    BY DEF Extract, At
  <1>2. k \in Command /\ Formed(k)
    BY DEF PairsInv, TypeOK, Fits
  <1>3. who \in Accounts
    BY <1>1, <1>2 DEF PairsInv, TypeOK, Browser, Formed
  <1>4. r \in Command /\ r.op = "refresh" /\ r.at = "save" /\ r.name = k.name /\ r.who = who
    BY <1>1, <1>2, <1>3 DEF Command
  <1> HIDE DEF r
  <1>5. Pending(r)
    BY <1>4 DEF Pending
  <1>6. Formed(r) /\ Halfway(r)
    BY <1>1, <1>2, <1>3, <1>4 DEF Formed, Halfway
  <1>7. Counted'
    BY <1>1, CountedNow DEF Stays, Counts, Counted
  <1>8. QED
    BY <1>1, <1>4, <1>5, <1>6, <1>7, Stands DEF Stays

\* A rename fails and begins to move back.
LEMMA StepFailsStep ==
    ASSUME PairsInv, Ghosts, NEW c \in Commands, StepFails(c)
    PROVE  PairsInv'
  <1> DEFINE k == command[c]
             r == [k EXCEPT !.at = "undo auth"]
  <1>1. /\ k.op = "rename" /\ k.at \in {"browser", "auth", "config"} /\ Goes(c, r)
        /\ failures' = failures \/ (failures < MaxFailures /\ failures' = failures + 1)
        /\ UNCHANGED <<auth, browser, default, calls, crashes, buried, raced, astray>>
    BY DEF StepFails, To
  <1>2. k \in Command /\ Formed(k) /\ Halfway(k)
    BY DEF PairsInv, TypeOK, Fits
  <1>3. /\ r \in Command /\ r.op = "rename" /\ r.at = "undo auth" /\ r.name = k.name
        /\ r.to = k.to /\ r.config = k.config /\ r.moved = k.moved
    BY <1>1, <1>2 DEF Command
  <1> HIDE DEF r
  <1>4. Formed(r) /\ Pending(r) /\ Halfway(r)
    BY <1>1, <1>2, <1>3 DEF Formed, Pending, Halfway, Follows, LeavesBehind
  <1>5. Counted'
    BY <1>1, CountedNow, Bounds DEF Counted
  <1>6. QED
    BY <1>1, <1>3, <1>4, <1>5, Stands

-----------------------------------------------------------------------------
\* Steps that work at one name.

\* What a step that enters names does to the names that are raced.
LEMMA EntersRaced ==
    ASSUME PairsInv, NEW c \in Commands, NEW names \in SUBSET Names, Enters(c, names)
    PROVE  /\ raced \subseteq raced' /\ raced' \subseteq Names
           /\ \A d \in Commands \ {c} :
                command[d].op = "rename" /\ Concerns(d) \cap names # {} =>
                    Concerns(d) \subseteq raced' /\ Concerns(d) \cap raced' # {}
  <1>1. raced \subseteq raced'
    BY RacedGrows
  <1>2. raced \subseteq Names
    BY DEF PairsInv, TypeOK
  <1>3. ASSUME NEW d \in Commands, Concerns(d) \cap names # {} PROVE Concerns(d) \subseteq Names
    <2>1. Formed(command[d])
      BY DEF PairsInv, Fits
    <2>2. QED
      BY <1>3, <2>1 DEF Concerns, Formed
  <1>4. raced' \subseteq Names
    BY <1>2, <1>3 DEF Enters
  <1>5. ASSUME NEW d \in Commands \ {c}, command[d].op = "rename", Concerns(d) \cap names # {}
        PROVE  Concerns(d) \subseteq raced' /\ Concerns(d) \cap raced' # {}
    <2>1. Formed(command[d])
      BY DEF PairsInv, Fits
    <2>2. command[d].at # "idle"
      BY <1>5, <2>1 DEF Formed
    <2>3. Concerns(d) \subseteq raced'
      BY <1>5, <2>2, Told
    <2>4. QED
      BY <1>5, <2>3
  <1>6. QED
    BY <1>1, <1>4, <1>5

\* A step at one name that moves no directory.
LEMMA AtOne ==
    ASSUME PairsInv, Ghosts, NEW c \in Commands, NEW n \in Names, NEW A \in Auth, NEW B \in Browser,
           Moves(c), Fits(c)', Counted', buried' = buried,
           raced \subseteq raced', raced' \subseteq Names,
           auth' = [auth EXCEPT ![n] = A], browser' = [browser EXCEPT ![n] = B],
           A.there <=> A.login # None, B.there <=> B.account # None,
           \/ A.login = None \/ B.account = None \/ A.login = B.account
           \/ B.switched \/ n \in raced' \cup behind',
           \A d \in Commands \ {c} :
               /\ command[d].op = "rename" /\ n \in Concerns(d) => Concerns(d) \cap raced' # {}
               /\ command[d].name = n => Pending(command[d])'
    PROVE  PairsInv'
  <1>1. /\ auth' \in [Names -> Auth] /\ browser' \in [Names -> Browser]
        /\ auth'[n] = A /\ browser'[n] = B
        /\ \A m \in Names \ {n} : auth'[m] = auth[m] /\ browser'[m] = browser[m]
    BY DEF PairsInv, TypeOK
  <1>2. BuriedByRace' /\ buried' \subseteq {"browser", "auth"} \X Names \X Names
    BY DEF PairsInv, TypeOK, BuriedByRace
  <1>3. MixedAt(n)'
    BY <1>1 DEF MixedAt, Agree
  <1>4. ASSUME NEW d \in Commands \ {c} PROVE Pending(command[d])'
    <2>1. CASE command[d].name = n
      BY <2>1
    <2>2. CASE command[d].name # n
      <3>1. Pending(command[d]) /\ Formed(command[d]) /\ command'[d] = command[d]
        BY DEF PairsInv, Fits, Moves
      <3>2. QED
        BY <1>1, <2>2, <3>1 DEF Pending, Formed
    <2>3. QED
      BY <2>1, <2>2
  <1>5. \A d \in Commands \ {c} :
            /\ command[d].op = "rename" /\ Concerns(d) \cap {n} # {} =>
                   Concerns(d) \cap raced' # {}
            /\ Pending(command[d])'
    BY <1>4
  <1>6. {n} \in SUBSET Names
    OBVIOUS
  <1>7. \A m \in {n} : /\ auth'[m].there <=> auth'[m].login # None
                       /\ browser'[m].there <=> browser'[m].account # None
                       /\ MixedAt(m)'
    BY <1>1, <1>3
  <1>8. QED
    BY <1>1, <1>2, <1>5, <1>6, <1>7, Works

\* A login opens the browser: another account than the login's, or than what another
\* command is about to save, was signed in by the user.
LEMMA BrowseStep ==
    ASSUME PairsInv, Ghosts, NEW c \in Commands, Browse(c)
    PROVE  PairsInv'
  <1> DEFINE k == command[c]
  <1>1. k \in Command /\ k.op = "login" /\ k.at = "browse" /\ k.name \in Names
    BY DEF PairsInv, TypeOK, Fits, Formed, Browse, At
  <1>2. PICK n \in Names : n = k.name
    BY <1>1
  <1>3. PICK a \in Accounts, email \in Accounts \cup {None} :
            /\ browser' = [browser EXCEPT ![n] =
                 [there |-> TRUE, account |-> a,
                  switched |-> auth[n].login \notin {None, a} \/ Differs(c, n, a)]]
            /\ Goes(c, [k EXCEPT !.at = "save", !.who = a, !.email = email])
    BY <1>2 DEF Browse
  <1>4. Enters(c, {n}) /\ Counts /\ UNCHANGED <<auth, default, buried, astray>>
    BY <1>2 DEF Browse
  <1> DEFINE switched == auth[n].login \notin {None, a} \/ Differs(c, n, a)
             B == [there |-> TRUE, account |-> a, switched |-> switched]
             r == [k EXCEPT !.at = "save", !.who = a, !.email = email]
  <1>5. /\ r \in Command /\ r.op = "login" /\ r.at = "save" /\ r.name = n /\ r.who = a
    BY <1>1, <1>2 DEF Command
  <1>6. Goes(c, r) /\ browser' = [browser EXCEPT ![n] = B]
    BY <1>3
  <1> HIDE DEF r
  <1>7. Moves(c) /\ command'[c] = r
    BY <1>5, <1>6, Effect
  <1>8. switched \in BOOLEAN
    OBVIOUS
  <1>9. /\ auth[n].login \in {None, a} \/ switched
        /\ Differs(c, n, a) => switched
    OBVIOUS
  <1> HIDE DEF switched
  <1>10. B \in Browser /\ B.there /\ B.account = a /\ B.switched = switched
    BY <1>8 DEF Browser
  <1> HIDE DEF B
  <1>11. browser'[n] = B
    BY <1>6 DEF PairsInv, TypeOK
  <1>12. Counted'
    BY <1>4, CountedNow DEF Counts, Counted
  <1>13. Fits(c)'
    BY <1>5, <1>7, <1>10, <1>11 DEF Fits, Formed, Pending, Halfway
  <1>14. {n} \in SUBSET Names
    OBVIOUS
  <1>15. /\ raced \subseteq raced' /\ raced' \subseteq Names
         /\ \A d \in Commands \ {c} :
                command[d].op = "rename" /\ n \in Concerns(d) => Concerns(d) \cap raced' # {}
    BY <1>4, <1>14, EntersRaced
  <1>16. ASSUME NEW d \in Commands \ {c}, command[d].name = n PROVE Pending(command[d])'
    <2>1. command'[d] = command[d]
      BY <1>7 DEF Moves
    <2>2. CASE command[d].op \in {"login", "refresh"} /\ command[d].at = "save"
                /\ command[d].who # a
      <3>1. Differs(c, n, a)
        BY <1>16, <2>2 DEF Differs
      <3>2. QED
        BY <1>9, <1>10, <1>11, <1>16, <2>1, <3>1 DEF Pending
    <2>3. CASE ~(command[d].op \in {"login", "refresh"} /\ command[d].at = "save"
                /\ command[d].who # a)
      BY <1>10, <1>11, <1>16, <2>1, <2>3 DEF Pending
    <2>4. QED
      BY <2>2, <2>3
  <1>17. /\ auth[n] \in Auth /\ auth' = [auth EXCEPT ![n] = auth[n]]
         /\ (auth[n].there <=> auth[n].login # None)
    BY <1>4 DEF PairsInv, TypeOK, Present
  <1>18. None # a
    BY NoneAssumption
  <1>19. \/ auth[n].login = None \/ auth[n].login = B.account \/ B.switched
    BY <1>9, <1>10
  <1>20. QED
    BY <1>4, <1>6, <1>7, <1>10, <1>12, <1>13, <1>15, <1>16, <1>17, <1>18, <1>19, AtOne

\* A command that writes a login, and ends.
LEMMA SavesStep ==
    ASSUME PairsInv, Ghosts, NEW c \in Commands, NEW n \in Names, NEW A \in Auth, NEW B \in Browser,
           command[c].name = n,
           auth' = [auth EXCEPT ![n] = A], browser' = [browser EXCEPT ![n] = B],
           A.there, A.login # None, B.there = browser[n].there,
           B.account = browser[n].account,
           B.switched # browser[n].switched => ~B.switched /\ ~Differs(c, n, B.account),
           \/ B.account = None \/ A.login = B.account \/ B.switched
           \/ n \in raced' \cup behind',
           Ends(c), Counts, UNCHANGED <<default, buried, astray>>,
           raced \subseteq raced', raced' \subseteq Names,
           \A d \in Commands \ {c} :
              command[d].op = "rename" /\ n \in Concerns(d) => Concerns(d) \cap raced' # {}
    PROVE  PairsInv'
  <1>1. Moves(c) /\ command'[c] = Idle
    BY IdleFits, Effect DEF Ends
  <1>2. Fits(c)'
    BY <1>1 DEF Fits, Idle, Formed, Pending, Halfway
  <1>3. Counted'
    BY CountedNow DEF Counts, Counted
  <1>4. browser'[n] = B
    BY DEF PairsInv, TypeOK
  <1>5. ASSUME NEW d \in Commands \ {c}, command[d].name = n PROVE Pending(command[d])'
    <2>1. command'[d] = command[d] /\ Pending(command[d])
      BY <1>1 DEF Moves, PairsInv, Fits
    <2>2. CASE B.switched = browser[n].switched
      BY <1>4, <1>5, <2>1, <2>2 DEF Pending
    <2>3. CASE ~Differs(c, n, B.account)
      <3>1. command[d].op \in {"login", "refresh"} /\ command[d].at = "save" =>
                command[d].who = B.account
        BY <1>5, <2>3 DEF Differs
      <3>2. QED
        BY <1>4, <1>5, <2>1, <3>1 DEF Pending
    <2>4. QED
      BY <2>2, <2>3
  <1>6. B.there <=> B.account # None
    BY DEF PairsInv, Present
  <1>7. QED
    BY <1>1, <1>2, <1>3, <1>5, <1>6, AtOne

\* A login saves the account of the browser.
LEMMA SaveLoginStep ==
    ASSUME PairsInv, Ghosts, NEW c \in Commands, SaveLogin(c)
    PROVE  PairsInv'
  <1> DEFINE k == command[c]
             n == k.name
             A == [there |-> TRUE, login |-> k.who, email |-> k.email,
                   protected |-> auth[n].protected \/ k.protect]
             still == /\ browser[n].switched
                      /\ browser[n].account # k.who \/ Differs(c, n, k.who)
             B == [browser[n] EXCEPT !.switched = still]
  <1>1. k \in Command /\ Formed(k) /\ Pending(k) /\ k.op = "login" /\ k.at = "save"
    BY DEF PairsInv, TypeOK, Fits, SaveLogin, At
  <1>2. n \in Names /\ k.who \in Accounts /\ k.who # None
    BY <1>1, NoneAssumption DEF Formed
  <1>3. auth[n] \in Auth /\ browser[n] \in Browser
    BY <1>2 DEF PairsInv, TypeOK
  <1>4. A \in Auth /\ A.there /\ A.login = k.who
    BY <1>1, <1>2, <1>3 DEF Auth, Command
  <1>5. /\ auth' = [auth EXCEPT ![n] = A]
        /\ browser' = [browser EXCEPT ![n].switched = still]
        /\ Enters(c, {n}) /\ Ends(c) /\ Counts /\ UNCHANGED <<default, buried, astray>>
    BY DEF SaveLogin
  <1>6. still \in BOOLEAN
    BY <1>3 DEF Browser
  <1>7. browser' = [browser EXCEPT ![n] = B]
    BY <1>5
  <1>8. still # browser[n].switched =>
            ~still /\ browser[n].account = k.who /\ ~Differs(c, n, k.who)
    BY <1>3 DEF Browser
  <1>9. still \/ ~browser[n].switched \/ browser[n].account = k.who
    OBVIOUS
  <1> HIDE DEF still
  <1>10. B \in Browser /\ B.there = browser[n].there /\ B.account = browser[n].account
         /\ B.switched = still
    BY <1>3, <1>6 DEF Browser
  <1> HIDE DEF A, B
  <1>11. /\ raced \subseteq raced' /\ raced' \subseteq Names
         /\ \A d \in Commands \ {c} :
                command[d].op = "rename" /\ n \in Concerns(d) => Concerns(d) \cap raced' # {}
    <2>1. {n} \in SUBSET Names
      BY <1>2
    <2>2. QED
      BY <1>5, <2>1, EntersRaced
  <1>12. B.account = None \/ A.login = B.account \/ B.switched \/ n \in raced'
    BY <1>1, <1>4, <1>9, <1>10, <1>11 DEF Pending
  <1>13. B.switched # browser[n].switched => ~B.switched /\ ~Differs(c, n, B.account)
    BY <1>8, <1>10
  <1> HIDE DEF n
  <1>14. command[c].name = n
    BY DEF n
  <1>15. QED
    BY <1>2, <1>4, <1>5, <1>7, <1>10, <1>11, <1>12, <1>13, <1>14, SavesStep

\* The browser directory stays as it is.
LEMMA SameBrowser ==
    ASSUME PairsInv, NEW n \in Names, UNCHANGED browser
    PROVE  browser[n] \in Browser /\ browser' = [browser EXCEPT ![n] = browser[n]]
  BY DEF PairsInv, TypeOK

\* A refresh saves what it has read.
LEMMA SaveRefreshStep ==
    ASSUME PairsInv, Ghosts, NEW c \in Commands, SaveRefresh(c)
    PROVE  PairsInv'
  <1> DEFINE k == command[c]
             n == k.name
             A == [auth[n] EXCEPT !.there = TRUE, !.login = k.who]
  <1>1. k \in Command /\ Formed(k) /\ Pending(k) /\ k.op = "refresh" /\ k.at = "save"
    BY DEF PairsInv, TypeOK, Fits, SaveRefresh, At
  <1>2. n \in Names /\ k.who \in Accounts /\ k.who # None
    BY <1>1, NoneAssumption DEF Formed
  <1>3. auth[n] \in Auth
    BY <1>2 DEF PairsInv, TypeOK
  <1>4. A \in Auth /\ A.there /\ A.login = k.who
    BY <1>2, <1>3 DEF Auth
  <1>5. /\ auth' = [auth EXCEPT ![n] = A]
        /\ Enters(c, {n}) /\ Ends(c) /\ Counts /\ UNCHANGED <<browser, default, buried, astray>>
    BY DEF SaveRefresh
  <1> HIDE DEF A
  <1>6. /\ raced \subseteq raced' /\ raced' \subseteq Names
        /\ \A d \in Commands \ {c} :
               command[d].op = "rename" /\ n \in Concerns(d) => Concerns(d) \cap raced' # {}
    <2>1. {n} \in SUBSET Names
      BY <1>2
    <2>2. QED
      BY <1>5, <2>1, EntersRaced
  <1> DEFINE B == browser[n]
  <1>7. B.account = None \/ A.login = B.account \/ B.switched \/ n \in raced'
    BY <1>1, <1>4, <1>6 DEF Pending
  <1>8. B \in Browser /\ browser' = [browser EXCEPT ![n] = B]
    BY <1>2, <1>5, SameBrowser
  <1>9. command[c].name = n
    OBVIOUS
  <1> HIDE DEF n
  <1>10. B.there = browser[n].there /\ B.account = browser[n].account
         /\ B.switched = browser[n].switched
    OBVIOUS
  <1> HIDE DEF B
  <1>11. QED
    BY <1>2, <1>4, <1>5, <1>6, <1>7, <1>8, <1>9, <1>10, SavesStep

\* A check and an HTTP refresh save what they have loaded: unless nothing told of it, that
\* is the login that is there.
LEMMA SavesBackStep ==
    ASSUME PairsInv, Ghosts, NEW c \in Commands, NEW email \in Accounts \cup {None}, NEW known,
           command[c].op \in {"check", "http"}, command[c].at = "save",
           SavesBack(c, email), Overwrites(c, known),
           known => auth[command[c].name].login = command[c].who
    PROVE  PairsInv'
  <1> DEFINE k == command[c]
             n == k.name
             who == k.who
             A == [auth[n] EXCEPT !.there = TRUE, !.login = who, !.email = email]
  <1>1. k \in Command /\ Formed(k)
    BY DEF PairsInv, TypeOK, Fits
  <1>2. n \in Names /\ who \in Accounts /\ who # None
    BY <1>1, NoneAssumption DEF Formed
  <1>3. auth[n] \in Auth
    BY <1>2 DEF PairsInv, TypeOK
  <1>4. A \in Auth /\ A.there /\ A.login = who
    BY <1>2, <1>3 DEF Auth
  <1>5. auth' = [auth EXCEPT ![n] = A]
    BY <1>3 DEF SavesBack, PairsInv, TypeOK, Auth
  <1>6. Ends(c) /\ Counts /\ UNCHANGED <<browser, default, buried, astray>>
    BY DEF SavesBack
  <1> HIDE DEF A
  <1>7. /\ raced \subseteq raced' /\ raced' \subseteq Names
        /\ auth[n].login = who \/ n \in raced'
        /\ \A d \in Commands \ {c} :
               command[d].op = "rename" /\ n \in Concerns(d) => Concerns(d) \cap raced' # {}
    <2>1. CASE raced' = raced \cup {n}
      BY <1>2, <2>1 DEF PairsInv, TypeOK
    <2>2. CASE Enters(c, {n}) /\ auth[n].login = who
      <3>1. {n} \in SUBSET Names
        BY <1>2
      <3>2. QED
        BY <2>2, <3>1, EntersRaced
    <2>3. QED
      BY <2>1, <2>2 DEF Overwrites
  <1> DEFINE B == browser[n]
  <1>8. B.account = None \/ A.login = B.account \/ B.switched \/ n \in raced' \cup behind'
    BY <1>2, <1>4, <1>7 DEF PairsInv, MixedByRace, Agree, Ghosts
  <1>9. B \in Browser /\ browser' = [browser EXCEPT ![n] = B]
    BY <1>2, <1>6, SameBrowser
  <1>10. command[c].name = n
    OBVIOUS
  <1> HIDE DEF n, who
  <1>11. B.there = browser[n].there /\ B.account = browser[n].account
         /\ B.switched = browser[n].switched
    OBVIOUS
  <1> HIDE DEF B
  <1>12. QED
    BY <1>2, <1>4, <1>5, <1>6, <1>7, <1>8, <1>9, <1>10, <1>11, SavesStep

\* A check knows the login by its email, an HTTP refresh by its revision.
LEMMA SavesBackSteps ==
    ASSUME PairsInv, Ghosts, NEW c \in Commands, CheckSaves(c) \/ HttpSaves(c)
    PROVE  PairsInv'
  <1> DEFINE k == command[c]
             there == auth[k.name]
  <1>1. k \in Command /\ Formed(k) /\ k.op \in {"check", "http"} /\ k.at = "save"
    BY DEF PairsInv, TypeOK, Fits, CheckSaves, HttpSaves, At
  <1>2. k.name \in Names /\ k.who \in Accounts /\ k.email \in Accounts \cup {None}
    BY <1>1 DEF Formed, Command
  <1>3. there \in Auth /\ there.email \in Accounts \cup {None}
    BY <1>2 DEF PairsInv, TypeOK, Auth
  <1>4. CASE CheckSaves(c)
    <2> DEFINE known == k.email = k.who /\ there.login # None /\ there.email = there.login
    <2>1. PICK email \in {k.email, IF k.email = None THEN there.email ELSE k.email} :
              SavesBack(c, email)
      BY <1>4 DEF CheckSaves
    <2>2. Overwrites(c, known) /\ ~OtherAccount(k.name, k.email)
      BY <1>4 DEF CheckSaves
    <2>3. known => there.login = k.who
      BY <1>2, <2>2, NoneAssumption DEF OtherAccount
    <2>4. email \in Accounts \cup {None}
      BY <1>2, <1>3, <2>1
    <2> HIDE DEF known
    <2>5. QED
      BY <1>1, <2>1, <2>2, <2>3, <2>4, SavesBackStep
  <1>5. CASE HttpSaves(c)
    BY <1>1, <1>3, <1>5, SavesBackStep DEF HttpSaves
  <1>6. QED
    BY <1>4, <1>5

\* A login that is taken away, or was not there.
LEMMA TakesAway ==
    ASSUME PairsInv, Ghosts, NEW c \in Commands, NEW n \in Names,
           auth' = [auth EXCEPT ![n] = NoAuth] \/ auth' = auth, Ends(c), Counted',
           UNCHANGED <<browser, buried, raced>>
    PROVE  PairsInv'
  <1>1. Moves(c) /\ command'[c] = Idle
    BY IdleFits, Effect DEF Ends
  <1>2. Fits(c)'
    BY <1>1 DEF Fits, Idle, Formed, Pending, Halfway
  <1>3. NoAuth \in Auth /\ ~NoAuth.there /\ NoAuth.login = None
    BY DEF NoAuth, Auth
  <1>4. /\ auth' \in [Names -> Auth]
        /\ \A m \in Names : auth'[m] = auth[m] \/ (~auth'[m].there /\ auth'[m].login = None)
    BY <1>3 DEF PairsInv, TypeOK
  <1>5. TypeOK' /\ (snap \/ behind = {})'
    BY <1>1, <1>4 DEF PairsInv, TypeOK, Moves, Counted, Ghosts
  <1>6. Present'
    BY <1>4 DEF PairsInv, Present
  <1>7. MixedByRace' /\ BuriedByRace'
    BY <1>4 DEF PairsInv, MixedByRace, Agree, BuriedByRace, Ghosts
  <1>8. ASSUME NEW d \in Commands \ {c} PROVE Fits(d)'
    <2> DEFINE r == command[d]
    <2>1. command'[d] = r /\ Formed(r) /\ Pending(r) /\ Halfway(r)
      BY <1>1 DEF Moves, PairsInv, Fits
    <2>2. Pending(command[d])'
      BY <2>1 DEF Pending
    <2>3. Halfway(command[d])'
      BY <1>4, <2>1 DEF Halfway, Follows, LeavesBehind, Joined, Formed, Ghosts
    <2>4. QED
      BY <2>1, <2>2, <2>3 DEF Fits
  <1>9. QED
    BY <1>2, <1>5, <1>6, <1>7, <1>8 DEF PairsInv

\* A deletion, and a failed save that discards its mark.
LEMMA TakesAwaySteps ==
    ASSUME PairsInv, Ghosts, NEW c \in Commands, SaveFails(c) \/ Delete(c)
    PROVE  PairsInv'
  <1>1. PICK n \in Names : n = command[c].name
    BY DEF PairsInv, Fits, Formed, SaveFails, Delete, At
  <1>2. Ends(c) /\ UNCHANGED <<browser, buried, raced>>
    BY DEF SaveFails, Delete, Counts
  <1>3. auth' = [auth EXCEPT ![n] = NoAuth] \/ auth' = auth
    <2>1. auth = [auth EXCEPT ![n] = auth[n]]
      BY DEF PairsInv, TypeOK
    <2>2. QED
      BY <1>1, <2>1 DEF SaveFails, Delete, Discarded
  <1>4. Counted'
    <2>1. /\ calls' = calls /\ crashes' = crashes /\ default' = default
          /\ failures' = failures \/ (failures < MaxFailures /\ failures' = failures + 1)
          /\ astray' = astray \/ astray' = (astray \/ default = n)
      BY <1>1 DEF SaveFails, Delete, Counts
    <2>2. astray' \in BOOLEAN
      BY <2>1, CountedNow DEF Counted
    <2>3. QED
      BY <2>1, <2>2, CountedNow, Bounds DEF Counted
  <1>5. QED
    BY <1>2, <1>3, <1>4, TakesAway

-----------------------------------------------------------------------------
\* Renames.

\* An empty place.
LEMMA Nothing == /\ NoAuth \in Auth /\ ~NoAuth.there /\ NoAuth.login = None
                 /\ NoBrowser \in Browser /\ ~NoBrowser.there /\ NoBrowser.account = None
  BY DEF NoAuth, NoBrowser, Auth, Browser

\* What _move_dir leaves of two logins.
LEMMA AuthMoved ==
    ASSUME PairsInv, NEW n \in Names, NEW m \in Names \ {n}
    PROVE  LET moved == Moved(auth, n, m, NoAuth)
           IN  /\ moved \in [Names -> Auth] /\ moved[n] = NoAuth
               /\ moved[m] = IF auth[m].there THEN auth[m] ELSE auth[n]
               /\ \A x \in Names \ {n, m} : moved[x] = auth[x]
  BY Nothing DEF Moved, PairsInv, TypeOK

\* What it leaves of two browsers.
LEMMA BrowserMoved ==
    ASSUME PairsInv, NEW n \in Names, NEW m \in Names \ {n}
    PROVE  LET moved == Moved(browser, n, m, NoBrowser)
           IN  /\ moved \in [Names -> Browser] /\ moved[n] = NoBrowser
               /\ moved[m] = IF browser[m].there THEN browser[m] ELSE browser[n]
               /\ \A x \in Names \ {n, m} : moved[x] = browser[x]
  BY Nothing DEF Moved, PairsInv, TypeOK

\* A rename that moves a directory.
LEMMA RenameMoves ==
    ASSUME PairsInv, Ghosts, NEW c \in Commands, NEW n \in Names, NEW m \in Names,
           command[c].op = "rename", Enters(c, {n, m}), Moves(c), Fits(c)', Counted',
           auth' \in [Names -> Auth], browser' \in [Names -> Browser],
           buried' \subseteq {"browser", "auth"} \X Names \X Names,
           \A x \in Names \ {n, m} : auth'[x] = auth[x] /\ browser'[x] = browser[x],
           \A x \in {n, m} :
               /\ auth'[x].there <=> auth'[x].login # None
               /\ browser'[x].there <=> browser'[x].account # None
               /\ MixedAt(x)',
           BuriedByRace'
    PROVE  PairsInv'
  <1>1. {n, m} \in SUBSET Names
    OBVIOUS
  <1>2. /\ raced \subseteq raced' /\ raced' \subseteq Names
        /\ \A d \in Commands \ {c} :
             command[d].op = "rename" /\ Concerns(d) \cap {n, m} # {} =>
                 Concerns(d) \cap raced' # {}
    BY <1>1, EntersRaced
  <1>3. ASSUME NEW d \in Commands \ {c} PROVE Pending(command[d])'
    <2> DEFINE r == command[d]
    <2>1. command'[d] = r /\ Formed(r) /\ Pending(r)
      BY DEF Moves, PairsInv, Fits
    <2>2. CASE r.op \in {"login", "refresh"} /\ r.at = "save" /\ r.name \in {n, m}
      <3>1. Concerns(d) = {r.name}
        BY <2>2 DEF Concerns
      <3>2. Concerns(d) \subseteq raced'
        BY <2>2, <3>1, Told
      <3>3. QED
        BY <2>1, <3>1, <3>2 DEF Pending
    <2>3. CASE ~(r.op \in {"login", "refresh"} /\ r.at = "save" /\ r.name \in {n, m})
      BY <1>2, <2>1, <2>3 DEF Pending, Formed
    <2>4. QED
      BY <2>2, <2>3
  <1>4. QED
    BY <1>1, <1>2, <1>3, Works

\* What a rename that is about to move something knows.
LEMMA RenameKnows ==
    ASSUME PairsInv, NEW c \in Commands, command[c].op = "rename"
    PROVE  /\ command[c] \in Command /\ Formed(command[c]) /\ Halfway(command[c])
           /\ command[c].name \in Names /\ command[c].to \in Names
           /\ command[c].name # command[c].to
           /\ auth \in [Names -> Auth] /\ browser \in [Names -> Browser]
           /\ buried \subseteq {"browser", "auth"} \X Names \X Names
  BY DEF PairsInv, TypeOK, Fits, Formed

\* A directory that is buried is buried under a name that is raced.
LEMMA Buries ==
    ASSUME PairsInv, NEW n \in Names, NEW m \in Names, NEW kind \in {"browser", "auth"},
           buried' = buried \/ (buried' = buried \cup {<<kind, n, m>>} /\ m \in raced'),
           raced \subseteq raced'
    PROVE  BuriedByRace' /\ buried' \subseteq {"browser", "auth"} \X Names \X Names
  <1>1. \A b \in buried : b[3] \in raced'
    BY DEF PairsInv, BuriedByRace
  <1>2. BuriedByRace'
    BY <1>1 DEF BuriedByRace
  <1>3. <<kind, n, m>> \in {"browser", "auth"} \X Names \X Names
    OBVIOUS
  <1>4. QED
    BY <1>2, <1>3 DEF PairsInv, TypeOK

\* The browser moves first: the login of the old name still fits it.
LEMMA MoveBrowserStep ==
    ASSUME PairsInv, Ghosts, NEW c \in Commands, MoveBrowser(c)
    PROVE  PairsInv'
  <1> DEFINE k == command[c]
             r == [k EXCEPT !.at = "auth", !.moved = {"browser"}]
  <1>1. k.op = "rename" /\ k.at = "browser"
    BY DEF MoveBrowser, At
  <1>2. PICK n \in Names, m \in Names : n = k.name /\ m = k.to /\ n # m
    BY <1>1, RenameKnows
  <1>3. /\ browser' = Moved(browser, n, m, NoBrowser) /\ Enters(c, {n, m}) /\ Goes(c, r)
        /\ buried' = IF browser[m].there THEN buried \cup {<<"browser", n, m>>} ELSE buried
        /\ Counts /\ UNCHANGED <<auth, default, astray>>
    BY <1>2 DEF MoveBrowser
  <1>4. k \in Command /\ Formed(k) /\ Halfway(k)
    BY <1>1, RenameKnows
  <1>5. /\ r \in Command /\ r.op = "rename" /\ r.at = "auth" /\ r.name = n /\ r.to = m
        /\ r.config = k.config /\ r.moved = {"browser"}
    BY <1>1, <1>2, <1>4 DEF Command
  <1> HIDE DEF r
  <1>6. Moves(c) /\ command'[c] = r
    BY <1>3, <1>5, Effect
  <1>7. /\ browser' \in [Names -> Browser] /\ browser'[n] = NoBrowser
        /\ browser'[m] = IF browser[m].there THEN browser[m] ELSE browser[n]
        /\ \A x \in Names \ {n, m} : browser'[x] = browser[x]
    BY <1>2, <1>3, BrowserMoved
  <1>8. /\ raced \subseteq raced'
        /\ n \in raced \/ m \in raced => n \in raced' /\ m \in raced'
    BY <1>3, RacedGrows
  <1>9. \/ n \in raced' /\ m \in raced'
        \/ /\ ~auth[m].there /\ ~browser[m].there /\ ~snap
           /\ Agree(n) \/ browser[n].switched
    BY <1>1, <1>2, <1>4, <1>8 DEF Halfway, Follows, LeavesBehind, PairsInv, MixedByRace
  <1>10. \A x \in {n, m} :
             /\ auth'[x].there <=> auth'[x].login # None
             /\ browser'[x].there <=> browser'[x].account # None
             /\ MixedAt(x)'
    BY <1>3, <1>7, <1>9, Nothing DEF PairsInv, Present, MixedAt, Agree
  <1>11. Fits(c)'
    <2>1. Formed(r)
      BY <1>1, <1>2, <1>4, <1>5 DEF Formed
    <2>2. Halfway(command[c])'
      BY <1>3, <1>5, <1>6, <1>7, <1>9, Nothing DEF Halfway, Follows, Joined, Agree, Ghosts
    <2>3. QED
      BY <1>5, <1>6, <2>1, <2>2 DEF Fits, Pending
  <1>12. BuriedByRace' /\ buried' \subseteq {"browser", "auth"} \X Names \X Names
    BY <1>3, <1>8, <1>9, Buries
  <1>13. Counted' /\ auth' \in [Names -> Auth]
    BY <1>1, <1>3, CountedNow, RenameKnows DEF Counts, Counted
  <1>14. \A x \in Names \ {n, m} : auth'[x] = auth[x] /\ browser'[x] = browser[x]
    BY <1>3, <1>7
  <1>15. QED
    BY <1>1, <1>3, <1>6, <1>7, <1>10, <1>11, <1>12, <1>13, <1>14, RenameMoves

\* The login moves after the browser, to where it fits.
LEMMA MoveAuthStep ==
    ASSUME PairsInv, Ghosts, NEW c \in Commands, MoveAuth(c)
    PROVE  PairsInv'
  <1> DEFINE k == command[c]
             on == [k EXCEPT !.at = "config", !.moved = @ \cup {"auth"}]
             r == IF k.config = k.name THEN on ELSE Idle
  <1>1. k.op = "rename" /\ k.at = "auth"
    BY DEF MoveAuth, At
  <1>2. PICK n \in Names, m \in Names : n = k.name /\ m = k.to /\ n # m
    BY <1>1, RenameKnows
  <1>3. /\ auth' = Moved(auth, n, m, NoAuth) /\ Enters(c, {n, m})
        /\ buried' = IF auth[m].there THEN buried \cup {<<"auth", n, m>>} ELSE buried
        /\ Counts /\ UNCHANGED <<browser, default>>
        /\ astray' = (astray \/ (default = k.name /\ k.config # k.name))
        /\ behind' = IF snap /\ browser[m].there THEN behind \cup {m} ELSE behind
    BY <1>2 DEF MoveAuth
  <1>4. Goes(c, r)
    BY DEF MoveAuth, Ends
  <1>5. k \in Command /\ Formed(k) /\ Halfway(k)
    BY <1>1, RenameKnows
  <1>6. /\ on \in Command /\ on.op = "rename" /\ on.at = "config" /\ on.name = n /\ on.to = m
        /\ on.config = k.config /\ on.moved = k.moved \cup {"auth"}
    BY <1>1, <1>2, <1>5 DEF Command
  <1> HIDE DEF on
  <1>7. r \in Command /\ (r = on \/ r = Idle)
    BY <1>6, IdleFits
  <1> HIDE DEF r
  <1>8. Moves(c) /\ command'[c] = r
    BY <1>4, <1>7, Effect
  <1>9. /\ auth' \in [Names -> Auth] /\ auth'[n] = NoAuth
        /\ auth'[m] = IF auth[m].there THEN auth[m] ELSE auth[n]
        /\ \A x \in Names \ {n, m} : auth'[x] = auth[x]
    BY <1>2, <1>3, AuthMoved
  <1>10. /\ raced \subseteq raced'
         /\ n \in raced \/ m \in raced => n \in raced' /\ m \in raced'
    BY <1>3, RacedGrows
  <1>11. \/ n \in raced' /\ m \in raced'
         \/ ~snap /\ ~auth[m].there /\ ~browser[n].there /\ Joined(n, m)
         \/ /\ snap /\ ~auth[m].there /\ "browser" \notin k.moved
            /\ Agree(n) \/ browser[n].switched \/ n \in behind
    BY <1>1, <1>2, <1>5, <1>10 DEF Halfway, Follows, LeavesBehind, PairsInv, MixedByRace
  <1>12. \A x \in {n, m} :
             /\ auth'[x].there <=> auth'[x].login # None
             /\ browser'[x].there <=> browser'[x].account # None
             /\ MixedAt(x)'
    BY <1>3, <1>9, <1>11, Nothing DEF PairsInv, Present, MixedAt, Agree, Joined
  <1>13. Fits(c)'
    <2>1. Formed(on)
      BY <1>1, <1>2, <1>5, <1>6 DEF Formed
    <2>2. CASE r = on
      <3>1. Halfway(command[c])'
        <4>1. /\ command'[c].op = "rename" /\ command'[c].at = "config"
              /\ command'[c].name = n /\ command'[c].to = m
              /\ command'[c].moved = k.moved \cup {"auth"} /\ snap' = snap
          BY <1>6, <1>8, <2>2 DEF Ghosts
        <4>2. CASE n \in raced'
          BY <4>1, <4>2 DEF Halfway
        <4>3. CASE ~snap /\ ~auth[m].there /\ ~browser[n].there /\ Joined(n, m)
          BY <1>3, <1>9, <4>1, <4>3, Nothing DEF Halfway, Follows, Joined
        <4>4. CASE /\ snap /\ ~auth[m].there /\ "browser" \notin k.moved
                   /\ Agree(n) \/ browser[n].switched \/ n \in behind
          BY <1>3, <1>9, <4>1, <4>4 DEF Halfway, LeavesBehind, Joined, Agree, Ghosts
        <4>5. QED
          BY <1>11, <4>2, <4>3, <4>4
      <3>2. QED
        BY <1>6, <1>8, <2>1, <2>2, <3>1 DEF Fits, Pending
    <2>3. CASE r = Idle
      BY <1>8, <2>3 DEF Fits, Idle, Formed, Pending, Halfway
    <2>4. QED
      BY <1>7, <2>2, <2>3
  <1>14. BuriedByRace' /\ buried' \subseteq {"browser", "auth"} \X Names \X Names
    BY <1>3, <1>10, <1>11, Buries
  <1>15. Counted'
    BY <1>3, CountedNow DEF Counts, Counted
  <1>16. browser' \in [Names -> Browser]
         /\ \A x \in Names \ {n, m} : auth'[x] = auth[x] /\ browser'[x] = browser[x]
    BY <1>1, <1>3, <1>9, RenameKnows
  <1>17. QED
    BY <1>1, <1>3, <1>8, <1>9, <1>12, <1>13, <1>14, <1>15, <1>16, RenameMoves

\* The login is moved back to where the browser was.
LEMMA UndoAuthStep ==
    ASSUME PairsInv, Ghosts, NEW c \in Commands, UndoAuth(c)
    PROVE  PairsInv'
  <1> DEFINE k == command[c]
             r == [k EXCEPT !.at = "undo browser"]
  <1>1. k.op = "rename" /\ k.at = "undo auth" /\ Goes(c, r)
        /\ UNCHANGED <<browser, default, calls, crashes, buried>>
    BY DEF UndoAuth, At, To
  <1>2. PICK n \in Names, m \in Names : n = k.name /\ m = k.to /\ n # m
    BY <1>1, RenameKnows
  <1>3. k \in Command /\ Formed(k) /\ Halfway(k)
    BY <1>1, RenameKnows
  <1>4. /\ r \in Command /\ r.op = "rename" /\ r.at = "undo browser" /\ r.name = n /\ r.to = m
        /\ r.config = k.config /\ r.moved = k.moved
    BY <1>1, <1>2, <1>3 DEF Command
  <1>5. Counted'
    <2>1. astray' = astray \/ astray' = TRUE
      BY DEF UndoAuth
    <2>2. failures' = failures \/ (failures < MaxFailures /\ failures' = failures + 1)
      BY DEF UndoAuth
    <2>3. astray' \in BOOLEAN
      BY <2>1, CountedNow DEF Counted
    <2>4. failures' \in 0 .. MaxFailures
      BY <2>2, CountedNow, Bounds DEF Counted
    <2>5. calls' = calls /\ crashes' = crashes /\ default' = default
      BY <1>1
    <2>6. QED
      BY <2>3, <2>4, <2>5, CountedNow DEF Counted
  <1> HIDE DEF r
  <1>6. Formed(r)
    BY <1>1, <1>2, <1>3, <1>4 DEF Formed
  <1>7. CASE UNCHANGED <<auth, raced>>
    <2>1. Halfway(r) /\ Pending(r)
      BY <1>1, <1>2, <1>3, <1>4 DEF Halfway, Follows, LeavesBehind, Pending
    <2>2. QED
      BY <1>1, <1>4, <1>5, <1>6, <1>7, <2>1, Stands
  <1>8. CASE /\ "auth" \in k.moved /\ ~auth[n].there
             /\ auth' = Moved(auth, m, n, NoAuth) /\ Enters(c, {n, m})
    <2>1. Moves(c) /\ command'[c] = r
      BY <1>1, <1>4, Effect
    <2>2. /\ auth' \in [Names -> Auth] /\ auth'[m] = NoAuth /\ auth'[n] = auth[m]
          /\ \A x \in Names \ {n, m} : auth'[x] = auth[x]
      BY <1>2, <1>8, AuthMoved
    <2>3. /\ raced \subseteq raced'
          /\ n \in raced \/ m \in raced => n \in raced' /\ m \in raced'
      BY <1>8, RacedGrows
    <2>4. \/ n \in raced' /\ m \in raced'
          \/ ~snap /\ ~browser[n].there /\ (Agree(m) \/ browser[m].switched)
          \/ snap /\ "browser" \notin k.moved /\ (Joined(m, n) \/ n \in behind)
      BY <1>1, <1>2, <1>3, <1>8, <2>3
         DEF Halfway, Follows, LeavesBehind, PairsInv, MixedByRace
    <2>5. \A x \in {n, m} :
              /\ auth'[x].there <=> auth'[x].login # None
              /\ browser'[x].there <=> browser'[x].account # None
              /\ MixedAt(x)'
      BY <1>1, <2>2, <2>4, Nothing DEF PairsInv, Present, MixedAt, Agree, Joined, Ghosts
    <2>6. Fits(c)'
      <3>1. Halfway(command[c])'
        BY <1>1, <1>4, <2>1, <2>2, <2>4 DEF Halfway, Follows, LeavesBehind, Joined, Agree, Ghosts
      <3>2. QED
        BY <1>4, <1>6, <2>1, <3>1 DEF Fits, Pending
    <2>7. BuriedByRace' /\ buried' \subseteq {"browser", "auth"} \X Names \X Names
      BY <1>1, <2>3, Buries
    <2>8. browser' \in [Names -> Browser]
          /\ \A x \in Names \ {n, m} : auth'[x] = auth[x] /\ browser'[x] = browser[x]
      BY <1>1, <2>2, RenameKnows
    <2>9. QED
      BY <1>1, <1>5, <1>8, <2>1, <2>2, <2>5, <2>6, <2>7, <2>8, RenameMoves
  <1>9. QED
    BY <1>2, <1>7, <1>8 DEF UndoAuth

\* The browser is moved back to where the login is.
LEMMA UndoBrowserStep ==
    ASSUME PairsInv, Ghosts, NEW c \in Commands, UndoBrowser(c)
    PROVE  PairsInv'
  <1> DEFINE k == command[c]
  <1>1. k.op = "rename" /\ k.at = "undo browser" /\ Goes(c, Idle)
        /\ UNCHANGED <<auth, default, calls, crashes, buried, astray>>
    BY DEF UndoBrowser, At, Ends
  <1>2. PICK n \in Names, m \in Names : n = k.name /\ m = k.to /\ n # m
    BY <1>1, RenameKnows
  <1>3. k \in Command /\ Formed(k) /\ Halfway(k)
    BY <1>1, RenameKnows
  <1>4. Counted'
    <2>1. failures' = failures \/ (failures < MaxFailures /\ failures' = failures + 1)
      BY DEF UndoBrowser
    <2>2. failures' \in 0 .. MaxFailures
      BY <2>1, CountedNow, Bounds DEF Counted
    <2>3. calls' = calls /\ crashes' = crashes /\ default' = default /\ astray' = astray
      BY <1>1
    <2>4. QED
      BY <2>2, <2>3, CountedNow DEF Counted
  <1>5. CASE UNCHANGED <<browser, raced>>
    BY <1>1, <1>4, <1>5, IdleFits, Stands
  <1>6. CASE /\ "browser" \in k.moved /\ ~browser[n].there
             /\ browser' = Moved(browser, m, n, NoBrowser) /\ Enters(c, {n, m})
    <2>1. Moves(c) /\ command'[c] = Idle
      BY <1>1, IdleFits, Effect
    <2>2. /\ browser' \in [Names -> Browser] /\ browser'[m] = NoBrowser
          /\ browser'[n] = browser[m]
          /\ \A x \in Names \ {n, m} : browser'[x] = browser[x]
      BY <1>2, <1>6, BrowserMoved
    <2>3. /\ raced \subseteq raced'
          /\ n \in raced \/ m \in raced => n \in raced' /\ m \in raced'
      BY <1>6, RacedGrows
    <2>4. (n \in raced' /\ m \in raced') \/ Joined(n, m)
      BY <1>1, <1>2, <1>3, <1>6, <2>3 DEF Halfway, Follows, LeavesBehind
    <2>5. \A x \in {n, m} :
              /\ auth'[x].there <=> auth'[x].login # None
              /\ browser'[x].there <=> browser'[x].account # None
              /\ MixedAt(x)'
      BY <1>1, <2>2, <2>4, Nothing DEF PairsInv, Present, MixedAt, Agree, Joined
    <2>6. Fits(c)'
      BY <2>1 DEF Fits, Idle, Formed, Pending, Halfway
    <2>7. BuriedByRace' /\ buried' \subseteq {"browser", "auth"} \X Names \X Names
      BY <1>1, <2>3, Buries
    <2>8. auth' \in [Names -> Auth]
          /\ \A x \in Names \ {n, m} : auth'[x] = auth[x] /\ browser'[x] = browser[x]
      BY <1>1, <2>2, RenameKnows
    <2>9. QED
      BY <1>1, <1>4, <1>6, <2>1, <2>2, <2>5, <2>6, <2>7, <2>8, RenameMoves
  <1>7. QED
    BY <1>2, <1>5, <1>6 DEF UndoBrowser

-----------------------------------------------------------------------------
\* The invariant.

\* The initial state.
LEMMA Starts == Init => PairsInv
  <1> SUFFICES ASSUME Init PROVE PairsInv
    OBVIOUS
  <1>1. PICK logins \in [Names -> Accounts \cup {None}] :
            auth = [n \in Names |-> [NoAuth EXCEPT !.there = (logins[n] # None),
                                                   !.login = logins[n], !.email = logins[n]]]
    BY DEF Init
  <1>2. PICK accounts \in [Names -> Accounts \cup {None}] :
            browser = [n \in Names |-> [NoBrowser EXCEPT !.there = (accounts[n] # None),
                                                         !.account = accounts[n]]]
    BY DEF Init
  <1>3. ASSUME NEW n \in Names
        PROVE  auth[n] \in Auth /\ (auth[n].there <=> auth[n].login # None)
    BY <1>1 DEF NoAuth, Auth
  <1>4. ASSUME NEW n \in Names
        PROVE  browser[n] \in Browser /\ (browser[n].there <=> browser[n].account # None)
    BY <1>2 DEF NoBrowser, Browser
  <1>5. auth \in [Names -> Auth]
    <2>1. auth = [n \in Names |-> auth[n]]
      BY <1>1
    <2>2. QED
      BY <1>3, <2>1
  <1>6. browser \in [Names -> Browser]
    <2>1. browser = [n \in Names |-> browser[n]]
      BY <1>2
    <2>2. QED
      BY <1>4, <2>1
  <1>7. /\ command = [c \in Commands |-> Idle] /\ calls = 0 /\ failures = 0 /\ crashes = 0
        /\ buried = {} /\ raced = {} /\ astray = FALSE /\ default \in Names
        /\ snap \in BOOLEAN /\ behind = {}
        /\ \A n \in Names : Agree(n)
    BY DEF Init
  <1>8. TypeOK
    <2>1. command \in [Commands -> Command]
      BY <1>7, IdleFits
    <2>2. calls \in 0 .. MaxCalls /\ failures \in 0 .. MaxFailures /\ crashes \in 0 .. MaxCrashes
      BY <1>7, Bounds
    <2>3. /\ buried \subseteq {"browser", "auth"} \X Names \X Names /\ raced \subseteq Names
          /\ astray \in BOOLEAN /\ snap \in BOOLEAN /\ behind \subseteq Names
      BY <1>7
    <2>4. QED
      BY <1>5, <1>6, <1>7, <2>1, <2>2, <2>3 DEF TypeOK
  <1>9. ASSUME NEW c \in Commands PROVE Fits(c)
    BY <1>7, IdleFits DEF Fits
  <1>10. Present
    BY <1>3, <1>4 DEF Present
  <1>11. MixedByRace /\ BuriedByRace
    BY <1>7 DEF MixedByRace, BuriedByRace
  <1>12. QED
    BY <1>7, <1>8, <1>9, <1>10, <1>11 DEF PairsInv

\* A rename with a snap browser adds the new name, nothing else changes them.
LEMMA GhostsGrow == PairsInv /\ [Next]_vars => Ghosts
  <1> SUFFICES ASSUME PairsInv, [Next]_vars PROVE Ghosts
    OBVIOUS
  <1> USE DEF Ghosts, Counts, Stays
  <1>0. behind \subseteq Names
    BY DEF PairsInv, TypeOK
  <1>1. CASE UNCHANGED vars
    BY <1>0, <1>1 DEF vars
  <1>2. ASSUME NEW c \in Commands, NEW r, Begins(c, r) PROVE Ghosts
    BY <1>0, <1>2 DEF Begins
  <1>3. ASSUME NEW c \in Commands, NEW n \in Names,
               \/ \E protect, force \in BOOLEAN : StartLogin(c, n, protect, force)
               \/ StartRefresh(c, n) \/ StartDelete(c, n)
               \/ StartCheck(c, n) \/ StartHttp(c, n)
               \/ \E m \in Names \ {n} : \E asked \in {n, m, None} : StartRename(c, n, m, asked)
               \/ StartSwitch(c, n)
        PROVE  Ghosts
    BY <1>2, <1>3 DEF StartLogin, StartRefresh, StartDelete, StartCheck, StartHttp, Loads,
                      StartRename, StartSwitch
  <1>4. ASSUME NEW c \in Commands, StartConfig(c) PROVE Ghosts
    BY <1>2, <1>4 DEF StartConfig
  <1>5. ASSUME NEW c \in Commands,
               \/ Browse(c) \/ Cancel(c) \/ Mismatch(c) \/ SaveLogin(c) \/ SaveFails(c)
               \/ Extract(c) \/ SaveRefresh(c) \/ CheckSaves(c) \/ HttpSaves(c)
        PROVE  Ghosts
    BY <1>0, <1>5 DEF Browse, Cancel, Mismatch, SaveLogin, SaveFails, Extract, SaveRefresh,
                      CheckSaves, HttpSaves, SavesBack
  <1>6. ASSUME NEW c \in Commands,
               \/ MoveBrowser(c) \/ FollowDefault(c) \/ StepFails(c) \/ UndoAuth(c)
               \/ UndoBrowser(c) \/ Delete(c) \/ WriteConfig(c) \/ Crash(c)
        PROVE  Ghosts
    BY <1>0, <1>6 DEF MoveBrowser, FollowDefault, StepFails, UndoAuth, UndoBrowser, Delete,
                      WriteConfig, Crash
  <1>7. ASSUME NEW c \in Commands, MoveAuth(c) PROVE Ghosts
    <2>1. command[c].to \in Names
      BY <1>7, RenameKnows DEF MoveAuth, At
    <2>2. QED
      BY <1>0, <1>7, <2>1 DEF MoveAuth
  <1>8. QED
    BY <1>1, <1>3, <1>4, <1>5, <1>6, <1>7 DEF Next

\* Every step keeps the invariant.
LEMMA Kept == PairsInv /\ [Next]_vars => PairsInv'
  <1> SUFFICES ASSUME PairsInv, [Next]_vars PROVE PairsInv'
    OBVIOUS
  <1>0. Ghosts
    BY GhostsGrow
  <1>1. CASE UNCHANGED vars
    <2>1. /\ auth' = auth /\ browser' = browser /\ default' = default /\ command' = command
          /\ calls' = calls /\ failures' = failures /\ crashes' = crashes
          /\ buried' = buried /\ raced' = raced /\ astray' = astray
          /\ snap' = snap /\ behind' = behind
      BY <1>1 DEF vars
    <2>2. TypeOK' /\ Present' /\ (snap \/ behind = {})'
      BY <2>1 DEF PairsInv, TypeOK, Present
    <2>3. ASSUME NEW c \in Commands PROVE Fits(c)'
      BY <2>1 DEF PairsInv, Fits, Pending, Halfway, Follows, LeavesBehind, Joined
    <2>4. MixedByRace' /\ BuriedByRace'
      BY <2>1 DEF PairsInv, MixedByRace, Agree, BuriedByRace
    <2>5. QED
      BY <2>2, <2>3, <2>4 DEF PairsInv
  <1>2. ASSUME NEW c \in Commands, NEW n \in Names,
               \/ \E protect, force \in BOOLEAN : StartLogin(c, n, protect, force)
               \/ StartRefresh(c, n) \/ StartDelete(c, n)
               \/ StartCheck(c, n) \/ StartHttp(c, n)
               \/ \E m \in Names \ {n} : \E asked \in {n, m, None} : StartRename(c, n, m, asked)
               \/ StartSwitch(c, n)
        PROVE  PairsInv'
    BY <1>0, <1>2, StartLoginStep, StartRefreshStep, StartDeleteStep, LoadsStep, StartRenameStep,
       StartWriteStep
  <1>3. ASSUME NEW c \in Commands,
               \/ StartConfig(c)
               \/ Browse(c) \/ Cancel(c) \/ Mismatch(c) \/ SaveLogin(c) \/ SaveFails(c)
               \/ Extract(c) \/ SaveRefresh(c) \/ CheckSaves(c) \/ HttpSaves(c)
               \/ MoveBrowser(c) \/ MoveAuth(c) \/ FollowDefault(c) \/ StepFails(c)
               \/ UndoAuth(c) \/ UndoBrowser(c)
               \/ Delete(c) \/ WriteConfig(c) \/ Crash(c)
        PROVE  PairsInv'
    BY <1>0, <1>3, StartWriteStep, BrowseStep, EndStep, MismatchStep, SaveLoginStep, TakesAwaySteps,
       ExtractStep, SaveRefreshStep, SavesBackSteps, MoveBrowserStep, MoveAuthStep,
       StepFailsStep, UndoAuthStep, UndoBrowserStep
  <1>4. QED
    BY <1>1, <1>2, <1>3 DEF Next

\* The invariant holds in every reachable state.
LEMMA Always == Spec => []PairsInv
  BY Starts, Kept, PTL DEF Spec

(* Commands, directories and counters keep the shapes that the code relies on. *)
THEOREM TypesKept == Spec => []TypeOK
  <1>1. PairsInv => TypeOK
    BY DEF PairsInv
  <1>2. QED
    BY Always, <1>1, PTL

(* A name's browser is signed in with the account of its login, but for the races and the *)
(* sign-ins that the property names.                                                      *)
THEOREM PairsStay == Spec => []MixedByRace
  <1>1. PairsInv => MixedByRace
    BY DEF PairsInv
  <1>2. QED
    BY Always, <1>1, PTL

(* A rename puts no profile into the directory of another unless it was raced there. *)
THEOREM NoneBuried == Spec => []BuriedByRace
  <1>1. PairsInv => BuriedByRace
    BY DEF PairsInv
  <1>2. QED
    BY Always, <1>1, PTL

-----------------------------------------------------------------------------
\* The default.

Chooser(c) == command[c].op \in Chooses

\* What a command that writes the default, or moves or deletes what it names, relies on.
Chosen(r) ==
    /\ r.op = "config" => auth[r.config].login # None
    /\ r.op = "rename" =>
        /\ r.at \in {"browser", "auth"} => "auth" \notin r.moved
        /\ r.at = "config" => "auth" \in r.moved
        /\ default # r.to
        /\ "auth" \notin r.moved \/ r.at = "undo browser" => auth[default].login # None
        /\ "auth" \in r.moved /\ r.at # "undo browser" =>
              /\ auth[r.to].login # None /\ r.config = r.name
              /\ default = r.name \/ auth[default].login # None

\* Commands that choose the default come one at a time, and in between it is a profile's.
DefaultKept ==
    astray \/ /\ \A c, d \in Commands : Chooser(c) /\ Chooser(d) => c = d
              /\ \A c \in Commands : Chosen(command[c])
              /\ (\A c \in Commands : command[c].op # "rename") => auth[default].login # None

\* A command that has nothing to do with the default takes no login away.
LEMMA Unconcerned ==
    ASSUME DefaultKept, NEW c \in Commands, Moves(c), ~Chooser(c), command'[c].op \notin Chooses,
           default' = default, astray' = astray,
           \A n \in Names : auth[n].login # None => auth'[n].login # None, PairsInv
    PROVE  DefaultKept'
  <1> SUFFICES ASSUME ~astray PROVE DefaultKept'
    BY DEF DefaultKept
  <1>1. default \in Names
    BY DEF PairsInv, TypeOK
  <1>2. ASSUME NEW d \in Commands PROVE Chosen(command[d])'
    <2>1. CASE d = c
      BY <2>1 DEF Chosen, Chooses
    <2>2. CASE d # c
      <3>1. command'[d] = command[d] /\ Chosen(command[d]) /\ Formed(command[d])
        BY <2>2 DEF Moves, DefaultKept, PairsInv, Fits
      <3>2. QED
        BY <1>1, <3>1 DEF Chosen, Formed
    <2>3. QED
      BY <2>1, <2>2
  <1>3. \A d, e \in Commands : Chooser(d)' /\ Chooser(e)' => d = e
    BY DEF Moves, DefaultKept, Chooser
  <1>4. (\A d \in Commands : command'[d].op # "rename") => auth'[default'].login # None
    BY <1>1 DEF Moves, DefaultKept, Chooser, Chooses
  <1>5. QED
    BY <1>2, <1>3, <1>4 DEF DefaultKept

\* A command that chooses does so alone.
LEMMA AloneStep ==
    ASSUME DefaultKept, NEW c \in Commands, NEW r, Moves(c), command'[c] = r, ~astray, ~astray',
           \A d \in Commands \ {c} : ~Chooser(d), Chosen(r)',
           r.op # "rename" => auth'[default'].login # None
    PROVE  DefaultKept'
  <1>1. ASSUME NEW d \in Commands PROVE Chosen(command[d])'
    <2>1. CASE d = c
      BY <2>1 DEF Chosen
    <2>2. CASE d # c
      <3>1. command'[d] = command[d] /\ command[d].op \notin Chooses
        BY <2>2 DEF Moves, Chooser
      <3>2. QED
        BY <3>1 DEF Chosen, Chooses
    <2>3. QED
      BY <2>1, <2>2
  <1>2. \A d, e \in Commands : Chooser(d)' /\ Chooser(e)' => d = e
    BY DEF Moves, Chooser
  <1>3. QED
    BY <1>1, <1>2 DEF DefaultKept

\* Nobody else chooses while a command does.
LEMMA Alone ==
    ASSUME DefaultKept, ~astray, NEW c \in Commands, Chooser(c)
    PROVE  /\ \A d \in Commands \ {c} : ~Chooser(d)
           /\ Chosen(command[c])
           /\ command[c].op # "rename" => auth[default].login # None
  BY DEF DefaultKept, Chooser, Chooses

\* A command that ends without a login less, a chooser of the default among them.
LEMMA EndsQuietly ==
    ASSUME PairsInv, DefaultKept, NEW c \in Commands, Ends(c), command[c].op # "rename",
           UNCHANGED <<auth, default, astray>>
    PROVE  DefaultKept'
  <1>1. Moves(c) /\ command'[c] = Idle
    BY IdleFits, Effect DEF Ends
  <1>2. Idle.op \notin Chooses
    BY IdleFits DEF Chooses
  <1>3. CASE ~Chooser(c)
    BY <1>1, <1>2, <1>3, Unconcerned
  <1>4. CASE astray
    BY <1>4 DEF DefaultKept
  <1>5. CASE Chooser(c) /\ ~astray
    <2>1. (\A d \in Commands \ {c} : ~Chooser(d)) /\ auth[default].login # None
      BY <1>5, Alone
    <2>2. Chosen(Idle)'
      BY IdleFits DEF Chosen
    <2>3. QED
      BY <1>1, <1>5, <2>1, <2>2, AloneStep
  <1>6. QED
    BY <1>3, <1>4, <1>5

\* A command that begins to choose when no other does finds a default with a login.
LEMMA BeginsAlone ==
    ASSUME PairsInv, DefaultKept, NEW c \in Commands, NEW r, Begins(c, r), r.op \in Chooses,
           ~astray'
    PROVE  ~astray /\ (\A d \in Commands : ~Chooser(d)) /\ auth[default].login # None
  <1>1. ~astray /\ \A d \in Commands : ~Chooser(d)
    BY DEF Begins, Chooser
  <1>2. QED
    BY <1>1 DEF DefaultKept, Chooser, Chooses

\* A command that begins to choose.
LEMMA BeginsToChoose ==
    ASSUME PairsInv, DefaultKept, NEW c \in Commands, NEW r \in Command, Begins(c, r),
           r.op \in Chooses, astray' \/ Chosen(r)
    PROVE  DefaultKept'
  <1>1. CASE astray'
    BY <1>1 DEF DefaultKept
  <1>2. CASE ~astray'
    <2>1. ~astray /\ (\A d \in Commands : ~Chooser(d)) /\ auth[default].login # None
      BY <1>2, BeginsAlone
    <2>2. Moves(c) /\ command'[c] = r /\ auth' = auth /\ default' = default
      BY Effect DEF Begins
    <2>3. Chosen(r)'
      BY <1>2, <2>2 DEF Chosen
    <2>4. QED
      BY <1>2, <2>1, <2>2, <2>3, AloneStep
  <1>3. QED
    BY <1>1, <1>2

\* A command that begins to do something else.
LEMMA BeginsElse ==
    ASSUME PairsInv, DefaultKept, NEW c \in Commands, NEW r \in Command, Begins(c, r),
           r.op \notin Chooses
    PROVE  DefaultKept'
  <1>1. Moves(c) /\ command'[c] = r /\ auth' = auth /\ default' = default
    BY Effect DEF Begins
  <1>2. ~Chooser(c)
    BY DEF Begins, PairsInv, Fits, Formed, Chooser, Chooses
  <1>3. astray' = astray
    BY DEF Begins, PairsInv, TypeOK
  <1>4. QED
    BY <1>1, <1>2, <1>3, Unconcerned

-----------------------------------------------------------------------------
\* One step for each command that chooses.

\* A default is chosen among the profiles with a login, or a deletion begins.
LEMMA DefaultAtStart ==
    ASSUME PairsInv, DefaultKept, NEW c \in Commands,
           StartConfig(c) \/ \E n \in Names : StartSwitch(c, n) \/ StartDelete(c, n)
    PROVE  DefaultKept'
  <1>1. CASE StartConfig(c) \/ \E n \in Names : StartSwitch(c, n)
    <2>1. PICK n \in Names :
              /\ Begins(c, [Idle EXCEPT !.op = "config", !.at = "config", !.config = n])
              /\ n = default \/ auth[n].login # None
      BY <1>1 DEF StartConfig, StartSwitch, PairsInv, TypeOK
    <2> DEFINE r == [Idle EXCEPT !.op = "config", !.at = "config", !.config = n]
    <2>2. r \in Command /\ r.op = "config" /\ r.config = n
      BY DEF Idle, Command
    <2>3. Begins(c, r)
      BY <2>1
    <2> HIDE DEF r
    <2>4. r.op \in Chooses
      BY <2>2 DEF Chooses
    <2>5. CASE ~astray'
      <3>1. auth[default].login # None
        BY <2>3, <2>4, <2>5, BeginsAlone
      <3>2. Chosen(r)
        BY <2>1, <2>2, <3>1 DEF Chosen
      <3>3. QED
        BY <2>2, <2>3, <2>4, <3>2, BeginsToChoose
    <2>6. QED
      BY <2>2, <2>3, <2>4, <2>5, BeginsToChoose
  <1>2. ASSUME NEW n \in Names, StartDelete(c, n) PROVE DefaultKept'
    <2> DEFINE r == [Idle EXCEPT !.op = "delete", !.at = "delete", !.name = n]
    <2>1. Begins(c, r)
      BY <1>2 DEF StartDelete
    <2>2. r \in Command /\ r.op = "delete"
      BY DEF Idle, Command
    <2> HIDE DEF r
    <2>3. r.op \in Chooses /\ Chosen(r)
      BY <2>2 DEF Chooses, Chosen
    <2>4. QED
      BY <2>1, <2>2, <2>3, BeginsToChoose
  <1>3. QED
    BY <1>1, <1>2

\* A rename begins with a new name that is not the default.
LEMMA DefaultAtRename ==
    ASSUME PairsInv, DefaultKept, NEW c \in Commands, NEW n \in Names, NEW m \in Names \ {n},
           NEW asked \in {n, m, None}, StartRename(c, n, m, asked)
    PROVE  DefaultKept'
  <1> DEFINE place == IF Seen(n) THEN "browser" ELSE "auth"
             config == Read(asked)
             by == asked # None
             r == [Idle EXCEPT !.op = "rename", !.at = place, !.name = n, !.to = m,
                               !.config = config, !.asked = by]
  <1>1. Begins(c, r) /\ ~auth[m].there
    BY DEF StartRename, Renamable
  <1>2. config \in Names /\ by \in BOOLEAN /\ place \in {"browser", "auth"}
    BY DEF Read, PairsInv, TypeOK
  <1> HIDE DEF config, by, place
  <1>3. /\ r \in Command /\ r.op = "rename" /\ r.at = place /\ r.to = m /\ r.moved = {}
    BY <1>2 DEF Idle, Command
  <1> HIDE DEF r
  <1>4. auth[m].login = None /\ r.op \in Chooses
    BY <1>1, <1>3 DEF PairsInv, Present, Chooses
  <1>5. CASE ~astray'
    <2>1. auth[default].login # None
      BY <1>1, <1>4, <1>5, BeginsAlone
    <2>2. Chosen(r)
      BY <1>2, <1>3, <1>4, <2>1 DEF Chosen
    <2>3. QED
      BY <1>1, <1>3, <1>4, <2>2, BeginsToChoose
  <1>6. QED
    BY <1>1, <1>3, <1>4, <1>5, BeginsToChoose

\* A profile is deleted that is not the default.
LEMMA DefaultAtDelete ==
    ASSUME PairsInv, DefaultKept, NEW c \in Commands, Delete(c)
    PROVE  DefaultKept'
  <1> DEFINE n == command[c].name
  <1>1. /\ command[c].op = "delete" /\ auth' = [auth EXCEPT ![n] = NoAuth]
        /\ astray' = (astray \/ default = n) /\ Ends(c) /\ default' = default
    BY DEF Delete, At
  <1>2. Moves(c) /\ command'[c] = Idle
    BY <1>1, IdleFits, Effect DEF Ends
  <1>3. CASE astray'
    BY <1>3 DEF DefaultKept
  <1>4. CASE ~astray'
    <2>1. ~astray /\ default # n /\ Chooser(c)
      BY <1>1, <1>4 DEF Chooser, Chooses
    <2>2. (\A d \in Commands \ {c} : ~Chooser(d)) /\ auth[default].login # None
      BY <1>1, <2>1, Alone
    <2>3. auth'[default'].login # None
      BY <1>1, <2>1, <2>2 DEF PairsInv, TypeOK
    <2>4. Chosen(Idle)'
      BY IdleFits DEF Chosen
    <2>5. QED
      BY <1>2, <1>4, <2>1, <2>2, <2>3, <2>4, AloneStep
  <1>5. QED
    BY <1>3, <1>4

\* The default that was chosen still has its login.
LEMMA DefaultAtWrite ==
    ASSUME PairsInv, DefaultKept, NEW c \in Commands, WriteConfig(c)
    PROVE  DefaultKept'
  <1>1. /\ command[c].op = "config" /\ auth' = auth /\ astray' = astray /\ Ends(c)
        /\ default' = default \/ default' = command[c].config
    BY DEF WriteConfig, At, Saved
  <1>2. Moves(c) /\ command'[c] = Idle
    BY <1>1, IdleFits, Effect DEF Ends
  <1>3. CASE astray
    BY <1>1, <1>3 DEF DefaultKept
  <1>4. CASE ~astray
    <2>1. Chooser(c)
      BY <1>1 DEF Chooser, Chooses
    <2>2. /\ \A d \in Commands \ {c} : ~Chooser(d)
          /\ auth[default].login # None /\ auth[command[c].config].login # None
      BY <1>1, <1>4, <2>1, Alone DEF Chosen
    <2>3. Chosen(Idle)'
      BY IdleFits DEF Chosen
    <2>4. auth'[default'].login # None
      BY <1>1, <2>2
    <2>5. ~astray'
      BY <1>1, <1>4
    <2>6. QED
      BY <1>2, <1>4, <2>2, <2>3, <2>4, <2>5, AloneStep
  <1>5. QED
    BY <1>3, <1>4

\* Every step of a rename: what it goes on with, and what it knew.
LEMMA DefaultAtMove ==
    ASSUME PairsInv, DefaultKept, NEW c \in Commands, NEW r \in Command, Goes(c, r),
           command[c].op = "rename", astray => astray',
           ~astray' => Chosen(r)' /\ (r.op # "rename" => auth'[default'].login # None)
    PROVE  DefaultKept'
  <1>1. Moves(c) /\ command'[c] = r
    BY Effect
  <1>2. CASE astray'
    BY <1>2 DEF DefaultKept
  <1>3. CASE ~astray'
    <2>1. ~astray /\ Chooser(c)
      BY <1>3 DEF Chooser, Chooses
    <2>2. \A d \in Commands \ {c} : ~Chooser(d)
      BY <2>1, Alone
    <2>3. QED
      BY <1>1, <1>3, <2>1, <2>2, AloneStep
  <1>4. QED
    BY <1>2, <1>3

\* What a rename knows of the default.
LEMMA ChosenBy ==
    ASSUME PairsInv, DefaultKept, NEW c \in Commands, command[c].op = "rename", ~astray
    PROVE  Chosen(command[c]) /\ command[c] \in Command /\ default \in Names
  <1>1. Chooser(c)
    BY DEF Chooser, Chooses
  <1>2. QED
    BY <1>1, Alone, RenameKnows DEF PairsInv, TypeOK

\* The browser moves; the login does not.
LEMMA DefaultAtMoveBrowser ==
    ASSUME PairsInv, DefaultKept, NEW c \in Commands, MoveBrowser(c)
    PROVE  DefaultKept'
  <1> DEFINE k == command[c]
             going == [k EXCEPT !.at = "auth", !.moved = {"browser"}]
  <1>1. /\ k.op = "rename" /\ k.at = "browser" /\ Goes(c, going)
        /\ auth' = auth /\ default' = default /\ astray' = astray
    BY DEF MoveBrowser, At
  <1>2. k \in Command
    BY <1>1, RenameKnows
  <1>3. PICK r \in Command : /\ r = going /\ r.op = "rename" /\ r.at = "auth" /\ r.to = k.to
                             /\ r.moved = {"browser"}
    <2>1. /\ going \in Command /\ going.op = "rename" /\ going.at = "auth" /\ going.to = k.to
          /\ going.moved = {"browser"}
      BY <1>1, <1>2 DEF Command
    <2> HIDE DEF going
    <2>2. QED
      BY <2>1
  <1> HIDE DEF going
  <1>4. ASSUME ~astray' PROVE Chosen(r)'
    BY <1>1, <1>3, <1>4, ChosenBy DEF Chosen
  <1>5. QED
    BY <1>1, <1>3, <1>4, DefaultAtMove

\* The login moves: the default is moved after it, or is another profile.
LEMMA DefaultAtMoveAuth ==
    ASSUME PairsInv, DefaultKept, NEW c \in Commands, MoveAuth(c)
    PROVE  DefaultKept'
  <1> DEFINE k == command[c]
             on == [k EXCEPT !.at = "config", !.moved = @ \cup {"auth"}]
             going == IF k.config = k.name THEN on ELSE Idle
  <1>1. k.op = "rename" /\ k.at = "auth"
    BY DEF MoveAuth, At
  <1>2. PICK n \in Names, m \in Names : n = k.name /\ m = k.to /\ n # m
    BY <1>1, RenameKnows
  <1>3. /\ auth' = Moved(auth, n, m, NoAuth) /\ auth[n].there /\ default' = default
        /\ astray' = (astray \/ (default = n /\ k.config # n)) /\ Goes(c, going)
    BY <1>2 DEF MoveAuth, Ends
  <1>4. k \in Command
    BY <1>1, RenameKnows
  <1>5. /\ on \in Command /\ on.op = "rename" /\ on.at = "config" /\ on.name = n /\ on.to = m
        /\ on.config = k.config /\ on.moved = k.moved \cup {"auth"}
    BY <1>1, <1>2, <1>4 DEF Command
  <1> HIDE DEF on
  <1>6. PICK r \in Command : r = going
    BY <1>5, IdleFits
  <1>7. /\ auth'[m] = IF auth[m].there THEN auth[m] ELSE auth[n]
        /\ \A x \in Names \ {n, m} : auth'[x] = auth[x]
    BY <1>2, <1>3, AuthMoved
  <1>8. auth'[m].login # None
    BY <1>3, <1>7 DEF PairsInv, Present
  <1>9. ASSUME ~astray'
        PROVE  Chosen(r)' /\ (r.op # "rename" => auth'[default'].login # None)
    <2>1. Chosen(k) /\ default \in Names /\ ~(default = n /\ k.config # n)
      BY <1>1, <1>3, <1>9, ChosenBy
    <2>2. default # m /\ (default = n \/ auth'[default].login # None)
      BY <1>1, <1>2, <1>7, <2>1 DEF Chosen
    <2>3. CASE k.config = n
      <3>1. r = on
        BY <1>2, <1>6, <2>3
      <3>2. QED
        BY <1>3, <1>5, <1>8, <2>2, <2>3, <3>1 DEF Chosen
    <2>4. CASE k.config # n
      <3>1. r = Idle
        BY <1>2, <1>6, <2>4
      <3>2. QED
        BY <1>3, <2>1, <2>2, <2>4, <3>1, IdleFits DEF Chosen
    <2>5. QED
      BY <2>3, <2>4
  <1> HIDE DEF going
  <1>10. QED
    BY <1>1, <1>3, <1>6, <1>9, DefaultAtMove

\* The default follows the login.
LEMMA DefaultFollowed ==
    ASSUME PairsInv, DefaultKept, NEW c \in Commands, FollowDefault(c)
    PROVE  DefaultKept'
  <1> DEFINE k == command[c]
  <1>1. /\ k.op = "rename" /\ k.at = "config" /\ Goes(c, Idle) /\ auth' = auth
        /\ default' = IF k.asked THEN default ELSE k.to
        /\ astray' = (astray \/ k.asked)
    BY DEF FollowDefault, At, Ends, Saved
  <1>2. ASSUME ~astray' PROVE auth'[default'].login # None
    <2>1. default' = k.to /\ ~astray
      BY <1>1, <1>2
    <2>2. Chosen(k)
      BY <1>1, <2>1, ChosenBy
    <2>3. QED
      BY <1>1, <2>1, <2>2 DEF Chosen
  <1>3. Chosen(Idle)'
    BY IdleFits DEF Chosen
  <1>4. QED
    BY <1>1, <1>2, <1>3, IdleFits, DefaultAtMove

\* A rename fails and knows what it has moved.
LEMMA DefaultAtFailure ==
    ASSUME PairsInv, DefaultKept, NEW c \in Commands, StepFails(c)
    PROVE  DefaultKept'
  <1> DEFINE k == command[c]
             going == [k EXCEPT !.at = "undo auth"]
  <1>1. /\ k.op = "rename" /\ k.at \in {"browser", "auth", "config"} /\ Goes(c, going)
        /\ auth' = auth /\ default' = default /\ astray' = astray
    BY DEF StepFails, To
  <1>2. k \in Command
    BY <1>1, RenameKnows
  <1>3. PICK r \in Command : /\ r = going /\ r.op = "rename" /\ r.at = "undo auth"
                             /\ r.name = k.name /\ r.to = k.to /\ r.config = k.config
                             /\ r.moved = k.moved
    <2>1. /\ going \in Command /\ going.op = "rename" /\ going.at = "undo auth"
          /\ going.name = k.name /\ going.to = k.to /\ going.config = k.config
          /\ going.moved = k.moved
      BY <1>1, <1>2 DEF Command
    <2> HIDE DEF going
    <2>2. QED
      BY <2>1
  <1> HIDE DEF going
  <1>4. ASSUME ~astray' PROVE Chosen(r)'
    BY <1>1, <1>3, <1>4, ChosenBy DEF Chosen
  <1>5. QED
    BY <1>1, <1>3, <1>4, DefaultAtMove

\* The login is back, or was never moved, unless moving it back fails.
LEMMA DefaultAtUndo ==
    ASSUME PairsInv, DefaultKept, NEW c \in Commands, UndoAuth(c)
    PROVE  DefaultKept'
  <1> DEFINE k == command[c]
             going == [k EXCEPT !.at = "undo browser"]
  <1>1. k.op = "rename" /\ k.at = "undo auth" /\ Goes(c, going) /\ default' = default
    BY DEF UndoAuth, At, To
  <1>2. PICK n \in Names, m \in Names : n = k.name /\ m = k.to /\ n # m
    BY <1>1, RenameKnows
  <1>3. k \in Command
    BY <1>1, RenameKnows
  <1>4. PICK r \in Command : r = going /\ r.op = "rename" /\ r.at = "undo browser" /\ r.to = m
    <2>1. going \in Command /\ going.op = "rename" /\ going.at = "undo browser" /\ going.to = m
      BY <1>1, <1>2, <1>3 DEF Command
    <2> HIDE DEF going
    <2>2. QED
      BY <2>1
  <1> HIDE DEF going
  <1>5. astray => astray'
    BY DEF UndoAuth
  <1>6. ASSUME ~astray' PROVE default # m /\ auth'[default].login # None
    <2>1. Chosen(k) /\ default \in Names
      BY <1>1, <1>5, <1>6, ChosenBy
    <2>2. default # m
      BY <1>1, <1>2, <2>1 DEF Chosen
    <2>3. CASE /\ "auth" \in k.moved /\ ~auth[n].there
               /\ auth' = Moved(auth, m, n, NoAuth)
      <3>1. auth'[n] = auth[m] /\ \A x \in Names \ {n, m} : auth'[x] = auth[x]
        BY <1>2, <2>3, AuthMoved
      <3>2. QED
        BY <1>1, <1>2, <2>1, <2>2, <2>3, <3>1 DEF Chosen
    <2>4. CASE /\ "auth" \notin k.moved \/ ~auth[m].there \/ auth[n].there
               /\ auth' = auth
      BY <1>1, <1>2, <2>1, <2>2, <2>4 DEF Chosen, PairsInv, Present
    <2>5. QED
      BY <1>2, <1>6, <2>3, <2>4 DEF UndoAuth
  <1>7. ASSUME ~astray' PROVE Chosen(r)'
    BY <1>1, <1>4, <1>6, <1>7 DEF Chosen
  <1>8. QED
    BY <1>1, <1>4, <1>5, <1>7, DefaultAtMove

\* A failed rename ends with the login where it was.
LEMMA DefaultAtLastUndo ==
    ASSUME PairsInv, DefaultKept, NEW c \in Commands, UndoBrowser(c)
    PROVE  DefaultKept'
  <1> DEFINE k == command[c]
  <1>1. /\ k.op = "rename" /\ k.at = "undo browser" /\ Goes(c, Idle)
        /\ auth' = auth /\ default' = default /\ astray' = astray
    BY DEF UndoBrowser, At, Ends
  <1>2. ASSUME ~astray' PROVE auth'[default'].login # None
    BY <1>1, <1>2, ChosenBy DEF Chosen
  <1>3. Chosen(Idle)'
    BY IdleFits DEF Chosen
  <1>4. QED
    BY <1>1, <1>2, <1>3, IdleFits, DefaultAtMove

-----------------------------------------------------------------------------
\* The steps that do not choose, and the invariant.

\* Steps of a command that goes on, or ends, without a login less.
LEMMA DefaultUntouched ==
    ASSUME PairsInv, DefaultKept, NEW c \in Commands,
           Browse(c) \/ Mismatch(c) \/ SaveLogin(c) \/ SaveFails(c) \/ Extract(c)
           \/ SaveRefresh(c) \/ CheckSaves(c) \/ HttpSaves(c)
    PROVE  DefaultKept'
  <1> DEFINE k == command[c]
  <1>1. k.op \in {"login", "refresh", "check", "http"} /\ k \in Command
        /\ default' = default /\ astray' = astray
    BY DEF Browse, Mismatch, SaveLogin, SaveFails, Extract, SaveRefresh, CheckSaves, HttpSaves,
           SavesBack, At, Stays, PairsInv, TypeOK
  <1>2. PICK who \in Accounts \cup {None}, email \in Accounts \cup {None} :
            \/ Ends(c)
            \/ Goes(c, [k EXCEPT !.at = "save", !.who = who, !.email = email])
            \/ Goes(c, [k EXCEPT !.at = "save", !.who = who])
            \/ Goes(c, [k EXCEPT !.at = "browse", !.force = TRUE, !.who = None, !.email = None])
    <2>1. CASE Browse(c)
      BY <2>1 DEF Browse
    <2>2. CASE Extract(c)
      <3>1. browser[k.name].account \in Accounts \cup {None}
        BY <1>1 DEF PairsInv, TypeOK, Browser, Fits, Formed
      <3>2. QED
        BY <2>2, <3>1 DEF Extract
    <2>3. CASE Mismatch(c) \/ SaveLogin(c) \/ SaveFails(c) \/ SaveRefresh(c) \/ CheckSaves(c)
               \/ HttpSaves(c)
      BY <2>3 DEF Mismatch, SaveLogin, SaveFails, SaveRefresh, CheckSaves, HttpSaves, SavesBack
    <2>4. QED
      BY <2>1, <2>2, <2>3
  <1>3. PICK r \in Command : Goes(c, r) /\ r.op \in {k.op, "none"}
    <2>1. CASE Ends(c)
      BY <2>1, IdleFits DEF Ends
    <2>2. CASE Goes(c, [k EXCEPT !.at = "save", !.who = who, !.email = email])
      <3> DEFINE s == [k EXCEPT !.at = "save", !.who = who, !.email = email]
      <3>1. s \in Command /\ s.op = k.op
        BY <1>1 DEF Command
      <3>2. QED
        BY <2>2, <3>1
    <2>3. CASE Goes(c, [k EXCEPT !.at = "save", !.who = who])
      <3> DEFINE s == [k EXCEPT !.at = "save", !.who = who]
      <3>1. s \in Command /\ s.op = k.op
        BY <1>1 DEF Command
      <3>2. QED
        BY <2>3, <3>1
    <2>4. CASE Goes(c, [k EXCEPT !.at = "browse", !.force = TRUE, !.who = None, !.email = None])
      <3> DEFINE s == [k EXCEPT !.at = "browse", !.force = TRUE, !.who = None, !.email = None]
      <3>1. s \in Command /\ s.op = k.op
        BY <1>1 DEF Command
      <3>2. QED
        BY <2>4, <3>1
    <2>5. QED
      BY <1>2, <2>1, <2>2, <2>3, <2>4
  <1>4. Moves(c) /\ command'[c] = r
    BY <1>3, Effect
  <1>5. ~Chooser(c) /\ r.op \notin Chooses
    BY <1>1, <1>3 DEF Chooser, Chooses
  <1>6. ASSUME NEW n \in Names, auth[n].login # None PROVE auth'[n].login # None
    <2>1. auth \in [Names -> Auth] /\ Formed(k) /\ None \notin Accounts
      BY NoneAssumption DEF PairsInv, TypeOK, Fits
    <2>2. CASE Browse(c) \/ Mismatch(c) \/ Extract(c)
      BY <1>6, <2>2 DEF Browse, Mismatch, Extract, Stays
    <2>3. CASE SaveLogin(c)
      BY <1>6, <2>1, <2>3 DEF SaveLogin, At, Formed
    <2>4. CASE SaveFails(c)
      BY <1>6, <2>1, <2>4 DEF SaveFails, Discarded
    <2>5. CASE SaveRefresh(c)
      BY <1>6, <2>1, <2>5 DEF SaveRefresh, At, Formed, Auth
    <2>6. CASE CheckSaves(c) \/ HttpSaves(c)
      <3>1. PICK mail : SavesBack(c, mail)
        BY <2>6 DEF CheckSaves, HttpSaves
      <3>2. k.who # None
        BY <2>1, <2>6 DEF CheckSaves, HttpSaves, At, Formed
      <3>3. QED
        BY <1>6, <2>1, <3>1, <3>2 DEF SavesBack, Auth
    <2>7. QED
      BY <2>2, <2>3, <2>4, <2>5, <2>6
  <1>7. QED
    BY <1>1, <1>4, <1>5, <1>6, Unconcerned

\* A command ends early; a rename only when it is killed.
LEMMA DefaultAtEnd ==
    ASSUME PairsInv, DefaultKept, NEW c \in Commands, Cancel(c) \/ Crash(c)
    PROVE  DefaultKept'
  <1>1. CASE command[c].op = "rename"
    <2>1. astray'
      BY <1>1 DEF Cancel, Crash, At
    <2>2. QED
      BY <2>1 DEF DefaultKept
  <1>2. CASE command[c].op # "rename"
    <2>1. Ends(c) /\ auth' = auth /\ default' = default /\ astray' = astray
      BY <1>2 DEF Cancel, Crash, Stays, PairsInv, TypeOK
    <2>2. QED
      BY <1>2, <2>1, EndsQuietly
  <1>3. QED
    BY <1>1, <1>2

\* A login, a refresh or a check begins.
LEMMA DefaultAtOthers ==
    ASSUME PairsInv, DefaultKept, NEW c \in Commands, NEW n \in Names,
           \/ \E protect, force \in BOOLEAN : StartLogin(c, n, protect, force)
           \/ StartRefresh(c, n) \/ StartCheck(c, n) \/ StartHttp(c, n)
    PROVE  DefaultKept'
  <1> DEFINE there == auth[n]
  <1>1. there \in Auth /\ there.login \in Accounts \cup {None}
        /\ there.email \in Accounts \cup {None} /\ there.protected \in BOOLEAN
    BY DEF PairsInv, TypeOK, Auth
  <1>2. PICK r \in Command : Begins(c, r) /\ r.op \in {"login", "refresh", "check", "http"}
    <2>1. ASSUME NEW protect \in BOOLEAN, NEW force \in BOOLEAN, StartLogin(c, n, protect, force)
          PROVE  \E r \in Command : Begins(c, r) /\ r.op = "login"
      <3> DEFINE new == there.login = None
                 protected == protect /\ there.login = None
                 r == [Idle EXCEPT !.op = "login", !.at = "browse", !.name = n, !.force = force,
                                   !.new = new, !.protect = protected]
      <3>1. Begins(c, r)
        BY <2>1 DEF StartLogin
      <3>2. new \in BOOLEAN /\ protected \in BOOLEAN
        OBVIOUS
      <3> HIDE DEF new, protected
      <3>3. r \in Command /\ r.op = "login"
        BY <3>2 DEF Idle, Command
      <3>4. QED
        BY <3>1, <3>3
    <2>2. ASSUME StartRefresh(c, n) PROVE \E r \in Command : Begins(c, r) /\ r.op = "refresh"
      <3> DEFINE r == [Idle EXCEPT !.op = "refresh", !.at = "browse", !.name = n,
                                   !.seen = there.login]
      <3>1. r \in Command /\ r.op = "refresh"
        BY <1>1 DEF Idle, Command
      <3>2. QED
        BY <2>2, <3>1 DEF StartRefresh
    <2>3. ASSUME NEW op \in {"check", "http"}, Loads(c, op, n)
          PROVE  \E r \in Command : Begins(c, r) /\ r.op = op
      <3> DEFINE r == [Idle EXCEPT !.op = op, !.at = "save", !.name = n, !.who = there.login,
                                   !.email = there.email, !.protect = there.protected]
      <3>1. r \in Command /\ r.op = op
        BY <1>1 DEF Idle, Command
      <3>2. QED
        BY <2>3, <3>1 DEF Loads
    <2>4. QED
      BY <2>1, <2>2, <2>3 DEF StartCheck, StartHttp
  <1>3. r.op \notin Chooses
    BY <1>2 DEF Chooses
  <1>4. QED
    BY <1>2, <1>3, BeginsElse

\* The initial default has a login.
LEMMA DefaultStarts == Init => DefaultKept
  <1> SUFFICES ASSUME Init PROVE DefaultKept
    OBVIOUS
  <1>1. \A c \in Commands : command[c] = Idle
    BY DEF Init
  <1>2. auth[default].login # None
    BY DEF Init
  <1>3. QED
    BY <1>1, <1>2, IdleFits DEF DefaultKept, Chooser, Chooses, Chosen

\* Every step keeps the default's invariant.
LEMMA DefaultStays == PairsInv /\ DefaultKept /\ [Next]_vars => DefaultKept'
  <1> SUFFICES ASSUME PairsInv, DefaultKept, [Next]_vars PROVE DefaultKept'
    OBVIOUS
  <1>1. CASE UNCHANGED vars
    BY <1>1 DEF vars, DefaultKept, Chooser, Chosen
  <1>2. ASSUME NEW c \in Commands, NEW n \in Names,
               \/ \E protect, force \in BOOLEAN : StartLogin(c, n, protect, force)
               \/ StartRefresh(c, n) \/ StartDelete(c, n)
               \/ StartCheck(c, n) \/ StartHttp(c, n)
               \/ \E m \in Names \ {n} : \E asked \in {n, m, None} : StartRename(c, n, m, asked)
               \/ StartSwitch(c, n)
        PROVE  DefaultKept'
    <2>1. CASE StartDelete(c, n) \/ StartSwitch(c, n)
      BY <2>1, DefaultAtStart
    <2>2. CASE \E m \in Names \ {n} : \E asked \in {n, m, None} : StartRename(c, n, m, asked)
      BY <2>2, DefaultAtRename
    <2>3. CASE \/ \E protect, force \in BOOLEAN : StartLogin(c, n, protect, force)
               \/ StartRefresh(c, n) \/ StartCheck(c, n) \/ StartHttp(c, n)
      BY <2>3, DefaultAtOthers
    <2>4. QED
      BY <1>2, <2>1, <2>2, <2>3
  <1>3. ASSUME NEW c \in Commands,
               \/ StartConfig(c)
               \/ Browse(c) \/ Cancel(c) \/ Mismatch(c) \/ SaveLogin(c) \/ SaveFails(c)
               \/ Extract(c) \/ SaveRefresh(c) \/ CheckSaves(c) \/ HttpSaves(c)
               \/ MoveBrowser(c) \/ MoveAuth(c) \/ FollowDefault(c) \/ StepFails(c)
               \/ UndoAuth(c) \/ UndoBrowser(c)
               \/ Delete(c) \/ WriteConfig(c) \/ Crash(c)
        PROVE  DefaultKept'
    BY <1>3, DefaultAtStart, DefaultUntouched, DefaultAtEnd, DefaultAtMoveBrowser,
       DefaultAtMoveAuth, DefaultFollowed, DefaultAtFailure, DefaultAtUndo, DefaultAtLastUndo,
       DefaultAtDelete, DefaultAtWrite
  <1>4. QED
    BY <1>1, <1>2, <1>3 DEF Next

(* The default names a profile with a login, unless a rename is under way, or one of the *)
(* accidents that the property names has happened.                                       *)
THEOREM DefaultStaysWithALogin == Spec => []DefaultFollows
  <1>1. DefaultKept => DefaultFollows
    BY DEF DefaultKept, DefaultFollows
  <1>2. QED
    BY Always, DefaultStarts, DefaultStays, <1>1, PTL DEF Spec
=============================================================================
