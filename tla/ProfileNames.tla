---------------------------- MODULE ProfileNames ----------------------------
(***************************************************************************)
(* The life of profiles: commands, each a process of its own, that log in, *)
(* refresh, check, rename, delete and choose the default (services/auth,   *)
(* services/auth_storage, services/profiles, core/auth, utils/config,      *)
(* cli/main).                                                              *)
(*                                                                         *)
(* A profile is one name in three places that no lock joins: its directory *)
(* with the saved login, the directory of its browser, which is signed in  *)
(* with an account, and config.toml, which names the default.  A rename    *)
(* moves the browser first, then the login, then the default, and moves    *)
(* back what it has moved when a later step fails.  The directory of a     *)
(* snap browser lies elsewhere: a rename neither looks at it nor moves it. *)
(***************************************************************************)
EXTENDS Integers, FiniteSets

CONSTANTS
    Commands, Names, Accounts,
    None,
    MaxCalls,       \* bound: commands called
    MaxFailures,    \* bound: moves and writes that are refused
    MaxCrashes      \* bound: commands that are killed

ASSUME NoneAssumption == None \notin Names \cup Accounts
ASSUME BoundsAssumption == {MaxCalls, MaxFailures, MaxCrashes} \subseteq Nat

VARIABLES
    snap,       \* the installed browser is a snap package
    auth,       \* the directory of each profile
    browser,    \* the directory of each profile's browser
    default,    \* auth.default_profile in config.toml
    command, calls, failures, crashes,
    buried,     \* ghost: what was moved into a directory that was there
    raced,      \* ghost: names of a rename that overlapped another command at one of them, or
                \* where a login was saved over another account's that nothing told of
    behind,     \* ghost: names that a rename gave a login where a snap browser was
    astray      \* ghost: the default was deleted, or commands that write it have overlapped,
                \* were killed or had another from NLM_PROFILE

vars == <<snap, auth, browser, default, command, calls, failures, crashes, buried, raced,
          behind, astray>>

\* email is the account that metadata.json names, None if the page did not show it.
Auth == [there : BOOLEAN, login : Accounts \cup {None}, email : Accounts \cup {None},
         protected : BOOLEAN]
NoAuth == [there |-> FALSE, login |-> None, email |-> None, protected |-> FALSE]
\* Ghost: switched, the user has signed in with another account than that of the login.
Browser == [there : BOOLEAN, account : Accounts \cup {None}, switched : BOOLEAN]
NoBrowser == [there |-> FALSE, account |-> None, switched |-> FALSE]

\* config is the default that the command has read, asked that NLM_PROFILE gave it; who the
\* account that it will save, email the one that the page has shown or metadata.json named,
\* seen the login that it found; new and protect are the choice of a storage mode, protect
\* for an HTTP refresh the mode that it has found; moved is what a rename has moved.
Command == [op : {"none", "login", "refresh", "check", "http", "rename", "delete", "config"},
            at : {"idle", "browse", "save", "browser", "auth", "config", "undo auth",
                  "undo browser", "delete"},
            name : Names \cup {None}, to : Names \cup {None}, config : Names \cup {None},
            asked : BOOLEAN,
            who : Accounts \cup {None}, email : Accounts \cup {None}, seen : Accounts \cup {None},
            force : BOOLEAN, new : BOOLEAN, protect : BOOLEAN,
            moved : SUBSET {"browser", "auth"}]
Idle == [op |-> "none", at |-> "idle", name |-> None, to |-> None, config |-> None,
         asked |-> FALSE, who |-> None, email |-> None, seen |-> None, force |-> FALSE,
         new |-> FALSE, protect |-> FALSE, moved |-> {}]

TypeOK ==
    /\ snap \in BOOLEAN
    /\ auth \in [Names -> Auth] /\ browser \in [Names -> Browser]
    /\ default \in Names
    /\ command \in [Commands -> Command]
    /\ calls \in 0 .. MaxCalls /\ failures \in 0 .. MaxFailures /\ crashes \in 0 .. MaxCrashes
    /\ buried \subseteq {"browser", "auth"} \X Names \X Names
    /\ raced \subseteq Names /\ behind \subseteq Names /\ astray \in BOOLEAN

\* Every login that is there was made in the browser of its name; the browser may be gone,
\* or be left of a profile that was deleted.
Agree(n) ==
    auth[n].login = None \/ browser[n].account = None \/ auth[n].login = browser[n].account

Init ==
    /\ snap \in BOOLEAN
    /\ \E logins \in [Names -> Accounts \cup {None}] :
         auth = [n \in Names |-> [NoAuth EXCEPT !.there = (logins[n] # None), !.login = logins[n],
                                                  !.email = logins[n]]]
    /\ \E accounts \in [Names -> Accounts \cup {None}] :
         browser = [n \in Names |-> [NoBrowser EXCEPT !.there = (accounts[n] # None),
                                                         !.account = accounts[n]]]
    /\ \A n \in Names : Agree(n)
    /\ default \in Names /\ auth[default].login # None
    /\ command = [c \in Commands |-> Idle]
    /\ calls = 0 /\ failures = 0 /\ crashes = 0
    /\ buried = {} /\ raced = {} /\ behind = {} /\ astray = FALSE

-----------------------------------------------------------------------------
At(c, op, place) == command[c].op = op /\ command[c].at = place
Goes(c, r) == command' = [command EXCEPT ![c] = r]
To(c, place) == Goes(c, [command[c] EXCEPT !.at = place])
Ends(c) == Goes(c, Idle)
Counts == UNCHANGED <<snap, calls, failures, crashes>>
Stays == Counts /\ UNCHANGED <<auth, browser, default, buried, raced, behind, astray>>

\* What the default depends on.
Chooses == {"rename", "config", "delete"}

Begins(c, r) ==
    /\ command[c].at = "idle" /\ calls < MaxCalls
    /\ calls' = calls + 1
    /\ Goes(c, r)
    /\ astray' = (astray \/ (r.op \in Chooses /\ \E d \in Commands : command[d].op \in Chooses))
    /\ UNCHANGED <<snap, auth, browser, default, failures, crashes, buried, raced, behind>>

\* Command c works at some names; it may be a rename, or another command renames one of
\* them or something to it, and what was disturbed takes that along.
Concerns(d) == IF command[d].op = "rename" THEN {command[d].name, command[d].to}
               ELSE {command[d].name}
Enters(c, names) ==
    LET others == {d \in Commands \ {c} : /\ command[d].at # "idle" /\ Concerns(d) \cap names # {}
                                          /\ "rename" \in {command[c].op, command[d].op}}
        disturbed == others # {} \/ raced \cap names # {}
    IN raced' = raced \cup (IF disturbed THEN names ELSE {}) \cup UNION {Concerns(d) : d \in others}

-----------------------------------------------------------------------------
\* nlm login: the storage mode of a new profile is chosen before the browser opens.
\* --clear and --force begin with an empty browser directory and without the comparison.

StartLogin(c, n, protect, force) ==
    Begins(c, [Idle EXCEPT !.op = "login", !.at = "browse", !.name = n, !.force = force,
                           !.new = (auth[n].login = None),
                           !.protect = protect /\ auth[n].login = None])

\* Another command is about to save what it has got from the browser, another account.
Differs(c, n, a) ==
    \E d \in Commands \ {c} :
        /\ command[d].op \in {"login", "refresh"} /\ command[d].at = "save"
        /\ command[d].name = n /\ command[d].who # a

\* The browser's account, or the one with which the user signs in; the browser is cleared
\* when it was asked for, or held the wrong account.
Browse(c) ==
    LET n == command[c].name
    IN /\ At(c, "login", "browse")
       /\ \E a \in Accounts :
            /\ browser[n].account \in {None, a} \/ command[c].force
            /\ browser' = [browser EXCEPT ![n] =
                 [there |-> TRUE, account |-> a,
                  switched |-> auth[n].login \notin {None, a} \/ Differs(c, n, a)]]
            /\ \E email \in {a, None} :
                 Goes(c, [command[c] EXCEPT !.at = "save", !.who = a, !.email = email])
       /\ Enters(c, {n})
       /\ Counts /\ UNCHANGED <<auth, default, buried, behind, astray>>

Cancel(c) ==
    /\ command[c].op \in {"login", "refresh", "check", "http"} \/ At(c, "delete", "delete")
    /\ Ends(c) /\ Stays

\* mutant: the account that is saved is not compared with the one that is there
MutantComparesNothing(n, email) == FALSE

\* save_profile compares the accounts if it is told one and there is one.
OtherAccount(n, email) == email # None /\ auth[n].email \notin {None, email}

\* AccountMismatchError: the login is tried again, once, with an empty browser.
Mismatch(c) ==
    LET r == command[c]
    IN /\ At(c, "login", "save") /\ ~r.force /\ OtherAccount(r.name, r.email)
       /\ Goes(c, [r EXCEPT !.at = "browse", !.force = TRUE, !.who = None, !.email = None])
       /\ Stays

\* _save_with_storage_choice.
SaveLogin(c) ==
    LET r == command[c]
    IN /\ At(c, "login", "save") /\ (r.force \/ ~OtherAccount(r.name, r.email))
       /\ auth' = [auth EXCEPT ![r.name] =
            [there |-> TRUE, login |-> r.who, email |-> r.email,
             protected |-> @.protected \/ r.protect]]
       /\ browser' = [browser EXCEPT ![r.name].switched =
                         @ /\ (browser[r.name].account # r.who \/ Differs(c, r.name, r.who))]
       /\ Enters(c, {r.name})
       /\ Ends(c)
       /\ Counts /\ UNCHANGED <<default, buried, behind, astray>>

\* discard_unsaved_profile takes back the mark of a profile without a login.
Discarded(n) == IF auth[n].login # None THEN auth[n] ELSE NoAuth

SaveFails(c) ==
    LET r == command[c]
    IN /\ At(c, "login", "save") /\ r.new /\ failures < MaxFailures
       /\ auth' = [auth EXCEPT ![r.name] = Discarded(r.name)]
       /\ Ends(c)
       /\ failures' = failures + 1
       /\ UNCHANGED <<snap, browser, default, calls, crashes, buried, raced, behind, astray>>

-----------------------------------------------------------------------------
\* run_headless_auth: what the browser is signed in with is saved unless the login has
\* changed in between; there is no comparison of accounts.

StartRefresh(c, n) ==
    /\ browser[n].account # None
    /\ Begins(c, [Idle EXCEPT !.op = "refresh", !.at = "browse", !.name = n,
                              !.seen = auth[n].login])

Extract(c) ==
    LET n == command[c].name
    IN /\ At(c, "refresh", "browse") /\ browser[n].account # None
       /\ Goes(c, [command[c] EXCEPT !.at = "save", !.who = browser[n].account])
       /\ Stays

SaveRefresh(c) ==
    LET r == command[c]
    IN /\ At(c, "refresh", "save") /\ auth[r.name].login = r.seen
       /\ auth' = [auth EXCEPT ![r.name] = [@ EXCEPT !.there = TRUE, !.login = r.who]]
       /\ Enters(c, {r.name})
       /\ Ends(c)
       /\ Counts /\ UNCHANGED <<browser, default, buried, behind, astray>>

-----------------------------------------------------------------------------
\* A check of the login (AuthHealthChecker, check_auth) and nlm auth refresh --http-only:
\* each loads the login, asks the service, and saves what it has loaded, with new tokens.

Loads(c, op, n) ==
    /\ auth[n].login # None
    /\ Begins(c, [Idle EXCEPT !.op = op, !.at = "save", !.name = n, !.who = auth[n].login,
                              !.email = auth[n].email, !.protect = auth[n].protected])

StartCheck(c, n) == Loads(c, "check", n)
StartHttp(c, n) == Loads(c, "http", n)

\* A login that is not there any more is made again.
SavesBack(c, email) ==
    LET r == command[c]
    IN /\ auth' = [auth EXCEPT ![r.name].there = TRUE, ![r.name].login = r.who,
                                ![r.name].email = email]
       /\ Ends(c)
       /\ Counts /\ UNCHANGED <<browser, default, buried, behind, astray>>

\* Ghost: nothing known told that another login, or none, was there.
Overwrites(c, known) ==
    LET r == command[c]
    IN IF auth[r.name].login # r.who /\ ~known THEN raced' = raced \cup {r.name}
       ELSE Enters(c, {r.name})

\* An email that was empty stays empty, one that was missing leaves what is there.
CheckSaves(c) ==
    LET r == command[c]
        there == auth[r.name]
    IN /\ At(c, "check", "save") /\ ~OtherAccount(r.name, r.email)
       /\ \E email \in {r.email, IF r.email = None THEN there.email ELSE r.email} :
            SavesBack(c, email)
       /\ Overwrites(c, r.email = r.who /\ there.login # None /\ there.email = there.login)

\* The revision of a protected login is compared; the account is not.
HttpSaves(c) ==
    LET r == command[c]
    IN /\ At(c, "http", "save")
       /\ r.protect => auth[r.name].protected /\ auth[r.name].login = r.who
       /\ SavesBack(c, auth[r.name].email)
       /\ Overwrites(c, r.protect)

-----------------------------------------------------------------------------
\* rename_profile.

\* mutant: a browser directory that is there is no obstacle
MutantAttaches(n, m) == auth[n].there /\ ~auth[n].protected /\ ~auth[m].there

\* Its checks, all before the first move.  Of the browsers' directories it knows those of
\* chrome-profiles and firefox-profiles.
Seen(n) == browser[n].there /\ ~snap
Renamable(n, m) == auth[n].there /\ ~auth[n].protected /\ ~auth[m].there /\ ~Seen(m)

\* The configuration is that of the process: NLM_PROFILE comes before what is saved.
Read(asked) == IF asked = None THEN default ELSE asked

StartRename(c, n, m, asked) ==
    /\ Renamable(n, m)
    /\ Begins(c, [Idle EXCEPT !.op = "rename", !.at = IF Seen(n) THEN "browser" ELSE "auth",
                              !.name = n, !.to = m, !.config = Read(asked),
                              !.asked = (asked # None)])

\* _move_dir: a directory that has appeared at the destination, if it is not an empty one,
\* makes the rename fail and shutil.move put the source into it.
Moved(dirs, n, m, no) ==
    IF dirs[m].there THEN [dirs EXCEPT ![n] = no] ELSE [dirs EXCEPT ![n] = no, ![m] = dirs[n]]

MoveBrowser(c) ==
    LET r == command[c]
    IN /\ At(c, "rename", "browser") /\ browser[r.name].there
       /\ browser' = Moved(browser, r.name, r.to, NoBrowser)
       /\ buried' = IF browser[r.to].there THEN buried \cup {<<"browser", r.name, r.to>>} ELSE buried
       /\ Enters(c, {r.name, r.to})
       /\ Goes(c, [r EXCEPT !.at = "auth", !.moved = {"browser"}])
       /\ Counts /\ UNCHANGED <<auth, default, behind, astray>>

MoveAuth(c) ==
    LET r == command[c]
    IN /\ At(c, "rename", "auth") /\ auth[r.name].there
       /\ auth' = Moved(auth, r.name, r.to, NoAuth)
       /\ buried' = IF auth[r.to].there THEN buried \cup {<<"auth", r.name, r.to>>} ELSE buried
       /\ Enters(c, {r.name, r.to})
       /\ IF r.config = r.name THEN Goes(c, [r EXCEPT !.at = "config", !.moved = @ \cup {"auth"}])
          ELSE Ends(c)
       \* the saved default is not the one that was read
       /\ astray' = (astray \/ (default = r.name /\ r.config # r.name))
       /\ behind' = IF snap /\ browser[r.to].there THEN behind \cup {r.to} ELSE behind
       /\ Counts /\ UNCHANGED <<browser, default>>

\* mutant: the default is left alone
MutantKeepsDefault(c, n) == default

\* save_config writes the default, unless NLM_PROFILE has given it.
Saved(c, n) == IF command[c].asked THEN default ELSE n

FollowDefault(c) ==
    /\ At(c, "rename", "config")
    /\ default' = Saved(c, command[c].to)
    /\ astray' = (astray \/ command[c].asked)
    /\ Ends(c)
    /\ Counts /\ UNCHANGED <<auth, browser, buried, raced, behind>>

\* A move or the write is refused, or what was to be moved is not there any more.
StepFails(c) ==
    LET r == command[c]
        gone == \/ r.at = "browser" /\ ~browser[r.name].there
                \/ r.at = "auth" /\ ~auth[r.name].there
    IN /\ r.op = "rename" /\ r.at \in {"browser", "auth", "config"}
       /\ gone \/ failures < MaxFailures
       /\ failures' = IF gone THEN failures ELSE failures + 1
       /\ To(c, "undo auth")
       /\ UNCHANGED <<snap, auth, browser, default, calls, crashes, buried, raced, behind, astray>>

\* The login is moved back unless there is one under the old name; that may fail as well.
UndoAuth(c) ==
    LET r == command[c]
    IN /\ At(c, "rename", "undo auth")
       /\ \/ /\ "auth" \in r.moved /\ auth[r.to].there /\ ~auth[r.name].there
             /\ auth' = Moved(auth, r.to, r.name, NoAuth)
             /\ Enters(c, {r.name, r.to})
             /\ UNCHANGED <<failures, astray>>
          \/ /\ "auth" \notin r.moved \/ ~auth[r.to].there \/ auth[r.name].there
             /\ UNCHANGED <<auth, raced, failures, astray>>
          \/ /\ "auth" \in r.moved /\ failures < MaxFailures
             /\ failures' = failures + 1
             /\ astray' = TRUE
             /\ UNCHANGED <<auth, raced>>
       /\ To(c, "undo browser")
       /\ UNCHANGED <<snap, browser, default, calls, crashes, buried, behind>>

UndoBrowser(c) ==
    LET r == command[c]
    IN /\ At(c, "rename", "undo browser")
       /\ \/ /\ "browser" \in r.moved /\ browser[r.to].there /\ ~browser[r.name].there
             /\ browser' = Moved(browser, r.to, r.name, NoBrowser)
             /\ Enters(c, {r.name, r.to})
             /\ UNCHANGED failures
          \/ /\ "browser" \notin r.moved \/ ~browser[r.to].there \/ browser[r.name].there
             /\ UNCHANGED <<browser, raced, failures>>
          \/ /\ "browser" \in r.moved /\ failures < MaxFailures
             /\ failures' = failures + 1
             /\ UNCHANGED <<browser, raced>>
       /\ Ends(c)
       /\ UNCHANGED <<snap, auth, default, calls, crashes, buried, behind, astray>>

-----------------------------------------------------------------------------
\* nlm login profile delete: asks, and removes the login but not the browser.

StartDelete(c, n) ==
    auth[n].there /\ Begins(c, [Idle EXCEPT !.op = "delete", !.at = "delete", !.name = n])

Delete(c) ==
    LET n == command[c].name
    IN /\ At(c, "delete", "delete")
       /\ auth' = [auth EXCEPT ![n] = NoAuth]
       /\ astray' = (astray \/ default = n)
       /\ Ends(c)
       /\ Counts /\ UNCHANGED <<browser, default, buried, raced, behind>>

-----------------------------------------------------------------------------
\* nlm login switch, the profile tool's make-default, and nlm config set, which writes
\* the default that it has read.  With NLM_PROFILE they leave it alone, and are left out.

StartSwitch(c, n) ==
    /\ auth[n].login # None
    /\ Begins(c, [Idle EXCEPT !.op = "config", !.at = "config", !.config = n])

StartConfig(c) == Begins(c, [Idle EXCEPT !.op = "config", !.at = "config", !.config = default])

WriteConfig(c) ==
    /\ At(c, "config", "config")
    /\ default' = Saved(c, command[c].config)
    /\ Ends(c)
    /\ Counts /\ UNCHANGED <<auth, browser, buried, raced, behind, astray>>

-----------------------------------------------------------------------------
Crash(c) ==
    /\ command[c].at # "idle" /\ crashes < MaxCrashes
    /\ crashes' = crashes + 1
    /\ astray' = (astray \/ command[c].op = "rename")
    /\ Ends(c)
    /\ UNCHANGED <<snap, auth, browser, default, calls, failures, buried, raced, behind>>

Next ==
    \E c \in Commands :
        \/ \E n \in Names :
             \/ \E protect, force \in BOOLEAN : StartLogin(c, n, protect, force)
             \/ StartRefresh(c, n) \/ StartDelete(c, n)
             \/ StartCheck(c, n) \/ StartHttp(c, n)
             \/ \E m \in Names \ {n} : \E asked \in {n, m, None} : StartRename(c, n, m, asked)
             \/ StartSwitch(c, n)
        \/ StartConfig(c)
        \/ Browse(c) \/ Cancel(c) \/ Mismatch(c) \/ SaveLogin(c) \/ SaveFails(c)
        \/ Extract(c) \/ SaveRefresh(c) \/ CheckSaves(c) \/ HttpSaves(c)
        \/ MoveBrowser(c) \/ MoveAuth(c) \/ FollowDefault(c) \/ StepFails(c)
        \/ UndoAuth(c) \/ UndoBrowser(c)
        \/ Delete(c) \/ WriteConfig(c) \/ Crash(c)

Spec == Init /\ [][Next]_vars

-----------------------------------------------------------------------------
\* Properties.

(* The login and the browser of a name are moved one after the other, left behind by    *)
(* deletions and crashes, moved back by failures, and saved back by checks.  Yet a      *)
(* name's browser is signed in with the account of its login, so that the next refresh  *)
(* does not replace the account, unless the user has signed in with another one in that *)
(* browser, a rename overlapped another command at the old or the new name, a login was *)
(* saved back over another one that neither its email nor its revision told of, or a    *)
(* rename gave the name a login where there was a snap browser.                         *)
MixedByRace == \A n \in Names : Agree(n) \/ browser[n].switched \/ n \in raced \cup behind

(* "A destination that already exists belongs to someone else, so refuse before moving   *)
(* anything" (auth_storage.py:617): not so for a snap browser.                          *)
PairsByRace == \A n \in Names : Agree(n) \/ browser[n].switched \/ n \in raced

(* No rename puts one profile into the directory of another, where no command finds it, *)
(* unless another command has worked there since the rename looked.                     *)
BuriedByRace == \A b \in buried : b[3] \in raced

(* The default names a profile with a login: a rename takes it along, and a failed one  *)
(* takes it back, unless the profile was deleted, the rename was killed, could not be   *)
(* undone or had its default from NLM_PROFILE, or commands that write it overlapped.    *)
DefaultFollows == auth[default].login # None \/ astray
               \/ \E c \in Commands : command[c].op = "rename"
=============================================================================
