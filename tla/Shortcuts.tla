------------------------------ MODULE Shortcuts ------------------------------
(***************************************************************************)
(* The management of shortcuts: the page turns it on and off for a game    *)
(* (src/steam.ts), the backend keeps a record of the original launch       *)
(* options (backend/internal/shortcuts/launch.go) in the configuration     *)
(* (backend/internal/config/store.go), and Steam holds the options.        *)
(*                                                                         *)
(* A toggle is a call of enableManagedGame or disableManagedGame; it is    *)
(* broken at each request, and the handler of a request where it leaves    *)
(* the store's mutex.  A page runs one toggle at a time, but one opened    *)
(* anew does not know of the toggle of the last.                           *)
(***************************************************************************)
EXTENDS LaunchOptions, FiniteSets

CONSTANTS
  Games,        \* applications
  Toggles,      \* bound: calls under way at a time
  Methods,      \* modes with their params
  Plain,        \* launch options that the user writes
  MaxToggles,   \* bound: calls
  MaxWrites,    \* bound: edits by the user
  MaxMoves,     \* bound: games removed from the library and added again
  MaxKills,     \* bound: ends of the backend
  FailingSaves, \* may the store fail to save?
  FailingSteam  \* may Steam refuse to set launch options?

VARIABLES
  memory,   \* the backend's configuration: the record of each game
  disk,     \* config.json
  up,       \* the backend process runs
  options,  \* Steam's launch options of each game
  library,  \* the games that Steam shows
  toggle,   \* what each call is at, and its local variables
  toggles, writes, moves, kills,
  written,  \* history: the options the user last wrote
  edited,   \* history: games whose options the user wrote while managed
  disturbed \* history: games whose toggle was cut off or overlapped, or whose
            \* record was deleted while they were missing

store == <<memory, disk, up>>
steam == <<options, library>>
counters == <<toggles, writes, moves, kills>>
wishes == <<written, edited, disturbed>>
shortcutVars == <<store, steam, toggle, counters, wishes>>

\* A record always has managed options.
Unmanaged == [original |-> <<>>, managed |-> <<>>]

ASSUME ShortcutAssumption ==
  /\ MaxToggles \in Nat /\ MaxWrites \in Nat /\ MaxMoves \in Nat /\ MaxKills \in Nat
  /\ FailingSaves \in BOOLEAN /\ FailingSteam \in BOOLEAN

ASSUME MethodsAssumption == \A m \in Methods : m.params \in Seq(STRING)

\* Nobody types the wrapper as the code writes it.
ASSUME PlainAssumption == Plain \subseteq Options /\ \A o \in Plain : ~Has(o, Wrapper)

\* The steps of a call, each before what it names: "check" and "put" in the
\* handler of enable, "set" in Steam, "undo" after a failed set; "read" the
\* configuration, "restore" in Steam, "find" and "delete" in the handler of
\* disable, "set_back" after a failed request.
EnableSteps == {"check", "put", "set"}
DisableSteps == {"read", "restore", "find", "delete", "set_back"}
Steps == EnableSteps \cup DisableSteps

\* Steps that wait for an answer of the backend.
AtBackend == {"check", "put", "read", "find", "delete"}

None == [step |-> "none"]
\* Its fields: then is what follows a failed request to disable.

Call(step, game, method, record, then) ==
  [step |-> step, game |-> game, method |-> method, record |-> record, then |-> then]

Under(g) == {t \in Toggles : toggle[t] # None /\ toggle[t].game = g}

IsManaged(g) == memory[g] # Unmanaged

ShortcutsInit ==
  /\ memory = [g \in Games |-> Unmanaged] /\ disk = memory /\ up = TRUE
  /\ options \in [Games -> Plain] /\ library = Games
  /\ toggle = [t \in Toggles |-> None]
  /\ toggles = 0 /\ writes = 0 /\ moves = 0 /\ kills = 0
  /\ written = options /\ edited = {} /\ disturbed = {}

At(t, step) == toggle[t].step = step

GoOn(t, step) == toggle' = [toggle EXCEPT ![t].step = step]

Stop(t) == toggle' = [toggle EXCEPT ![t] = None]

Begin(t, call) ==
  /\ toggle[t] = None /\ toggles < MaxToggles
  /\ toggles' = toggles + 1
  /\ toggle' = [toggle EXCEPT ![t] = call]
  /\ disturbed' = IF Under(call.game) = {} THEN disturbed ELSE disturbed \cup {call.game}
  /\ UNCHANGED <<store, steam, writes, moves, kills, written, edited>>

Fail(t) == IF toggle[t].then = "set_back" THEN GoOn(t, "set_back") ELSE Stop(t)

\* With the mutex held, memory is changed and saved; if saveLocked fails the file
\* is the old one, and the change is taken back.
Save(changed, done, failed) ==
  \/ memory' = changed /\ disk' = changed /\ done
  \/ FailingSaves /\ UNCHANGED <<memory, disk>> /\ failed

WithRecord(t) == [memory EXCEPT ![toggle[t].game] = toggle[t].record]

WithoutRecord(t) == [memory EXCEPT ![toggle[t].game] = Unmanaged]

-----------------------------------------------------------------------------
(* enableManagedGame.                                                      *)

\* The page shows the game as installed.  readLaunchValue.
BeginEnable(t, g, method) ==
  /\ up /\ g \in library
  /\ Begin(t, Call("check", g, method, [original |-> options[g], managed |-> <<>>], "stop"))

\* EnableWithMode as far as PutGame.  The mode may not be available.
CheckEnable(t) ==
  /\ up /\ At(t, "check")
  /\ LET c == toggle[t]
     IN  \/ Stop(t)
         \/ /\ ~IsManaged(c.game) /\ ~Refused(c.record.original, c.method)
            /\ toggle' = [toggle EXCEPT ![t].step = "put",
                            ![t].record.managed = Managed(c.record.original, c.method)]
  /\ UNCHANGED <<store, steam, counters, wishes>>

\* Mutant: the launch options go to Steam though the record is not saved.
PutUnchecked(t) ==
  /\ up /\ At(t, "put")
  /\ Save(WithRecord(t), GoOn(t, "set"), GoOn(t, "set"))
  /\ UNCHANGED <<up, steam, counters, wishes>>

PutGame(t) ==
  /\ up /\ At(t, "put")
  /\ Save(WithRecord(t), GoOn(t, "set"), Stop(t))
  /\ UNCHANGED <<up, steam, counters, wishes>>

\* setLaunchValue; if Steam does not take it, disableGame.
SetManaged(t) ==
  /\ At(t, "set")
  /\ LET c == toggle[t]
     IN  \/ options' = [options EXCEPT ![c.game] = c.record.managed] /\ Stop(t)
         \/ /\ FailingSteam /\ UNCHANGED options
            /\ IF up THEN GoOn(t, "find") ELSE Stop(t)
  /\ UNCHANGED <<store, library, counters, wishes>>

-----------------------------------------------------------------------------
(* disableManagedGame.                                                     *)

\* A game that Steam does not show is missing.
BeginDisable(t, g) ==
  /\ up
  /\ Begin(t, Call("read", g, <<>>, Unmanaged, IF g \in library THEN "set_back" ELSE "missing"))

\* Mutant: a game without a record is not noticed.
ReadAnything(t) ==
  /\ up /\ At(t, "read")
  /\ toggle' = [toggle EXCEPT ![t].record = memory[toggle[t].game],
                   ![t].step = IF toggle[t].then = "missing" THEN "find" ELSE "restore"]
  /\ UNCHANGED <<store, steam, counters, wishes>>

ReadConfiguration(t) ==
  /\ up /\ At(t, "read")
  /\ LET c == toggle[t]
     IN  IF ~IsManaged(c.game) THEN Stop(t)
         ELSE toggle' = [toggle EXCEPT ![t].record = memory[c.game],
                           ![t].step = IF c.then = "missing" THEN "find" ELSE "restore"]
  /\ UNCHANGED <<store, steam, counters, wishes>>

\* Mutant: it goes on though Steam did not take the options.
RestoreUnchecked(t) ==
  /\ At(t, "restore")
  /\ \/ options' = [options EXCEPT ![toggle[t].game] = toggle[t].record.original]
     \/ FailingSteam /\ UNCHANGED options
  /\ GoOn(t, IF up THEN "find" ELSE "set_back")
  /\ UNCHANGED <<store, library, counters, wishes>>

RestoreOptions(t) ==
  /\ At(t, "restore")
  /\ LET c == toggle[t]
     IN  \/ /\ options' = [options EXCEPT ![c.game] = c.record.original]
            /\ GoOn(t, IF up THEN "find" ELSE "set_back")
         \/ FailingSteam /\ UNCHANGED options /\ Stop(t)
  /\ UNCHANGED <<store, library, counters, wishes>>

\* Disable: is the game managed?
FindGame(t) ==
  /\ up /\ At(t, "find")
  /\ IF IsManaged(toggle[t].game) THEN GoOn(t, "delete") ELSE Fail(t)
  /\ UNCHANGED <<store, steam, counters, wishes>>

\* What a deleted record means for the history: the options of a missing game
\* stay as they are in Steam.
Forgotten(t) ==
  disturbed' = IF toggle[t].then = "missing" THEN disturbed \cup {toggle[t].game} ELSE disturbed

\* Mutant: the record that could not be deleted is gone from memory.
DeleteAnyway(t) ==
  /\ up /\ At(t, "delete")
  /\ memory' = WithoutRecord(t)
  /\ \/ disk' = memory' /\ Stop(t)
     \/ FailingSaves /\ disk' = disk /\ Fail(t)
  /\ Forgotten(t)
  /\ UNCHANGED <<up, steam, counters, written, edited>>

DeleteGame(t) ==
  /\ up /\ At(t, "delete")
  /\ Save(WithoutRecord(t), Stop(t), Fail(t))
  /\ Forgotten(t)
  /\ UNCHANGED <<up, steam, counters, written, edited>>

SetBack(t) ==
  /\ At(t, "set_back")
  /\ \/ options' = [options EXCEPT ![toggle[t].game] = toggle[t].record.managed]
     \/ FailingSteam /\ UNCHANGED options
  /\ Stop(t)
  /\ UNCHANGED <<store, library, counters, wishes>>

ToggleStep(t) ==
  /\ toggle[t] # None
  /\ \/ CheckEnable(t) \/ PutGame(t) \/ SetManaged(t)
     \/ ReadConfiguration(t) \/ RestoreOptions(t) \/ FindGame(t) \/ DeleteGame(t) \/ SetBack(t)

-----------------------------------------------------------------------------
(* The user, Steam and the plugin.                                         *)

\* The user writes the launch options in Steam.
WriteOptions(g) ==
  /\ writes < MaxWrites /\ writes' = writes + 1
  /\ \E o \in Plain \ {options[g]} :
       /\ options' = [options EXCEPT ![g] = o]
       /\ written' = [written EXCEPT ![g] = o]
  /\ edited' = IF disk[g] # Unmanaged \/ Under(g) # {} THEN edited \cup {g} ELSE edited
  /\ UNCHANGED <<store, library, toggle, toggles, moves, kills, disturbed>>

\* A game is uninstalled or hidden, and comes back; Steam keeps its options.
Move(g) ==
  /\ moves < MaxMoves /\ moves' = moves + 1
  /\ library' = IF g \in library THEN library \ {g} ELSE library \cup {g}
  /\ UNCHANGED <<store, options, toggle, toggles, writes, kills, wishes>>

\* The backend dies.  A save under way is on disk or not, and the calls that
\* wait for an answer fail.
KillStore ==
  /\ up /\ kills < MaxKills /\ kills' = kills + 1
  /\ up' = FALSE
  /\ memory' = [g \in Games |-> Unmanaged]
  /\ disk' \in {disk} \cup {WithRecord(t) : t \in {u \in Toggles : At(u, "put")}}
                   \cup {WithoutRecord(t) : t \in {u \in Toggles : At(u, "delete")}}
  /\ toggle' = [t \in Toggles |->
                  IF toggle[t].step \notin AtBackend THEN toggle[t]
                  ELSE IF toggle[t].step # "read" /\ toggle[t].then = "set_back"
                         THEN [toggle[t] EXCEPT !.step = "set_back"]
                         ELSE None]
  /\ disturbed' = disturbed \cup {toggle[t].game : t \in {u \in Toggles : toggle[u].step \in AtBackend}}
  /\ UNCHANGED <<steam, toggles, writes, moves, written, edited>>

\* Open, when Decky loads the plugin again.
StartStore ==
  /\ ~up /\ up' = TRUE
  /\ memory' = disk
  /\ UNCHANGED <<disk, steam, toggle, counters, wishes>>

ShortcutStep ==
  \/ \E t \in Toggles : ToggleStep(t)
  \/ \E t \in Toggles, g \in Games : BeginDisable(t, g) \/ \E c \in Methods : BeginEnable(t, g, c)
  \/ \E g \in Games : WriteOptions(g) \/ Move(g)

ShortcutsNext == ShortcutStep \/ KillStore \/ StartStore

ShortcutsSpec == ShortcutsInit /\ [][ShortcutsNext]_shortcutVars

-----------------------------------------------------------------------------
(* Properties.                                                             *)

\* Records and calls, as far as their fields go; a call writes launch options only
\* from a whole record.
ShortcutTypeOK ==
  /\ {memory, disk} \subseteq [Games -> [original : Options, managed : Options]]
  /\ up \in BOOLEAN /\ library \subseteq Games
  /\ {options, written} \subseteq [Games -> Options]
  /\ \A t \in Toggles :
       \/ toggle[t] = None
       \/ toggle[t].step \in Steps /\ toggle[t].game \in Games
          /\ toggle[t].then \in {"stop", "set_back", "missing"}
          /\ toggle[t].step \notin {"check", "read"} => toggle[t].record.managed # <<>>
  /\ edited \subseteq Games /\ disturbed \subseteq Games

\* No call for g is under way and the backend answers.
Settled(g) == up /\ Under(g) = {}

\* "Disabling restores the saved options": whichever request, save or call of
\* Steam fails, a game without a record has the options that the user wrote, and
\* one with a record has those options saved.  It may have the record alone, when the
\* call that failed could not be taken back.
OptionsFollowRecord ==
  \A g \in Games \ (disturbed \cup edited) : Settled(g) =>
    IF IsManaged(g)
    THEN memory[g].original = written[g] /\ options[g] \in {written[g], memory[g].managed}
    ELSE options[g] = written[g]

\* A game whose launch options start the wrapper can be turned off: it has a
\* record, whatever the user wrote meanwhile.
WrappedIsRecorded ==
  \A g \in Games \ disturbed : Settled(g) /\ Has(options[g], Wrapper) => IsManaged(g)

\* What the backend serves is what it would read after a restart, failed saves
\* included.
ServedIsSaved == up => memory = disk

\* The managed options start the original command with the original environment
\* and the params, each %command% behind the wrapper.
LaunchKept ==
  \A g \in Games : IsManaged(g) /\ ~Ambiguous(memory[g].original) =>
    StartsTheSame(memory[g].original, memory[g].managed)

\* "If a shortcut was changed [...], HV Launcher keeps the newer value": options
\* that the user wrote while the game was managed stay when it is turned off.
EditsAreKept ==
  \A g \in Games \ disturbed : Settled(g) /\ ~IsManaged(g) => options[g] = written[g]

\* "launch value already contains the HV Launcher wrapper": it is not put around
\* itself.
NeverNested == \A g \in Games : Wrappers(options[g]) <= 1

=============================================================================
