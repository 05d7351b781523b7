---------------------------- MODULE ServerProofs ----------------------------
(***************************************************************************)
(* Proofs about the server (Server): its capabilities are those of         *)
(* Capability, the limit on transitions holds for every window, and the    *)
(* launch options of every game follow its record and start what the       *)
(* user's started, for any number of games, calls and kills, and           *)
(* whichever save or call of Steam fails.                                  *)
(***************************************************************************)
EXTENDS Server, CapabilityProofs, LaunchOptionsProofs

(* Capabilities.                                                           *)

LEMMA ServerImplementsCapability ==
  ASSUME [ServerNext]_serverVars PROVE [CapabilityNext]_capabilityVars
<1>1. CASE Authorize \/ IssueCapability \/ Wait \/ KillServer \/ StartServer
  BY <1>1 DEF Authorize, IssueCapability, Wait, KillServer, StartServer, CapabilityNext
<1>2. CASE Manage \/ Limited \/ UNCHANGED serverVars
  BY <1>2 DEF Manage, Limited, serverVars
<1> QED
  BY <1>1, <1>2 DEF ServerNext

\* The process with its shortcuts and its limit, its kills and restarts, is a behaviour of
\* Capability, whose promises it thereby keeps.
THEOREM ServerRefinesCapability == ServerSpec => CapabilitySpec
<1>1. ServerInit => CapabilityInit
  BY DEF ServerInit
<1> QED
  BY <1>1, ServerImplementsCapability, PTL DEF ServerSpec, CapabilitySpec

\* AcceptedOnce, CapabilityTypeOK and GoodIsAccepted of the whole server.
THEOREM ServerCapabilities == ServerSpec => [](CapabilityTypeOK /\ AcceptedOnce) /\ GoodIsAccepted
  BY ServerRefinesCapability, CapabilityTypeCorrect, SingleUse, GoodCapabilityIsAccepted, PTL

-----------------------------------------------------------------------------
(* The limit on transitions.                                               *)

Between(S, from, to) == {a \in S : from <= a.at /\ a.at < to}

Since(S, from) == {a \in S : from <= a.at}

\* What was let through in this window is counted, the window before let no more through,
\* and between two windows lies at least the length of one.
LimiterInv ==
  /\ started \in Nat /\ started <= clock /\ count \in 0..Limit
  /\ IsFiniteSet(allowed)
  /\ \A a \in allowed : a.at \in Nat /\ a.at <= clock /\ a.at < started + Window
  /\ Cardinality(Since(allowed, started)) <= count
  /\ \A a \in allowed : a.at + Window > started => Cardinality(Between(allowed, a.at, started)) <= Limit
  /\ BurstsAreBounded

LEMMA LimiterInitially == ServerInit => LimiterInv
  BY LimiterAssumption, FS_EmptySet
  DEF ServerInit, CapabilityInit, LimiterInit, LimiterInv, Since, During, Between, BurstsAreBounded

\* A set of requests that are all among others.
LEMMA Fewer ==
  ASSUME NEW S, IsFiniteSet(S), NEW T, T \subseteq S
  PROVE  /\ IsFiniteSet(T) /\ Cardinality(T) \in Nat /\ Cardinality(S) \in Nat
         /\ Cardinality(T) <= Cardinality(S)
  BY FS_Subset, FS_CardinalityType

\* A request that is let through, in this window or the first of another.
LEMMA AllowKeeps == ASSUME LimiterInv, clock \in Nat, clock' = clock, Allow(clock) PROVE LimiterInv'
<1> DEFINE new == [at |-> clock, number |-> Cardinality(allowed)]
<1>1. /\ Limit \in Nat \ {0} /\ Window \in Nat \ {0} /\ started \in Nat /\ count \in 0..Limit
      /\ started <= clock /\ IsFiniteSet(allowed) /\ new.at = clock
      /\ \A x \in allowed : x.at \in Nat /\ x.at <= clock /\ x.at < started + Window
      /\ IsFiniteSet(Since(allowed, started))
  BY LimiterAssumption, Fewer DEF LimiterInv, Since
<1> HIDE DEF new
<1>2. CASE UNCHANGED <<started, allowed>> /\ count' = count
  BY <1>2 DEF LimiterInv, Since, During, Between, BurstsAreBounded
<1>3. ASSUME allowed' = allowed \cup {new}, started' \in {started, clock}, count' \in 1..Limit,
             clock < started' + Window,
             Cardinality(Since(allowed', started')) <= count',
             \A a \in allowed : a.at + Window > started' => Cardinality(Between(allowed, a.at, started')) <= Limit
      PROVE  LimiterInv'
  <2>1. /\ IsFiniteSet(allowed') /\ started' \in Nat /\ started' <= clock /\ started <= started'
        /\ \A x \in allowed' : x.at \in Nat /\ x.at <= clock /\ x.at < started' + Window
        /\ count' \in 0..Limit
    <3>1. IsFiniteSet(allowed \cup {new})
      BY <1>1, FS_AddElement
    <3>2. started' \in Nat /\ started' <= clock /\ started <= started' /\ count' \in 0..Limit
      BY <1>1, <1>3
    <3>3. \A x \in allowed : x.at \in Nat /\ x.at <= clock /\ x.at < started' + Window
      BY <1>1, <3>2
    <3>4. \A x \in allowed' : x.at \in Nat /\ x.at <= clock /\ x.at < started' + Window
      <4>1. new.at \in Nat /\ new.at <= clock /\ new.at < started' + Window
        <5>1. new.at = clock
          BY <1>1
        <5>2. clock < started' + Window
          BY <1>3
        <5> QED
          BY <5>1, <5>2
      <4> QED
        BY <1>3, <3>3, <4>1
    <3> QED
      BY <1>3, <3>1, <3>2, <3>4
  <2>2. \A from, to \in Int : to <= clock => Between(allowed', from, to) = Between(allowed, from, to)
    BY <1>1, <1>3 DEF Between
  <2>3. Between(allowed', clock, started') = {}
    BY <2>1 DEF Between
  <2>4. \A a \in allowed' : a.at + Window > started' => Cardinality(Between(allowed', a.at, started')) <= Limit
    <3> SUFFICES ASSUME NEW a \in allowed', a.at + Window > started'
                 PROVE  Cardinality(Between(allowed', a.at, started')) <= Limit
      OBVIOUS
    <3>1. CASE a \in allowed
      BY <1>3, <2>1, <2>2, <3>1
    <3>2. CASE a = new
      BY <1>1, <2>3, <3>2, FS_EmptySet
    <3> QED
      BY <1>3, <3>1, <3>2
  <2>5. /\ IsFiniteSet(Since(allowed', started')) /\ Cardinality(Since(allowed', started')) \in Nat
        /\ Cardinality(Since(allowed', started')) <= Limit
    BY <1>1, <1>3, <2>1, Fewer DEF Since
  <2>6. ASSUME NEW a \in allowed' PROVE Cardinality(Between(allowed', a.at, a.at + Window)) <= 2 * Limit
    <3> DEFINE burst == Between(allowed', a.at, a.at + Window)
               before == Between(allowed', a.at, started')
               after == Since(allowed', started')
    <3>1. burst = {x \in allowed' : a.at <= x.at /\ x.at < a.at + Window} /\ a.at \in Nat
      BY <2>1 DEF Between
    <3>2. CASE a.at >= started'
      <4>1. burst \subseteq after
        BY <2>1, <3>1, <3>2 DEF Since
      <4>2. Cardinality(burst) \in Nat /\ Cardinality(burst) <= Cardinality(after)
        BY <2>5, <4>1, Fewer
      <4> QED
        BY <1>1, <2>5, <4>2
    <3>3. CASE a.at < started' /\ a.at + Window > started'
      <4>1. burst \subseteq before \cup after
        BY <2>1, <3>1 DEF Between, Since
      <4>2. IsFiniteSet(before) /\ Cardinality(before) \in Nat /\ Cardinality(before) <= Limit
        BY <2>1, <2>4, <3>3, Fewer DEF Between
      <4>3. /\ IsFiniteSet(before \cup after) /\ Cardinality(before \cap after) \in Nat
            /\ Cardinality(before \cup after) = Cardinality(before) + Cardinality(after) - Cardinality(before \cap after)
        BY <2>5, <4>2, FS_Union, Fewer
      <4>4. Cardinality(burst) \in Nat /\ Cardinality(burst) <= Cardinality(before \cup after)
        BY <4>1, <4>3, Fewer
      <4>5. Cardinality(after) \in Nat /\ Cardinality(after) <= Limit
        BY <2>5
      <4> HIDE DEF burst, before, after
      <4>6. Cardinality(burst) <= 2 * Limit
        BY <1>1, <4>2, <4>3, <4>4, <4>5
      <4> QED
        BY <4>6 DEF burst
    <3>4. CASE a.at + Window <= started'
      <4>1. a \in allowed
        BY <1>1, <1>3, <2>1, <3>4
      <4>2. burst = Between(allowed, a.at, a.at + Window)
        BY <2>1, <2>2, <3>1, <3>4, <1>1
      <4>3. Cardinality(During(a.at, a.at + Window)) <= 2 * Limit
        BY <4>1 DEF LimiterInv, BurstsAreBounded
      <4>4. During(a.at, a.at + Window) = Between(allowed, a.at, a.at + Window)
        BY DEF During, Between
      <4> QED
        BY <4>2, <4>3, <4>4
    <3> QED
      BY <1>1, <2>1, <3>1, <3>2, <3>3, <3>4
  <2>7. BurstsAreBounded'
    BY <2>6 DEF BurstsAreBounded, During, Between
  <2> QED
    BY <1>3, <2>1, <2>4, <2>7 DEF LimiterInv
<1>4. CASE ~(clock - started >= Window) /\ count < Limit
  <2>1. started' = started /\ count' = count + 1 /\ allowed' = allowed \cup {new}
    BY <1>1, <1>4 DEF Allow, new
  <2>2. Cardinality(Since(allowed', started')) <= count'
    <3>1. Since(allowed', started') \subseteq Since(allowed, started) \cup {new}
      BY <2>1 DEF Since
    <3>2. Cardinality(Since(allowed, started)) \in Nat /\ Cardinality(Since(allowed, started)) <= count
      BY <1>1, FS_CardinalityType DEF LimiterInv
    <3>3. IsFiniteSet(Since(allowed, started) \cup {new}) /\ Cardinality(Since(allowed, started) \cup {new}) <= count + 1
      <4>1. /\ IsFiniteSet(Since(allowed, started) \cup {new})
            /\ Cardinality(Since(allowed, started) \cup {new})
                 = IF new \in Since(allowed, started) THEN Cardinality(Since(allowed, started))
                   ELSE Cardinality(Since(allowed, started)) + 1
        BY <1>1, FS_AddElement
      <4> QED
        BY <1>1, <3>2, <4>1
    <3>4. /\ Cardinality(Since(allowed', started')) \in Nat /\ Cardinality(Since(allowed, started) \cup {new}) \in Nat
          /\ Cardinality(Since(allowed', started')) <= Cardinality(Since(allowed, started) \cup {new})
      BY <3>1, <3>3, Fewer
    <3> QED
      BY <1>1, <2>1, <3>3, <3>4
  <2>3. \A a \in allowed : a.at + Window > started' => Cardinality(Between(allowed, a.at, started')) <= Limit
    BY <2>1 DEF LimiterInv
  <2>4. count' \in 1..Limit /\ clock < started' + Window
    BY <1>1, <1>4, <2>1
  <2> QED
    BY <1>3, <2>1, <2>2, <2>3, <2>4
<1>5. CASE clock - started >= Window
  <2>1. started' = clock /\ count' = 1 /\ allowed' = allowed \cup {new}
    BY <1>1, <1>5 DEF Allow, new
  <2>2. Cardinality(Since(allowed', started')) <= count'
    <3>1. Since(allowed', started') = {new}
      BY <1>1, <1>5, <2>1 DEF Since
    <3> QED
      <4>1. Cardinality({new}) = 1
        BY FS_Singleton
      <4> QED
        BY <2>1, <3>1, <4>1
  <2>3. ASSUME NEW a \in allowed, a.at + Window > started'
        PROVE  Cardinality(Between(allowed, a.at, started')) <= Limit
    <3>1. Between(allowed, a.at, started') \subseteq Since(allowed, started)
      BY <1>1, <1>5, <2>1, <2>3 DEF Between, Since
    <3>2. Cardinality(Between(allowed, a.at, started')) \in Nat /\ Cardinality(Between(allowed, a.at, started')) <= Cardinality(Since(allowed, started))
          /\ Cardinality(Since(allowed, started)) \in Nat
      BY <1>1, <3>1, Fewer
    <3>3. Cardinality(Since(allowed, started)) <= count
      BY DEF LimiterInv
    <3> QED
      BY <1>1, <3>2, <3>3
  <2> QED
    BY <1>1, <1>3, <2>1, <2>2, <2>3
<1>6. CASE ~(clock - started >= Window) /\ ~(count < Limit)
  <2>1. UNCHANGED <<started, allowed>> /\ count' = count
    BY <1>1, <1>6 DEF Allow
  <2> QED
    BY <1>2, <2>1
<1> QED
  BY <1>4, <1>5, <1>6

LEMMA LimiterInductive ==
  ASSUME CapabilityTypeOK, LimiterInv, [ServerNext]_serverVars PROVE LimiterInv'
<1>1. clock \in Nat
  BY DEF CapabilityTypeOK
<1>2. CASE Limited
  BY <1>1, <1>2, AllowKeeps DEF Limited, capabilityVars
<1>3. CASE StartServer
  <2>1. started' = clock /\ count' = 0 /\ allowed' = {} /\ clock' = clock
    BY <1>3 DEF StartServer, StartLimiter, StartVerifier
  <2> QED
    BY <1>1, <2>1, FS_EmptySet, LimiterAssumption DEF LimiterInv, Since, During, Between, BurstsAreBounded
<1>4. CASE UNCHANGED limiterVars /\ clock' \in {clock, clock + 1}
  BY <1>1, <1>4 DEF limiterVars, LimiterInv, Since, During, Between, BurstsAreBounded
<1>5. Manage \/ Authorize \/ IssueCapability \/ Wait \/ KillServer \/ UNCHANGED serverVars =>
        UNCHANGED limiterVars /\ clock' \in {clock, clock + 1}
  BY DEF Manage, Authorize, IssueCapability, Wait, KillServer, serverVars, capabilityVars, HandleCapability,
         RequestStep, Verify, ReadClock, Consume, Present, Issue, Tick, StopVerifier
<1> QED
  BY <1>2, <1>3, <1>4, <1>5 DEF ServerNext

\* The burst bound that follows from windows that do not overlap, for every limit and window.
THEOREM LimitHolds == ServerSpec => []BurstsAreBounded
<1>1. LimiterInv => BurstsAreBounded
  BY DEF LimiterInv
<1> QED
  BY <1>1, LimiterInitially, LimiterInductive, ServerCapabilities, PTL DEF ServerSpec

-----------------------------------------------------------------------------
(* Shortcuts.                                                              *)

\* Options that the user wrote, the last ones unless he edited them while the game was managed.
Clean(g, o) == ~Has(o, Wrapper) /\ (g \notin edited => o = written[g])

\* A game without a record has such options, and one with a record has them saved.
RecordOf(g) ==
  IF disk[g] = Unmanaged THEN Clean(g, options[g])
  ELSE /\ Clean(g, disk[g].original)
       /\ g \notin edited => options[g] \in {written[g], disk[g].managed}

RecordInv == \A g \in Games \ disturbed : RecordOf(g)

\* What a call knows at each step, if it is alone with its game.
Knows(t) ==
  LET c == toggle[t]
      clean == Clean(c.game, options[c.game])
      saved == Clean(c.game, c.record.original)
  IN  /\ c.step = "check" /\ disk[c.game] = Unmanaged => saved
      /\ c.step = "put" => disk[c.game] = Unmanaged /\ saved
      /\ c.step \in {"set", "set_back"} => disk[c.game] = c.record /\ clean /\ saved
      /\ c.step = "restore" => disk[c.game] = c.record /\ saved
      /\ c.step \in {"find", "delete"} =>
           disk[c.game] = c.record /\ (c.then # "missing" => clean /\ saved)

CallOK(c) ==
  /\ DOMAIN c = {"step", "game", "method", "record", "then"}
  /\ c.step \in Steps /\ c.game \in Games
  /\ c.then \in IF c.step \in EnableSteps THEN {"stop"}
                ELSE IF c.step \in {"restore", "set_back"} THEN {"set_back"}
                ELSE IF c.step = "read" THEN {"set_back", "missing"}
                ELSE {"stop", "set_back", "missing"}
  /\ c.step = "check" => DOMAIN c.record = {"original", "managed"}

CallsInv ==
  /\ \A t \in Toggles : toggle[t] # None =>
       CallOK(toggle[t]) /\ (toggle[t].game \notin disturbed => Knows(t))
  /\ \A t, u \in Toggles :
       toggle[t] # None /\ toggle[u] # None /\ toggle[t].game = toggle[u].game =>
         t = u \/ toggle[t].game \in disturbed

\* The variables are functions, and ServedIsSaved.
StoreInv ==
  /\ memory = [g \in Games |-> memory[g]] /\ disk = [g \in Games |-> disk[g]]
  /\ options = [g \in Games |-> options[g]] /\ written \in [Games -> Plain]
  /\ toggle = [t \in Toggles |-> toggle[t]]
  /\ up \in BOOLEAN /\ ServedIsSaved

ShortcutInv == StoreInv /\ RecordInv /\ CallsInv

LEMMA ShortcutsInitially == ShortcutsInit => ShortcutInv
<1> SUFFICES ASSUME ShortcutsInit PROVE ShortcutInv
  OBVIOUS
<1>1. /\ memory = [g \in Games |-> Unmanaged] /\ disk = memory /\ up = TRUE
      /\ options \in [Games -> Plain] /\ written = options /\ edited = {}
      /\ toggle = [t \in Toggles |-> None]
  BY DEF ShortcutsInit
<1>2. StoreInv
  BY <1>1 DEF StoreInv, ServedIsSaved
<1>3. RecordInv
  BY <1>1, PlainAssumption DEF RecordInv, RecordOf, Clean
<1>4. CallsInv
  BY <1>1 DEF CallsInv
<1> QED
  BY <1>2, <1>3, <1>4 DEF ShortcutInv

\* A call that is at a step, and what it knows.
LEMMA Active ==
  ASSUME ShortcutInv, NEW t \in Toggles, toggle[t].step \in Steps
  PROVE  /\ toggle[t] # None /\ CallOK(toggle[t]) /\ toggle[t].game \in Games
         /\ toggle[t].game \notin disturbed => Knows(t) /\ RecordOf(toggle[t].game)
<1>1. toggle[t] # None
  BY DEF None, Steps, EnableSteps, DisableSteps
<1> QED
  BY <1>1 DEF ShortcutInv, CallsInv, CallOK, RecordInv

\* Going on changes the step of the call alone.
LEMMA GoneOn ==
  ASSUME StoreInv, NEW t \in Toggles, CallOK(toggle[t]), NEW step, GoOn(t, step)
  PROVE  /\ toggle' = [toggle EXCEPT ![t] = toggle'[t]]
         /\ toggle'[t].step = step /\ DOMAIN toggle'[t] = DOMAIN toggle[t]
         /\ toggle'[t].game = toggle[t].game /\ toggle'[t].record = toggle[t].record
         /\ toggle'[t].then = toggle[t].then
<1>1. t \in DOMAIN toggle /\ toggle' = [toggle EXCEPT ![t] = [toggle[t] EXCEPT !.step = step]]
  BY DEF StoreInv, GoOn
<1>2. toggle'[t] = [toggle[t] EXCEPT !.step = step]
  BY <1>1
<1> QED
  BY <1>1, <1>2 DEF CallOK

LEMMA Stopped ==
  ASSUME StoreInv, NEW t \in Toggles, Stop(t)
  PROVE  toggle'[t] = None /\ toggle' = [toggle EXCEPT ![t] = toggle'[t]]
  BY DEF StoreInv, Stop

\* A step of one call is judged by what it leaves of its own game.
LEMMA OneGame ==
  ASSUME ShortcutInv, NEW t \in Toggles, NEW g \in Games, StoreInv',
         toggle' = [toggle EXCEPT ![t] = toggle'[t]],
         toggle'[t] = None \/ (CallOK(toggle'[t]) /\ toggle'[t].game = g),
         \/ toggle[t] # None /\ toggle[t].game = g
         \/ toggle[t] = None /\ (Under(g) = {} \/ g \in disturbed'),
         \A h \in Games \ {g} : disk'[h] = disk[h] /\ options'[h] = options[h],
         disturbed \subseteq disturbed', disturbed' \subseteq disturbed \cup {g},
         UNCHANGED <<written, edited>>,
         g \notin disturbed' => RecordOf(g)' /\ (toggle'[t] # None => Knows(t)')
  PROVE  ShortcutInv'
<1>1. /\ t \in DOMAIN toggle /\ \A u \in Toggles \ {t} : toggle'[u] = toggle[u]
      /\ \A h \in Games \ {g} : h \in disturbed' <=> h \in disturbed
  BY DEF ShortcutInv, StoreInv
<1>2. \A u \in Toggles \ {t} : toggle[u] # None /\ toggle[u].game = g => g \in disturbed'
  BY DEF ShortcutInv, CallsInv, Under
<1>3. RecordInv'
  <2> SUFFICES ASSUME NEW h \in Games, h \notin disturbed' PROVE RecordOf(h)'
    BY DEF RecordInv
  <2>1. CASE h = g
    BY <2>1
  <2>2. CASE h # g
    BY <1>1, <2>2 DEF ShortcutInv, RecordInv, RecordOf, Clean
  <2> QED
    BY <2>1, <2>2
<1>4. ASSUME NEW u \in Toggles, toggle'[u] # None
      PROVE  CallOK(toggle'[u]) /\ (toggle'[u].game \notin disturbed' => Knows(u)')
  <2>1. CASE u = t
    BY <1>4, <2>1
  <2>2. CASE u # t
    <3>1. toggle'[u] = toggle[u] /\ CallOK(toggle[u]) /\ toggle[u].game \in Games
      BY <1>1, <1>4, <2>2 DEF ShortcutInv, CallsInv, CallOK
    <3>2. CASE toggle[u].game = g
      BY <1>2, <1>4, <2>2, <3>1, <3>2
    <3>3. CASE toggle[u].game # g
      <4>1. toggle[u].game \notin disturbed => Knows(u)
        BY <1>4, <3>1 DEF ShortcutInv, CallsInv
      <4>2. Knows(u) => Knows(u)'
        <5>1. PICK h \in Games : h = toggle[u].game
          BY <3>1
        <5>2. disk'[h] = disk[h] /\ options'[h] = options[h]
          BY <3>3, <5>1
        <5> QED
          BY <3>1, <5>1, <5>2 DEF Knows, Clean
      <4> QED
        BY <1>1, <3>1, <3>3, <4>1, <4>2
    <3> QED
      BY <3>2, <3>3
  <2> QED
    BY <2>1, <2>2
<1>5. ASSUME NEW u \in Toggles, NEW v \in Toggles, toggle'[u] # None, toggle'[v] # None,
             toggle'[u].game = toggle'[v].game, u # v
      PROVE  toggle'[u].game \in disturbed'
  <2>1. CASE u # t /\ v # t
    BY <1>1, <1>5, <2>1 DEF ShortcutInv, CallsInv
  <2>2. CASE u = t \/ v = t
    BY <1>1, <1>2, <1>5, <2>2
  <2> QED
    BY <2>1, <2>2
<1>6. CallsInv'
  BY <1>4, <1>5 DEF CallsInv
<1> QED
  BY <1>3, <1>6 DEF ShortcutInv

(* The steps of enabling.                                                  *)

LEMMA BeginKeeps ==
  ASSUME ShortcutInv, NEW t \in Toggles, NEW g \in Games, NEW call, CallOK(call), call.game = g,
         call.step \in {"check", "read"}, call.step = "check" => call.record.original = options[g],
         Begin(t, call)
  PROVE  ShortcutInv'
<1>1. /\ toggle[t] = None /\ toggle' = [toggle EXCEPT ![t] = call]
      /\ disturbed' = IF Under(g) = {} THEN disturbed ELSE disturbed \cup {g}
      /\ UNCHANGED <<memory, disk, up, options, written, edited>>
  BY DEF Begin, store, steam
<1>2. toggle'[t] = call /\ toggle' = [toggle EXCEPT ![t] = toggle'[t]]
  BY <1>1 DEF ShortcutInv, StoreInv
<1>3. StoreInv'
  BY <1>1 DEF ShortcutInv, StoreInv, ServedIsSaved
<1>4. g \notin disturbed' => RecordOf(g) /\ RecordOf(g)'
  BY <1>1 DEF ShortcutInv, RecordInv, RecordOf, Clean
<1>5. g \notin disturbed' => Knows(t)'
  BY <1>1, <1>2, <1>4 DEF Knows, RecordOf, Clean
<1> QED
  BY <1>1, <1>2, <1>3, <1>4, <1>5, OneGame

LEMMA CheckKeeps == ASSUME ShortcutInv, NEW t \in Toggles, CheckEnable(t) PROVE ShortcutInv'
<1>0. PICK c, g : c = toggle[t] /\ g = c.game
  OBVIOUS
<1>1. /\ up /\ c.step = "check" /\ UNCHANGED <<memory, disk, up, options, written, edited, disturbed>>
      /\ \/ Stop(t)
         \/ /\ memory[g] = Unmanaged
            /\ toggle' = [toggle EXCEPT ![t].step = "put", ![t].record.managed = Managed(c.record.original, c.method)]
  BY <1>0 DEF CheckEnable, At, IsManaged, store, steam, wishes
<1>2. c # None /\ CallOK(c) /\ g \in Games /\ (g \notin disturbed => Knows(t) /\ RecordOf(g))
  BY <1>0, <1>1, Active DEF Steps, EnableSteps
<1>3. StoreInv'
  <2>1. CASE Stop(t)
    BY <1>0, <1>1, <2>1 DEF ShortcutInv, StoreInv, ServedIsSaved, Stop
  <2>2. CASE toggle' = [toggle EXCEPT ![t].step = "put", ![t].record.managed = Managed(c.record.original, c.method)]
    BY <1>0, <1>1, <2>2 DEF ShortcutInv, StoreInv, ServedIsSaved
  <2> QED
    BY <1>0, <1>1, <2>1, <2>2
<1>4. g \notin disturbed' => RecordOf(g)'
  BY <1>0, <1>1, <1>2 DEF RecordOf, Clean
<1>5. CASE Stop(t)
  <2>1. toggle'[t] = None /\ toggle' = [toggle EXCEPT ![t] = toggle'[t]]
    BY <1>0, <1>5, Stopped DEF ShortcutInv
  <2> QED
    BY <1>0, <1>1, <1>2, <1>3, <1>4, <2>1, OneGame
<1>6. CASE /\ memory[g] = Unmanaged
           /\ toggle' = [toggle EXCEPT ![t].step = "put", ![t].record.managed = Managed(c.record.original, c.method)]
  <2>1. t \in DOMAIN toggle /\ {"step", "record", "game", "then"} \subseteq DOMAIN c /\ "original" \in DOMAIN c.record
    BY <1>0, <1>1, <1>2 DEF ShortcutInv, StoreInv, CallOK
  <2>2. /\ toggle' = [toggle EXCEPT ![t] = toggle'[t]]
        /\ toggle'[t].step = "put" /\ DOMAIN toggle'[t] = DOMAIN c /\ toggle'[t].game = g
        /\ toggle'[t].then = c.then /\ toggle'[t].record.original = c.record.original
    BY <1>0, <1>6, <2>1
  <2>3. CallOK(toggle'[t])
    BY <1>0, <1>1, <1>2, <2>2 DEF CallOK, Steps, EnableSteps
  <2>4. g \notin disturbed' => Knows(t)'
    <3>1. disk[g] = Unmanaged /\ disk' = disk /\ options' = options
      BY <1>1, <1>6 DEF ShortcutInv, StoreInv, ServedIsSaved
    <3>2. g \notin disturbed' => Clean(g, c.record.original)
      BY <1>0, <1>1, <1>2, <3>1 DEF Knows
    <3>3. Clean(g, c.record.original) => Clean(g, c.record.original)'
      BY <1>1 DEF Clean
    <3> QED
      BY <2>2, <3>1, <3>2, <3>3 DEF Knows, Clean
  <2> QED
    BY <1>0, <1>1, <1>2, <1>3, <1>4, <2>2, <2>3, <2>4, OneGame
<1> QED
  BY <1>0, <1>1, <1>5, <1>6

LEMMA PutKeeps == ASSUME ShortcutInv, NEW t \in Toggles, PutGame(t) PROVE ShortcutInv'
<1>0. PICK c, g : c = toggle[t] /\ g = c.game
  OBVIOUS
<1>1. /\ up /\ c.step = "put" /\ UNCHANGED <<up, options, written, edited, disturbed>>
      /\ \/ memory' = WithRecord(t) /\ disk' = WithRecord(t) /\ GoOn(t, "set")
         \/ UNCHANGED <<memory, disk>> /\ Stop(t)
  BY <1>0 DEF PutGame, Save, At, steam, wishes
<1>2. c # None /\ CallOK(c) /\ g \in Games /\ (g \notin disturbed => Knows(t) /\ RecordOf(g))
  BY <1>0, <1>1, Active DEF Steps, EnableSteps
<1>3. StoreInv'
  BY <1>0, <1>1, <1>2 DEF ShortcutInv, StoreInv, ServedIsSaved, Stop, GoOn, WithRecord
<1>4. CASE UNCHANGED <<memory, disk>> /\ Stop(t)
  <2>1. toggle'[t] = None /\ toggle' = [toggle EXCEPT ![t] = toggle'[t]]
    BY <1>0, <1>4, Stopped DEF ShortcutInv
  <2>2. g \notin disturbed' => RecordOf(g)'
    BY <1>0, <1>1, <1>2, <1>4 DEF RecordOf, Clean
  <2> QED
    BY <1>0, <1>1, <1>2, <1>3, <1>4, <2>1, <2>2, OneGame
<1>5. CASE memory' = WithRecord(t) /\ disk' = WithRecord(t) /\ GoOn(t, "set")
  <2>1. /\ toggle' = [toggle EXCEPT ![t] = toggle'[t]]
        /\ toggle'[t].step = "set" /\ DOMAIN toggle'[t] = DOMAIN c
        /\ toggle'[t].game = g /\ toggle'[t].record = c.record /\ toggle'[t].then = c.then
    BY <1>0, <1>2, <1>5, GoneOn DEF ShortcutInv
  <2>2. CallOK(toggle'[t])
    BY <1>0, <1>1, <1>2, <2>1 DEF CallOK, Steps, EnableSteps
  <2>3. disk'[g] = c.record /\ \A h \in Games \ {g} : disk'[h] = disk[h]
    BY <1>0, <1>1, <1>2, <1>5 DEF ShortcutInv, StoreInv, ServedIsSaved, WithRecord
  <2>4. g \notin disturbed' => RecordOf(g)' /\ Knows(t)'
    BY <1>0, <1>1, <1>2, <2>1, <2>3 DEF Knows, RecordOf, Clean
  <2> QED
    BY <1>0, <1>1, <1>2, <1>3, <2>1, <2>2, <2>3, <2>4, OneGame
<1> QED
  BY <1>0, <1>1, <1>4, <1>5

\* Steam takes launch options, or refuses them.
LEMMA SteamKeeps ==
  ASSUME ShortcutInv, NEW t \in Toggles, SetManaged(t) \/ RestoreOptions(t) \/ SetBack(t) PROVE ShortcutInv'
<1>0. PICK c, g : c = toggle[t] /\ g = c.game
  OBVIOUS
<1>1. /\ c.step \in {"set", "restore", "set_back"} /\ UNCHANGED <<memory, disk, up, written, edited, disturbed>>
      /\ \/ c.step # "restore" /\ options' = [options EXCEPT ![g] = c.record.managed] /\ Stop(t)
         \/ c.step = "set" /\ UNCHANGED options /\ GoOn(t, "find")
         \/ c.step = "restore" /\ options' = [options EXCEPT ![g] = c.record.original] /\ GoOn(t, "find")
         \/ c.step = "restore" /\ options' = [options EXCEPT ![g] = c.record.original] /\ GoOn(t, "set_back")
         \/ UNCHANGED options /\ Stop(t)
  BY <1>0 DEF SetManaged, RestoreOptions, SetBack, At, store, wishes
<1>2. c # None /\ CallOK(c) /\ g \in Games /\ (g \notin disturbed => Knows(t) /\ RecordOf(g))
  BY <1>0, <1>1, Active DEF Steps, EnableSteps, DisableSteps
<1>3. StoreInv'
  BY <1>0, <1>1, <1>2 DEF ShortcutInv, StoreInv, ServedIsSaved, Stop, GoOn
<1>4. /\ \A h \in Games \ {g} : disk'[h] = disk[h] /\ options'[h] = options[h]
      /\ options'[g] = options[g] \/ options'[g] \in {c.record.managed, c.record.original}
  BY <1>0, <1>1, <1>2 DEF ShortcutInv, StoreInv
<1>5. g \in DOMAIN options
  BY <1>0, <1>2 DEF ShortcutInv, StoreInv
<1>6. ASSUME Stop(t), options' = options \/ (c.step # "restore" /\ options' = [options EXCEPT ![g] = c.record.managed])
      PROVE  ShortcutInv'
  <2>1. toggle'[t] = None /\ toggle' = [toggle EXCEPT ![t] = toggle'[t]]
    BY <1>0, <1>6, Stopped DEF ShortcutInv
  <2>2. g \notin disturbed' => RecordOf(g)'
    <3> SUFFICES ASSUME g \notin disturbed PROVE RecordOf(g)'
      BY <1>0, <1>1
    <3>1. CASE options' = options
      BY <1>0, <1>1, <1>2, <3>1 DEF RecordOf, Clean
    <3>2. CASE c.step # "restore" /\ options'[g] = c.record.managed
      <4>1. disk[g] = c.record /\ Clean(g, c.record.original)
        BY <1>0, <1>1, <1>2, <3>2 DEF Knows
      <4>2. disk[g] = Unmanaged => c.record.managed = c.record.original
        BY <4>1 DEF Unmanaged
      <4> QED
        BY <1>0, <1>1, <3>2, <4>1, <4>2 DEF RecordOf, Clean
    <3> QED
      BY <1>0, <1>5, <1>6, <3>1, <3>2
  <2> QED
    BY <1>0, <1>1, <1>2, <1>3, <1>4, <2>1, <2>2, OneGame
<1>7. ASSUME NEW step \in {"find", "set_back"}, GoOn(t, step), step = "set_back" => c.step = "restore",
             \/ c.step = "set" /\ options'[g] = options[g]
             \/ c.step = "restore" /\ options'[g] = c.record.original
      PROVE  ShortcutInv'
  <2>1. /\ toggle' = [toggle EXCEPT ![t] = toggle'[t]]
        /\ toggle'[t].step = step /\ DOMAIN toggle'[t] = DOMAIN c
        /\ toggle'[t].game = g /\ toggle'[t].record = c.record /\ toggle'[t].then = c.then
    BY <1>0, <1>2, <1>7, GoneOn DEF ShortcutInv
  <2>2. CallOK(toggle'[t])
    BY <1>0, <1>2, <1>7, <2>1 DEF CallOK, Steps, EnableSteps, DisableSteps
  <2>3. g \notin disturbed' => RecordOf(g)' /\ Knows(t)'
    <3> SUFFICES ASSUME g \notin disturbed PROVE RecordOf(g)' /\ Knows(t)'
      BY <1>0, <1>1
    <3>1. disk[g] = c.record /\ Clean(g, c.record.original) /\ Clean(g, options'[g])
      BY <1>0, <1>2, <1>7 DEF Knows
    <3>2. disk'[g] = c.record /\ Clean(g, c.record.original)' /\ Clean(g, options[g])'
      BY <1>0, <1>1, <3>1 DEF Clean
    <3>3. RecordOf(g)'
      BY <1>0, <3>2 DEF RecordOf, Clean
    <3>4. Knows(t)'
      BY <1>0, <1>7, <2>1, <3>2 DEF Knows, Clean
    <3> QED
      BY <3>3, <3>4
  <2> QED
    BY <1>0, <1>1, <1>2, <1>3, <1>4, <2>1, <2>2, <2>3, OneGame
<1> QED
  BY <1>0, <1>1, <1>5, <1>6, <1>7

(* The steps of disabling.                                                 *)

LEMMA ReadKeeps == ASSUME ShortcutInv, NEW t \in Toggles, ReadConfiguration(t) PROVE ShortcutInv'
<1>0. PICK c, g : c = toggle[t] /\ g = c.game
  OBVIOUS
<1>1. /\ up /\ c.step = "read" /\ UNCHANGED <<memory, disk, up, options, written, edited, disturbed>>
      /\ \/ Stop(t)
         \/ /\ memory[g] # Unmanaged
            /\ toggle' = [toggle EXCEPT ![t].record = memory[g],
                            ![t].step = IF c.then = "missing" THEN "find" ELSE "restore"]
  BY <1>0 DEF ReadConfiguration, At, IsManaged, store, steam, wishes
<1>2. c # None /\ CallOK(c) /\ g \in Games /\ (g \notin disturbed => RecordOf(g))
  BY <1>0, <1>1, Active DEF Steps, DisableSteps
<1>3. StoreInv'
  <2>1. CASE Stop(t)
    BY <1>1, <2>1 DEF ShortcutInv, StoreInv, ServedIsSaved, Stop
  <2>2. CASE toggle' = [toggle EXCEPT ![t].record = memory[g],
                          ![t].step = IF c.then = "missing" THEN "find" ELSE "restore"]
    BY <1>1, <2>2 DEF ShortcutInv, StoreInv, ServedIsSaved
  <2> QED
    BY <1>1, <2>1, <2>2
<1>4. g \notin disturbed' => RecordOf(g)'
  BY <1>1, <1>2 DEF RecordOf, Clean
<1>5. CASE Stop(t)
  <2>1. toggle'[t] = None /\ toggle' = [toggle EXCEPT ![t] = toggle'[t]]
    BY <1>5, Stopped DEF ShortcutInv
  <2> QED
    BY <1>0, <1>1, <1>2, <1>3, <1>4, <2>1, OneGame
<1>6. CASE /\ memory[g] # Unmanaged
           /\ toggle' = [toggle EXCEPT ![t].record = memory[g],
                           ![t].step = IF c.then = "missing" THEN "find" ELSE "restore"]
  <2>1. t \in DOMAIN toggle /\ {"step", "record", "game", "then"} \subseteq DOMAIN c
    BY <1>0, <1>2 DEF ShortcutInv, StoreInv, CallOK
  <2>2. /\ toggle' = [toggle EXCEPT ![t] = toggle'[t]]
        /\ toggle'[t].step = IF c.then = "missing" THEN "find" ELSE "restore"
        /\ DOMAIN toggle'[t] = DOMAIN c /\ toggle'[t].game = g
        /\ toggle'[t].then = c.then /\ toggle'[t].record = memory[g]
    BY <1>0, <1>6, <2>1
  <2>3. CallOK(toggle'[t])
    BY <1>1, <1>2, <2>2 DEF CallOK, Steps, EnableSteps, DisableSteps
  <2>4. g \notin disturbed' => Knows(t)'
    <3>1. disk[g] = memory[g] /\ disk' = disk /\ options' = options
      BY <1>1 DEF ShortcutInv, StoreInv, ServedIsSaved
    <3> QED
      BY <1>1, <1>2, <1>6, <2>2, <3>1 DEF Knows, RecordOf, Clean
  <2> QED
    BY <1>0, <1>1, <1>2, <1>3, <1>4, <2>2, <2>3, <2>4, OneGame
<1> QED
  BY <1>1, <1>5, <1>6

\* A failed request to disable stops the call, or makes it put the managed options back.
LEMMA FailKeeps ==
  ASSUME ShortcutInv, NEW t \in Toggles, toggle[t].step \in {"find", "delete"}, Fail(t),
         UNCHANGED <<memory, disk, up, options, written, edited>>,
         disturbed \subseteq disturbed', disturbed' \subseteq disturbed \cup {toggle[t].game}
  PROVE  ShortcutInv'
<1>0. PICK c, g : c = toggle[t] /\ g = c.game
  OBVIOUS
<1>2. c # None /\ CallOK(c) /\ g \in Games /\ (g \notin disturbed => Knows(t) /\ RecordOf(g))
  BY <1>0, Active DEF Steps, DisableSteps
<1>3. StoreInv'
  BY DEF ShortcutInv, StoreInv, ServedIsSaved, Fail, Stop, GoOn
<1>4. g \notin disturbed' => RecordOf(g)'
  BY <1>2 DEF RecordOf, Clean
<1>5. CASE Stop(t)
  <2>1. toggle'[t] = None /\ toggle' = [toggle EXCEPT ![t] = toggle'[t]]
    BY <1>5, Stopped DEF ShortcutInv
  <2> QED
    BY <1>0, <1>2, <1>3, <1>4, <2>1, OneGame
<1>6. CASE c.then = "set_back" /\ GoOn(t, "set_back")
  <2>1. /\ toggle' = [toggle EXCEPT ![t] = toggle'[t]]
        /\ toggle'[t].step = "set_back" /\ DOMAIN toggle'[t] = DOMAIN c
        /\ toggle'[t].game = g /\ toggle'[t].record = c.record /\ toggle'[t].then = c.then
    BY <1>0, <1>2, <1>6, GoneOn DEF ShortcutInv
  <2>2. CallOK(toggle'[t])
    BY <1>2, <1>6, <2>1 DEF CallOK, Steps, EnableSteps, DisableSteps
  <2>3. g \notin disturbed' => Knows(t)'
    BY <1>0, <1>2, <1>6, <2>1 DEF Knows, Clean
  <2> QED
    BY <1>0, <1>2, <1>3, <1>4, <2>1, <2>2, <2>3, OneGame
<1> QED
  BY <1>0, <1>5, <1>6 DEF Fail

LEMMA FindKeeps == ASSUME ShortcutInv, NEW t \in Toggles, FindGame(t) PROVE ShortcutInv'
<1>0. PICK c, g : c = toggle[t] /\ g = c.game
  OBVIOUS
<1>1. /\ c.step = "find" /\ UNCHANGED <<memory, disk, up, options, written, edited, disturbed>>
      /\ GoOn(t, "delete") \/ Fail(t)
  BY <1>0 DEF FindGame, At, store, steam, wishes
<1>2. c # None /\ CallOK(c) /\ g \in Games /\ (g \notin disturbed => Knows(t) /\ RecordOf(g))
  BY <1>0, <1>1, Active DEF Steps, DisableSteps
<1>3. CASE GoOn(t, "delete")
  <2>1. /\ toggle' = [toggle EXCEPT ![t] = toggle'[t]]
        /\ toggle'[t].step = "delete" /\ DOMAIN toggle'[t] = DOMAIN c
        /\ toggle'[t].game = g /\ toggle'[t].record = c.record /\ toggle'[t].then = c.then
    BY <1>0, <1>2, <1>3, GoneOn DEF ShortcutInv
  <2>2. StoreInv'
    BY <1>1, <1>3 DEF ShortcutInv, StoreInv, ServedIsSaved, GoOn
  <2>3. CallOK(toggle'[t])
    BY <1>1, <1>2, <2>1 DEF CallOK, Steps, EnableSteps, DisableSteps
  <2>4. g \notin disturbed' => RecordOf(g)' /\ Knows(t)'
    BY <1>0, <1>1, <1>2, <2>1 DEF Knows, RecordOf, Clean
  <2> QED
    BY <1>0, <1>1, <1>2, <2>1, <2>2, <2>3, <2>4, OneGame
<1>4. CASE Fail(t)
  BY <1>0, <1>1, <1>4, FailKeeps
<1> QED
  BY <1>1, <1>3, <1>4

LEMMA DeleteKeeps == ASSUME ShortcutInv, NEW t \in Toggles, DeleteGame(t) PROVE ShortcutInv'
<1>0. PICK c, g : c = toggle[t] /\ g = c.game
  OBVIOUS
<1>1. /\ up /\ c.step = "delete" /\ UNCHANGED <<up, options, written, edited>>
      /\ disturbed' = IF c.then = "missing" THEN disturbed \cup {g} ELSE disturbed
      /\ \/ memory' = WithoutRecord(t) /\ disk' = WithoutRecord(t) /\ Stop(t)
         \/ UNCHANGED <<memory, disk>> /\ Fail(t)
  BY <1>0 DEF DeleteGame, Save, Forgotten, At, steam, wishes
<1>2. c # None /\ CallOK(c) /\ g \in Games /\ (g \notin disturbed => Knows(t) /\ RecordOf(g))
  BY <1>0, <1>1, Active DEF Steps, DisableSteps
<1>3. CASE UNCHANGED <<memory, disk>> /\ Fail(t)
  BY <1>0, <1>1, <1>3, FailKeeps
<1>4. CASE memory' = WithoutRecord(t) /\ disk' = WithoutRecord(t) /\ Stop(t)
  <2>1. toggle'[t] = None /\ toggle' = [toggle EXCEPT ![t] = toggle'[t]]
    BY <1>4, Stopped DEF ShortcutInv
  <2>2. StoreInv'
    BY <1>1, <1>4 DEF ShortcutInv, StoreInv, ServedIsSaved, Stop, WithoutRecord
  <2>3. disk'[g] = Unmanaged /\ \A h \in Games \ {g} : disk'[h] = disk[h]
    BY <1>0, <1>1, <1>2, <1>4 DEF ShortcutInv, StoreInv, ServedIsSaved, WithoutRecord
  <2>4. g \notin disturbed' => RecordOf(g)'
    BY <1>0, <1>1, <1>2, <2>3 DEF Knows, RecordOf, Clean, Unmanaged
  <2> QED
    BY <1>0, <1>1, <1>2, <2>1, <2>2, <2>3, <2>4, OneGame
<1> QED
  BY <1>1, <1>3, <1>4

(* The user, kills and restarts.                                           *)

LEMMA WriteKeeps == ASSUME ShortcutInv, NEW g \in Games, WriteOptions(g) PROVE ShortcutInv'
<1>1. PICK o \in Plain : options' = [options EXCEPT ![g] = o] /\ written' = [written EXCEPT ![g] = o]
  BY DEF WriteOptions
<1>2. /\ UNCHANGED <<memory, disk, up, toggle, disturbed>>
      /\ edited' = IF disk[g] # Unmanaged \/ Under(g) # {} THEN edited \cup {g} ELSE edited
  BY DEF WriteOptions, store
<1>3. /\ options'[g] = o /\ written'[g] = o /\ ~Has(o, Wrapper)
      /\ \A h \in Games \ {g} :
           options'[h] = options[h] /\ written'[h] = written[h] /\ (h \in edited' <=> h \in edited)
  BY <1>1, <1>2, PlainAssumption DEF ShortcutInv, StoreInv
<1>4. StoreInv'
  BY <1>1, <1>2 DEF ShortcutInv, StoreInv, ServedIsSaved
<1>5. ASSUME NEW h \in Games, h \notin disturbed PROVE RecordOf(h)'
  <2>1. RecordOf(h)
    BY <1>5 DEF ShortcutInv, RecordInv
  <2>2. CASE h = g
    BY <1>2, <1>3, <2>1, <2>2 DEF RecordOf, Clean
  <2>3. CASE h # g
    BY <1>2, <1>3, <2>1, <2>3 DEF RecordOf, Clean
  <2> QED
    BY <2>2, <2>3
<1>6. ASSUME NEW t \in Toggles, toggle[t] # None, toggle[t].game \notin disturbed PROVE Knows(t)'
  <2>1. Knows(t) /\ toggle[t].game \in Games
    BY <1>6 DEF ShortcutInv, CallsInv, CallOK
  <2>2. CASE toggle[t].game = g
    <3>1. g \in edited'
      BY <1>2, <1>6, <2>2 DEF Under
    <3> QED
      BY <1>2, <1>3, <2>1, <2>2, <3>1 DEF Knows, Clean
  <2>3. CASE toggle[t].game # g
    BY <1>2, <1>3, <2>1, <2>3 DEF Knows, Clean
  <2> QED
    BY <2>2, <2>3
<1>7. RecordInv'
  BY <1>2, <1>5 DEF RecordInv
<1>8. CallsInv'
  BY <1>2, <1>6 DEF ShortcutInv, CallsInv
<1> QED
  BY <1>4, <1>7, <1>8 DEF ShortcutInv

\* The games whose requests the kill cut off are disturbed; of the others it leaves the
\* record and the call.
LEMMA KillKeeps == ASSUME ShortcutInv, KillStore PROVE ShortcutInv'
<1>1. /\ up' = FALSE /\ memory' = [g \in Games |-> Unmanaged] /\ UNCHANGED <<options, written, edited>>
      /\ \/ disk' = disk
         \/ \E t \in Toggles : At(t, "put") /\ disk' = WithRecord(t)
         \/ \E t \in Toggles : At(t, "delete") /\ disk' = WithoutRecord(t)
      /\ disturbed' = disturbed \cup {toggle[t].game : t \in {u \in Toggles : toggle[u].step \in AtBackend}}
  BY DEF KillStore, steam
<1>2. ASSUME NEW t \in Toggles
      PROVE  \/ toggle[t].step \notin AtBackend /\ toggle'[t] = toggle[t]
             \/ toggle[t].step \in AtBackend /\ toggle'[t] = None
             \/ /\ toggle[t].step \in AtBackend \ {"read"} /\ toggle[t].then = "set_back"
                /\ toggle'[t] = [toggle[t] EXCEPT !.step = "set_back"]
  BY DEF KillStore
<1>3. ASSUME NEW t \in Toggles, toggle[t].step \in AtBackend
      PROVE  toggle[t] # None /\ CallOK(toggle[t]) /\ toggle[t].game \in Games /\ toggle[t].game \in disturbed'
  BY <1>1, <1>3, Active DEF AtBackend, Steps, EnableSteps, DisableSteps
<1>4. ASSUME NEW h \in Games, h \notin disturbed' PROVE disk'[h] = disk[h]
  <2>1. ASSUME NEW t \in Toggles, At(t, "put"), disk' = WithRecord(t) PROVE disk'[h] = disk[h]
    <3>1. toggle[t].game # h /\ up
      BY <1>3, <1>4, <2>1 DEF At, AtBackend, KillStore
    <3> QED
      BY <2>1, <3>1 DEF WithRecord, ShortcutInv, StoreInv, ServedIsSaved
  <2>2. ASSUME NEW t \in Toggles, At(t, "delete"), disk' = WithoutRecord(t) PROVE disk'[h] = disk[h]
    <3>1. toggle[t].game # h /\ up
      BY <1>3, <1>4, <2>2 DEF At, AtBackend, KillStore
    <3> QED
      BY <2>2, <3>1 DEF WithoutRecord, ShortcutInv, StoreInv, ServedIsSaved
  <2> QED
    BY <1>1, <2>1, <2>2
<1>5. StoreInv'
  <2>1. disk' = [g \in Games |-> disk'[g]]
    BY <1>1 DEF WithRecord, WithoutRecord, ShortcutInv, StoreInv
  <2>2. toggle' = [t \in Toggles |-> toggle'[t]]
    BY DEF KillStore
  <2> QED
    BY <1>1, <2>1, <2>2 DEF ShortcutInv, StoreInv, ServedIsSaved
<1>6. RecordInv'
  <2> SUFFICES ASSUME NEW h \in Games, h \notin disturbed' PROVE RecordOf(h)'
    BY DEF RecordInv
  <2>1. RecordOf(h) /\ disk'[h] = disk[h]
    BY <1>1, <1>4 DEF ShortcutInv, RecordInv
  <2> QED
    BY <1>1, <2>1 DEF RecordOf, Clean
<1>7. ASSUME NEW t \in Toggles, toggle'[t] # None
      PROVE  /\ toggle[t] # None /\ toggle'[t].game = toggle[t].game /\ CallOK(toggle'[t])
             /\ toggle[t].game \in disturbed' \/ toggle'[t] = toggle[t]
  <2>1. CASE toggle[t].step \notin AtBackend /\ toggle'[t] = toggle[t]
    BY <1>7, <2>1 DEF ShortcutInv, CallsInv
  <2>2. CASE /\ toggle[t].step \in AtBackend \ {"read"} /\ toggle[t].then = "set_back"
             /\ toggle'[t] = [toggle[t] EXCEPT !.step = "set_back"]
    <3>1. toggle[t] # None /\ CallOK(toggle[t]) /\ toggle[t].game \in disturbed'
      BY <1>3, <2>2
    <3>2. /\ toggle'[t].step = "set_back" /\ DOMAIN toggle'[t] = DOMAIN toggle[t]
          /\ toggle'[t].game = toggle[t].game /\ toggle'[t].then = toggle[t].then
      BY <2>2, <3>1 DEF CallOK
    <3> QED
      BY <2>2, <3>1, <3>2 DEF CallOK, Steps, EnableSteps, DisableSteps
  <2> QED
    BY <1>2, <1>7, <2>1, <2>2
<1>8. ASSUME NEW t \in Toggles, toggle'[t] # None, toggle'[t].game \notin disturbed' PROVE Knows(t)'
  <2>1. toggle'[t] = toggle[t] /\ toggle[t].game \in Games /\ toggle[t].game \notin disturbed /\ Knows(t)
    BY <1>1, <1>7, <1>8 DEF ShortcutInv, CallsInv, CallOK
  <2>2. disk'[toggle[t].game] = disk[toggle[t].game]
    BY <1>4, <1>8, <2>1
  <2> QED
    BY <1>1, <2>1, <2>2 DEF Knows, Clean
<1>9. CallsInv'
  <2>1. ASSUME NEW t \in Toggles, NEW u \in Toggles, toggle'[t] # None, toggle'[u] # None,
               toggle'[t].game = toggle'[u].game
        PROVE  t = u \/ toggle'[t].game \in disturbed'
    BY <1>1, <1>7, <2>1 DEF ShortcutInv, CallsInv
  <2> QED
    BY <1>7, <1>8, <2>1 DEF CallsInv
<1> QED
  BY <1>5, <1>6, <1>9 DEF ShortcutInv

\* What no step of a call touches: the library, the counters, and the memory of a backend that starts.
LEMMA RestKeeps ==
  ASSUME ShortcutInv, UNCHANGED <<disk, options, toggle, written, edited, disturbed>>,
         UNCHANGED <<memory, up>> \/ StartStore
  PROVE  ShortcutInv'
<1>1. StoreInv'
  <2>1. CASE UNCHANGED <<memory, up>>
    BY <2>1 DEF ShortcutInv, StoreInv, ServedIsSaved
  <2>2. CASE StartStore
    <3>1. up' = TRUE /\ memory' = disk'
      BY <2>2 DEF StartStore
    <3> QED
      BY <3>1 DEF ShortcutInv, StoreInv, ServedIsSaved
  <2> QED
    BY <2>1, <2>2
<1>2. RecordInv'
  BY DEF ShortcutInv, RecordInv, RecordOf, Clean
<1>3. CallsInv'
  BY DEF ShortcutInv, CallsInv, Knows, Clean
<1> QED
  BY <1>1, <1>2, <1>3 DEF ShortcutInv

LEMMA ShortcutsInductive == ShortcutInv /\ [ServerNext]_serverVars => ShortcutInv'
<1> SUFFICES ASSUME ShortcutInv, [ServerNext]_serverVars PROVE ShortcutInv'
  OBVIOUS
<1>1. ASSUME NEW t \in Toggles, ToggleStep(t) PROVE ShortcutInv'
  BY <1>1, CheckKeeps, PutKeeps, SteamKeeps, ReadKeeps, FindKeeps, DeleteKeeps DEF ToggleStep
<1>2. ASSUME NEW t \in Toggles, NEW g \in Games, BeginDisable(t, g) PROVE ShortcutInv'
  <2>1. PICK call : /\ call = Call("read", g, <<>>, Unmanaged, IF g \in library THEN "set_back" ELSE "missing")
                    /\ Begin(t, call)
    BY <1>2 DEF BeginDisable
  <2>2. CallOK(call) /\ call.game = g /\ call.step = "read"
    BY <2>1 DEF Call, CallOK, Steps, EnableSteps, DisableSteps
  <2> QED
    BY <2>1, <2>2, BeginKeeps
<1>3. ASSUME NEW t \in Toggles, NEW g \in Games, NEW m \in Methods, BeginEnable(t, g, m) PROVE ShortcutInv'
  <2>1. PICK call : /\ call = Call("check", g, m, [original |-> options[g], managed |-> <<>>], "stop")
                    /\ Begin(t, call)
    BY <1>3 DEF BeginEnable
  <2>2. CallOK(call) /\ call.game = g /\ call.step = "check" /\ call.record.original = options[g]
    BY <2>1 DEF Call, CallOK, Steps, EnableSteps
  <2> QED
    BY <2>1, <2>2, BeginKeeps
<1>4. ASSUME NEW g \in Games, Move(g) PROVE ShortcutInv'
  BY <1>4, RestKeeps DEF Move, store, wishes
<1>5. CASE StartStore
  BY <1>5, RestKeeps DEF StartStore, steam, wishes
<1>6. CASE UNCHANGED shortcutVars
  BY <1>6, RestKeeps DEF shortcutVars, store, steam, wishes
<1>7. CASE ShortcutStep
  BY <1>1, <1>2, <1>3, <1>4, <1>7, WriteKeeps DEF ShortcutStep
<1> QED
  BY <1>5, <1>6, <1>7, KillKeeps
     DEF ServerNext, serverVars, Manage, Authorize, Limited, IssueCapability, Wait, KillServer, StartServer

\* What ShortcutInv says of a game that no call is at.
LEMMA ShortcutsAreSafe == ShortcutInv => OptionsFollowRecord /\ WrappedIsRecorded /\ ServedIsSaved
<1> SUFFICES ASSUME ShortcutInv PROVE OptionsFollowRecord /\ WrappedIsRecorded /\ ServedIsSaved
  OBVIOUS
<1>1. ServedIsSaved
  BY DEF ShortcutInv, StoreInv
<1>2. ASSUME NEW g \in Games \ disturbed PROVE RecordOf(g)
  BY DEF ShortcutInv, RecordInv
<1>3. OptionsFollowRecord
  BY <1>1, <1>2 DEF OptionsFollowRecord, Settled, IsManaged, RecordOf, Clean, ServedIsSaved
<1>4. WrappedIsRecorded
  BY <1>1, <1>2 DEF WrappedIsRecorded, Settled, IsManaged, RecordOf, Clean, ServedIsSaved
<1> QED
  BY <1>1, <1>3, <1>4

\* "Disabling restores the saved options": enabling and disabling, whichever of their
\* requests, saves and calls of Steam fails, keep record and launch options together.
THEOREM RecordsFollowOptions == ServerSpec => []OptionsFollowRecord
<1>1. ServerInit => ShortcutInv
  BY ShortcutsInitially DEF ServerInit
<1> QED
  BY <1>1, ShortcutsInductive, ShortcutsAreSafe, PTL DEF ServerSpec

\* A game that starts the wrapper can be turned off, also after edits by the user.
THEOREM WrappersAreRecorded == ServerSpec => []WrappedIsRecorded
<1>1. ServerInit => ShortcutInv
  BY ShortcutsInitially DEF ServerInit
<1> QED
  BY <1>1, ShortcutsInductive, ShortcutsAreSafe, PTL DEF ServerSpec

\* The backend serves what a restart would read, also after a save that failed and a backend
\* that died while it saved.
THEOREM ServedIsWhatIsSaved == ServerSpec => []ServedIsSaved
<1>1. ServerInit => ShortcutInv
  BY ShortcutsInitially DEF ServerInit
<1> QED
  BY <1>1, ShortcutsInductive, ShortcutsAreSafe, PTL DEF ServerSpec

-----------------------------------------------------------------------------
(* The launch options in the records.                                      *)

\* Records that start what the user's options started.
Records ==
  {r \in [original : Options, managed : Options] :
     r = Unmanaged \/ (r.managed # <<>> /\ (~Ambiguous(r.original) => StartsTheSame(r.original, r.managed)))}

\* What a call carries: the options it read, and once they are checked a whole record.
Carries(c) ==
  /\ c.step = "check" => c.method \in Methods /\ c.record \in [original : Options, managed : Options]
  /\ c.step \notin {"check", "read"} => c.record \in Records \ {Unmanaged}

LaunchInv ==
  /\ memory \in [Games -> Records] /\ disk \in [Games -> Records]
  /\ options \in [Games -> Options] /\ written \in [Games -> Options]
  /\ library \subseteq Games /\ edited \subseteq Games /\ disturbed \subseteq Games
  /\ \A t \in Toggles : toggle[t] # None => Carries(toggle[t])

LEMMA NoRecord == Unmanaged \in Records
<1>1. <<>> \in Options
  BY EmptySeq DEF Options
<1> QED
  BY <1>1 DEF Records, Unmanaged

LEMMA LaunchInitially == ShortcutsInit => LaunchInv
<1> SUFFICES ASSUME ShortcutsInit PROVE LaunchInv
  OBVIOUS
<1>1. /\ memory = [g \in Games |-> Unmanaged] /\ disk = memory /\ options \in [Games -> Plain]
      /\ library = Games /\ toggle = [t \in Toggles |-> None]
      /\ written = options /\ edited = {} /\ disturbed = {}
  BY DEF ShortcutsInit
<1> QED
  BY <1>1, NoRecord, PlainAssumption DEF LaunchInv

\* The calls after a step of one of them.
LEMMA OneCarries ==
  ASSUME StoreInv, LaunchInv, NEW t \in Toggles, toggle' = [toggle EXCEPT ![t] = toggle'[t]],
         toggle'[t] = None \/ Carries(toggle'[t])
  PROVE  \A u \in Toggles : toggle'[u] # None => Carries(toggle'[u])
<1>1. \A u \in Toggles \ {t} : toggle'[u] = toggle[u]
  BY DEF StoreInv
<1> QED
  BY <1>1 DEF LaunchInv

\* A call past its check that goes on, or stops.
LEMMA StillCarries ==
  ASSUME ShortcutInv, LaunchInv, NEW t \in Toggles, toggle[t].step \in Steps \ {"check", "read"},
         Stop(t) \/ \E step \in {"set", "find", "delete", "set_back"} : GoOn(t, step)
  PROVE  \A u \in Toggles : toggle'[u] # None => Carries(toggle'[u])
<1>1. toggle[t] # None /\ CallOK(toggle[t]) /\ toggle[t].record \in Records \ {Unmanaged}
  BY Active DEF LaunchInv, Carries
<1>2. CASE Stop(t)
  BY <1>2, Stopped, OneCarries DEF ShortcutInv
<1>3. ASSUME NEW step \in {"set", "find", "delete", "set_back"}, GoOn(t, step)
      PROVE  \A u \in Toggles : toggle'[u] # None => Carries(toggle'[u])
  <2>1. /\ toggle' = [toggle EXCEPT ![t] = toggle'[t]]
        /\ toggle'[t].step = step /\ toggle'[t].record = toggle[t].record
    BY <1>1, <1>3, GoneOn DEF ShortcutInv
  <2>2. Carries(toggle'[t])
    BY <1>1, <2>1 DEF Carries
  <2> QED
    BY <2>1, <2>2, OneCarries DEF ShortcutInv
<1> QED
  BY <1>2, <1>3

\* What the check of enable records, ManagedStartsTheSame says.
LEMMA CheckRecords ==
  ASSUME ShortcutInv, LaunchInv, NEW t \in Toggles, CheckEnable(t) PROVE LaunchInv'
<1>0. PICK c : c = toggle[t]
  OBVIOUS
<1>1. /\ c.step = "check" /\ UNCHANGED <<memory, disk, options, library, written, edited, disturbed>>
      /\ \/ Stop(t)
         \/ toggle' = [toggle EXCEPT ![t].step = "put", ![t].record.managed = Managed(c.record.original, c.method)]
  BY <1>0 DEF CheckEnable, At, store, steam, wishes
<1>2. c # None /\ CallOK(c) /\ Carries(c)
  BY <1>0, <1>1, Active DEF Steps, EnableSteps, LaunchInv
<1>3. /\ c.method \in Methods /\ c.record \in [original : Options, managed : Options]
      /\ c.record.original \in Options
  BY <1>1, <1>2 DEF Carries
<1>4. ASSUME toggle' = [toggle EXCEPT ![t].step = "put", ![t].record.managed = Managed(c.record.original, c.method)]
      PROVE  \A u \in Toggles : toggle'[u] # None => Carries(toggle'[u])
  <2> DEFINE managed == Managed(c.record.original, c.method)
             new == [c.record EXCEPT !.managed = managed]
  <2>1. /\ managed \in Options /\ managed # <<>>
        /\ ~Ambiguous(c.record.original) => StartsTheSame(c.record.original, managed)
    BY <1>3, MethodsAssumption, ManagedStartsTheSame
  <2>2. t \in DOMAIN toggle /\ {"step", "record"} \subseteq DOMAIN c
    BY <1>0, <1>2 DEF ShortcutInv, StoreInv, CallOK
  <2>3. /\ toggle' = [toggle EXCEPT ![t] = toggle'[t]]
        /\ toggle'[t].step = "put" /\ toggle'[t].record = new
    BY <1>0, <1>4, <2>2
  <2> HIDE DEF managed
  <2>4. new \in [original : Options, managed : Options] /\ new.original = c.record.original /\ new.managed = managed
    BY <1>3, <2>1
  <2>5. new \in Records \ {Unmanaged}
    <3> HIDE DEF new
    <3> QED
      BY <2>1, <2>4 DEF Records, Unmanaged
  <2> HIDE DEF new
  <2>6. Carries(toggle'[t])
    BY <2>3, <2>5 DEF Carries
  <2> QED
    BY <2>3, <2>6, OneCarries DEF ShortcutInv
<1>5. CASE Stop(t)
  BY <1>1, <1>5, Stopped, OneCarries DEF ShortcutInv, LaunchInv
<1> QED
  BY <1>1, <1>4, <1>5 DEF LaunchInv

\* What is saved, or deleted, and what Steam is given, is of the record of the call.
LEMMA StepRecords ==
  ASSUME ShortcutInv, LaunchInv, NEW t \in Toggles,
         PutGame(t) \/ SetManaged(t) \/ RestoreOptions(t) \/ FindGame(t) \/ DeleteGame(t) \/ SetBack(t)
  PROVE  LaunchInv'
<1>0. PICK c, g : c = toggle[t] /\ g = c.game
  OBVIOUS
<1>1. /\ c.step \in Steps \ {"check", "read"} /\ UNCHANGED <<library, written, edited>>
      /\ \/ UNCHANGED <<memory, disk>>
         \/ memory' = WithRecord(t) /\ disk' = WithRecord(t)
         \/ memory' = WithoutRecord(t) /\ disk' = WithoutRecord(t)
      /\ options' \in {options, [options EXCEPT ![g] = c.record.managed], [options EXCEPT ![g] = c.record.original]}
      /\ disturbed' \in {disturbed, disturbed \cup {g}}
      /\ Stop(t) \/ \E step \in {"set", "find", "delete", "set_back"} : GoOn(t, step)
  <2>1. CASE PutGame(t)
    BY <1>0, <2>1 DEF PutGame, Save, At, steam, wishes, Steps, EnableSteps
  <2>2. CASE SetManaged(t)
    BY <1>0, <2>2 DEF SetManaged, At, store, wishes, Steps, EnableSteps
  <2>3. CASE RestoreOptions(t)
    BY <1>0, <2>3 DEF RestoreOptions, At, store, wishes, Steps, DisableSteps
  <2>4. CASE FindGame(t)
    BY <1>0, <2>4 DEF FindGame, Fail, At, store, steam, wishes, Steps, DisableSteps
  <2>5. CASE DeleteGame(t)
    BY <1>0, <2>5 DEF DeleteGame, Save, Fail, Forgotten, At, steam, Steps, DisableSteps
  <2>6. CASE SetBack(t)
    BY <1>0, <2>6 DEF SetBack, At, store, wishes, Steps, DisableSteps
  <2> QED
    BY <2>1, <2>2, <2>3, <2>4, <2>5, <2>6
<1>2. c # None /\ CallOK(c) /\ g \in Games /\ c.record \in Records \ {Unmanaged}
  BY <1>0, <1>1, Active DEF LaunchInv, Carries
<1>3. c.record.managed \in Options /\ c.record.original \in Options
  BY <1>2 DEF Records
<1>4. memory' \in [Games -> Records] /\ disk' \in [Games -> Records]
  BY <1>0, <1>1, <1>2, NoRecord DEF LaunchInv, WithRecord, WithoutRecord
<1>5. options' \in [Games -> Options] /\ disturbed' \subseteq Games
  BY <1>1, <1>2, <1>3 DEF LaunchInv
<1>6. \A u \in Toggles : toggle'[u] # None => Carries(toggle'[u])
  BY <1>0, <1>1, StillCarries
<1> QED
  BY <1>1, <1>4, <1>5, <1>6 DEF LaunchInv

LEMMA ReadRecords ==
  ASSUME ShortcutInv, LaunchInv, NEW t \in Toggles, ReadConfiguration(t) PROVE LaunchInv'
<1>0. PICK c, g : c = toggle[t] /\ g = c.game
  OBVIOUS
<1>1. /\ c.step = "read" /\ UNCHANGED <<memory, disk, options, library, written, edited, disturbed>>
      /\ \/ Stop(t)
         \/ /\ memory[g] # Unmanaged
            /\ toggle' = [toggle EXCEPT ![t].record = memory[g],
                            ![t].step = IF c.then = "missing" THEN "find" ELSE "restore"]
  BY <1>0 DEF ReadConfiguration, At, IsManaged, store, steam, wishes
<1>2. c # None /\ CallOK(c) /\ g \in Games /\ memory[g] \in Records
  BY <1>0, <1>1, Active DEF Steps, DisableSteps, LaunchInv
<1>3. CASE Stop(t)
  BY <1>1, <1>3, Stopped, OneCarries DEF ShortcutInv, LaunchInv
<1>4. CASE /\ memory[g] # Unmanaged
           /\ toggle' = [toggle EXCEPT ![t].record = memory[g],
                           ![t].step = IF c.then = "missing" THEN "find" ELSE "restore"]
  <2>1. t \in DOMAIN toggle /\ {"step", "record"} \subseteq DOMAIN c
    BY <1>0, <1>2 DEF ShortcutInv, StoreInv, CallOK
  <2>2. /\ toggle' = [toggle EXCEPT ![t] = toggle'[t]]
        /\ toggle'[t].step \in {"find", "restore"} /\ toggle'[t].record = memory[g]
    BY <1>0, <1>4, <2>1
  <2>3. Carries(toggle'[t])
    BY <1>2, <1>4, <2>2 DEF Carries
  <2>4. \A u \in Toggles : toggle'[u] # None => Carries(toggle'[u])
    BY <2>2, <2>3, OneCarries DEF ShortcutInv
  <2> QED
    BY <1>1, <2>4 DEF LaunchInv
<1> QED
  BY <1>1, <1>3, <1>4

LEMMA BeginCarries ==
  ASSUME ShortcutInv, LaunchInv, NEW t \in Toggles, NEW call, call.game \in Games, Carries(call), Begin(t, call)
  PROVE  LaunchInv'
<1>1. /\ toggle' = [toggle EXCEPT ![t] = call] /\ disturbed' \in {disturbed, disturbed \cup {call.game}}
      /\ UNCHANGED <<memory, disk, options, library, written, edited>>
  BY DEF Begin, store, steam
<1>2. toggle'[t] = call /\ toggle' = [toggle EXCEPT ![t] = toggle'[t]]
  BY <1>1 DEF ShortcutInv, StoreInv
<1>3. \A u \in Toggles : toggle'[u] # None => Carries(toggle'[u])
  BY <1>2, OneCarries DEF ShortcutInv
<1> QED
  BY <1>1, <1>3 DEF LaunchInv

LEMMA KillRecords == ASSUME ShortcutInv, LaunchInv, KillStore PROVE LaunchInv'
<1>1. /\ memory' = [g \in Games |-> Unmanaged] /\ UNCHANGED <<options, library, written, edited>>
      /\ \/ disk' = disk
         \/ \E t \in Toggles : At(t, "put") /\ disk' = WithRecord(t)
         \/ \E t \in Toggles : At(t, "delete") /\ disk' = WithoutRecord(t)
      /\ disturbed' = disturbed \cup {toggle[t].game : t \in {u \in Toggles : toggle[u].step \in AtBackend}}
  BY DEF KillStore, steam
<1>2. ASSUME NEW t \in Toggles
      PROVE  \/ toggle'[t] = toggle[t]
             \/ toggle'[t] = None
             \/ /\ toggle[t].step \in AtBackend \ {"read"} /\ toggle[t].then = "set_back"
                /\ toggle'[t] = [toggle[t] EXCEPT !.step = "set_back"]
  BY DEF KillStore
<1>3. ASSUME NEW t \in Toggles, toggle[t].step \in AtBackend
      PROVE  /\ toggle[t] # None /\ CallOK(toggle[t]) /\ toggle[t].game \in Games
             /\ toggle[t].step \notin {"check", "read"} => toggle[t].record \in Records \ {Unmanaged}
  BY <1>3, Active DEF AtBackend, Steps, EnableSteps, DisableSteps, LaunchInv, Carries
<1>4. memory' \in [Games -> Records] /\ disk' \in [Games -> Records]
  <2>1. ASSUME NEW t \in Toggles, At(t, "put") \/ At(t, "delete"), disk' = WithRecord(t) \/ disk' = WithoutRecord(t)
        PROVE  disk' \in [Games -> Records]
    <3>1. toggle[t].record \in Records /\ up
      BY <1>3, <2>1 DEF At, AtBackend, KillStore
    <3> QED
      BY <2>1, <3>1, NoRecord DEF WithRecord, WithoutRecord, LaunchInv
  <2> QED
    BY <1>1, <2>1, NoRecord DEF LaunchInv
<1>5. disturbed' \subseteq Games
  BY <1>1, <1>3 DEF LaunchInv
<1>6. ASSUME NEW t \in Toggles, toggle'[t] # None PROVE Carries(toggle'[t])
  <2>1. CASE toggle'[t] = toggle[t]
    BY <1>6, <2>1 DEF LaunchInv
  <2>2. CASE /\ toggle[t].step \in AtBackend \ {"read"} /\ toggle[t].then = "set_back"
             /\ toggle'[t] = [toggle[t] EXCEPT !.step = "set_back"]
    <3>1. CallOK(toggle[t]) /\ toggle[t].step \notin {"check", "read"}
      BY <1>3, <2>2 DEF CallOK, AtBackend, EnableSteps
    <3>2. toggle'[t].step = "set_back" /\ toggle'[t].record = toggle[t].record
      BY <2>2, <3>1 DEF CallOK
    <3> QED
      BY <1>3, <2>2, <3>1, <3>2 DEF Carries
  <2> QED
    BY <1>2, <1>6, <2>1, <2>2
<1> QED
  BY <1>1, <1>4, <1>5, <1>6 DEF LaunchInv

LEMMA LaunchInductive == ShortcutInv /\ LaunchInv /\ [ServerNext]_serverVars => LaunchInv'
<1> SUFFICES ASSUME ShortcutInv, LaunchInv, [ServerNext]_serverVars PROVE LaunchInv'
  OBVIOUS
<1>1. ASSUME NEW t \in Toggles, ToggleStep(t) PROVE LaunchInv'
  BY <1>1, CheckRecords, StepRecords, ReadRecords DEF ToggleStep
<1>2. ASSUME NEW t \in Toggles, NEW g \in Games, BeginDisable(t, g) PROVE LaunchInv'
  <2>1. PICK call : /\ call = Call("read", g, <<>>, Unmanaged, IF g \in library THEN "set_back" ELSE "missing")
                    /\ Begin(t, call)
    BY <1>2 DEF BeginDisable
  <2>2. call.game = g /\ Carries(call)
    BY <2>1 DEF Call, Carries
  <2> QED
    BY <2>1, <2>2, BeginCarries
<1>3. ASSUME NEW t \in Toggles, NEW g \in Games, NEW m \in Methods, BeginEnable(t, g, m) PROVE LaunchInv'
  <2>1. PICK call : /\ call = Call("check", g, m, [original |-> options[g], managed |-> <<>>], "stop")
                    /\ Begin(t, call)
    BY <1>3 DEF BeginEnable
  <2>2. options[g] \in Options /\ <<>> \in Options
    BY EmptySeq DEF LaunchInv, Options
  <2>3. call.game = g /\ Carries(call)
    BY <2>1, <2>2 DEF Call, Carries
  <2> QED
    BY <2>1, <2>3, BeginCarries
<1>4. ASSUME NEW g \in Games, WriteOptions(g) PROVE LaunchInv'
  BY <1>4, PlainAssumption DEF WriteOptions, LaunchInv, store
<1>5. ASSUME NEW g \in Games, Move(g) PROVE LaunchInv'
  BY <1>5 DEF Move, LaunchInv, store, wishes
<1>6. CASE StartStore
  BY <1>6 DEF StartStore, LaunchInv, steam, wishes
<1>7. CASE UNCHANGED shortcutVars
  BY <1>7 DEF shortcutVars, LaunchInv, store, steam, wishes
<1>8. CASE ShortcutStep
  BY <1>1, <1>2, <1>3, <1>4, <1>5, <1>8 DEF ShortcutStep
<1> QED
  BY <1>6, <1>7, <1>8, KillRecords
     DEF ServerNext, serverVars, Manage, Authorize, Limited, IssueCapability, Wait, KillServer, StartServer

LEMMA RecordsAreKept == ServerSpec => [](ShortcutInv /\ LaunchInv)
<1>1. ServerInit => ShortcutInv /\ LaunchInv
  BY ShortcutsInitially, LaunchInitially DEF ServerInit
<1> QED
  BY <1>1, ShortcutsInductive, LaunchInductive, PTL DEF ServerSpec

\* Records, calls and Steam's options stay well-formed, for launch options of any length: a
\* call writes them only from a whole record, whichever save fails and whenever the backend dies.
THEOREM ShortcutsTypeCorrect == ServerSpec => []ShortcutTypeOK
<1>1. ASSUME ShortcutInv, LaunchInv PROVE ShortcutTypeOK
  <2>1. /\ memory \in [Games -> [original : Options, managed : Options]]
        /\ disk \in [Games -> [original : Options, managed : Options]]
    BY <1>1 DEF LaunchInv, Records
  <2>2. up \in BOOLEAN
    BY <1>1 DEF ShortcutInv, StoreInv
  <2>3. ASSUME NEW t \in Toggles, toggle[t] # None
        PROVE  /\ toggle[t].step \in Steps /\ toggle[t].game \in Games
               /\ toggle[t].then \in {"stop", "set_back", "missing"}
               /\ toggle[t].step \notin {"check", "read"} => toggle[t].record.managed # <<>>
    <3>1. CallOK(toggle[t]) /\ Carries(toggle[t])
      BY <1>1, <2>3 DEF ShortcutInv, CallsInv, LaunchInv
    <3> QED
      BY <3>1 DEF CallOK, Carries, Records
  <2> QED
    BY <1>1, <2>1, <2>2, <2>3 DEF ShortcutTypeOK, LaunchInv
<1> QED
  BY <1>1, RecordsAreKept, PTL

\* The managed options of every record start the command, with the variables, that the
\* original ones started, each %command% behind the wrapper.
THEOREM LaunchesAreKept == ServerSpec => []LaunchKept
<1>1. ASSUME LaunchInv PROVE LaunchKept
  BY <1>1 DEF LaunchInv, Records, LaunchKept, IsManaged
<1> QED
  BY <1>1, RecordsAreKept, PTL

=============================================================================
