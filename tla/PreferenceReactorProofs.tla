----------------------- MODULE PreferenceReactorProofs -----------------------
(***************************************************************************)
(* Proofs about PreferenceReactor for any reactions and handlers, both     *)
(* ways of rebuilding, and any number of saves and failed rebuilds: its    *)
(* types; that no change is forgotten on its way to a rebuild; and that    *)
(* the lock keeps the rebuilds for providers.changed in order.             *)
(***************************************************************************)
EXTENDS PreferenceReactor, TLAPS

-----------------------------------------------------------------------------
(* Types *)

\* The event at the head of the bus, and the others after it.
LEMMA HeadOfBus ==
    ASSUME TypeOK, bus # <<>>
    PROVE  /\ Head(bus) = bus[1] /\ 1 \in 1..Len(bus)
           /\ Head(bus).version \in Nat /\ Head(bus).concerns \subseteq Reaction
           /\ Tail(bus) \in Seq(Event)
           /\ \A i \in 1..Len(Tail(bus)) : i + 1 \in 1..Len(bus) /\ Tail(bus)[i] = bus[i + 1]
<1>1. bus \in Seq(Event)
    BY DEF TypeOK
<1>2. Head(bus) = bus[1] /\ 1 \in 1..Len(bus) /\ Head(bus) \in Event
    BY <1>1
<1>3. Tail(bus) \in Seq(Event) /\ Len(Tail(bus)) = Len(bus) - 1
    BY <1>1
<1>4. \A i \in 1..Len(Tail(bus)) : i + 1 \in 1..Len(bus) /\ Tail(bus)[i] = bus[i + 1]
    BY <1>1, <1>3
<1> QED BY <1>2, <1>3, <1>4 DEF Event

\* A worker's begin of a rebuild, in types and in the two forms it has.
LEMMA BeginTypes ==
    ASSUME TypeOK, NEW w \in Worker, Begin(w)
    PROVE  /\ task' \in [Worker -> Stage]
           /\ reads' \in [Worker -> Settings]
           /\ service' \in Settings \cup {NoService}
<1> USE DEF TypeOK, Begin
<1>1. task' \in [Worker -> Stage]
    BY DEF Stage
<1>2. [reads[w] EXCEPT !.prefs = saved] \in Settings
    BY DEF Settings
<1>3. reads' \in [Worker -> Settings]
    BY <1>2
<1>4. service' \in Settings \cup {NoService}
    OBVIOUS
<1> QED BY <1>1, <1>3, <1>4

LEMMA TypeStep == TypeOK /\ [Next]_vars => TypeOK'
<1> SUFFICES ASSUME TypeOK, [Next]_vars PROVE TypeOK'
    OBVIOUS
<1>1. CASE UpdateMany
    <2>1. PICK S \in SUBSET Reaction :
              bus' = Append(bus, [version |-> saved + 1, concerns |-> S])
        BY <1>1 DEF UpdateMany
    <2>2. [version |-> saved + 1, concerns |-> S] \in Event
        BY DEF Event, TypeOK
    <2>3. bus' \in Seq(Event) /\ saved' \in Nat
        BY <1>1, <2>1, <2>2 DEF UpdateMany, TypeOK
    <2> QED BY <1>1, <2>3 DEF UpdateMany, TypeOK
<1>2. CASE OnPreferencesSaved
    <2>1. Tail(bus) \in Seq(Event)
        BY <1>2, HeadOfBus DEF OnPreferencesSaved
    <2>2. Head(bus).version \in Nat
        BY <1>2, HeadOfBus DEF OnPreferencesSaved
    <2>3. pending' \in [Reaction -> Nat]
        BY <1>2, <2>2 DEF OnPreferencesSaved, TypeOK
    <2>4. task' \in [Worker -> Stage]
        BY <1>2 DEF OnPreferencesSaved, TypeOK, Stage
    <2> QED BY <1>2, <2>1, <2>3, <2>4 DEF OnPreferencesSaved, TypeOK
<1>3. ASSUME NEW r \in Reaction, Wake(r) PROVE TypeOK'
    <2>1. r \in Worker /\ Begin(r)
        BY <1>3 DEF Wake, Worker
    <2>2. /\ task' \in [Worker -> Stage]
          /\ reads' \in [Worker -> Settings]
          /\ service' \in Settings \cup {NoService}
        BY <2>1, BeginTypes
    <2>3. pending' \in [Reaction -> Nat]
        BY <1>3 DEF Wake, TypeOK
    <2> QED BY <1>3, <2>2, <2>3 DEF Wake, TypeOK
<1>4. ASSUME NEW h \in Handler, SaveProviders(h) PROVE TypeOK'
    <2>1. keys' \in Nat
        BY <1>4 DEF SaveProviders, TypeOK
    <2>2. task' \in [Worker -> Stage]
        BY <1>4 DEF SaveProviders, TypeOK, Stage
    <2> QED BY <1>4, <2>1, <2>2 DEF SaveProviders, TypeOK
<1>5. ASSUME NEW h \in Handler, EnterLock(h) PROVE TypeOK'
    <2>1. h \in Worker /\ Begin(h)
        BY <1>5 DEF EnterLock, Worker
    <2>2. /\ task' \in [Worker -> Stage]
          /\ reads' \in [Worker -> Settings]
          /\ service' \in Settings \cup {NoService}
        BY <2>1, BeginTypes
    <2> QED BY <1>5, <2>2 DEF EnterLock, TypeOK
<1>6. ASSUME NEW w \in Worker, RebuildStep(w) \/ RebuildFails(w) PROVE TypeOK'
    <2>1. reads[w] \in Settings /\ saved \in Nat /\ keys \in Nat /\ tried \in Settings
        BY DEF TypeOK
    <2>2. /\ [reads[w] EXCEPT !.prefs = saved] \in Settings
          /\ [reads[w] EXCEPT !.keys = keys] \in Settings
          /\ reads[w].prefs \in Nat /\ reads[w].keys \in Nat
          /\ tried.prefs \in Nat /\ tried.keys \in Nat
        BY <2>1 DEF Settings
    <2>3. CASE OldServiceClosed(w)
        BY <2>2, <2>3 DEF OldServiceClosed, TypeOK, Stage
    <2>4. CASE ReadCredentials(w)
        BY <2>2, <2>4 DEF ReadCredentials, TypeOK, Stage
    <2>5. CASE Attach(w)
        <3>1. tried' \in Settings
            BY <2>2, <2>5 DEF Attach, Newer, Settings
        <3> QED BY <2>1, <2>2, <2>5, <3>1 DEF Attach, TypeOK, Stage
    <2>6. CASE RebuildFails(w)
        <3>1. tried' \in Settings
            BY <2>1, <2>2, <2>6 DEF RebuildFails, Newer, Settings
        <3> QED BY <2>6, <3>1 DEF RebuildFails, TypeOK, Stage
    <2> QED BY <1>6, <2>3, <2>4, <2>5, <2>6 DEF RebuildStep
<1>7. CASE UNCHANGED vars
    BY <1>7 DEF vars, TypeOK
<1> QED BY <1>1, <1>2, <1>3, <1>4, <1>5, <1>6, <1>7 DEF Next

\* Every variable of the reactor, of the providers handler and of the service
\* keeps its type (preference_reactor.py, agent_manager.py).
THEOREM ReactorTypeCorrect == Spec => []TypeOK
<1>1. Init => TypeOK
    BY ModeAssumption DEF Init, TypeOK, Settings, Stage, Event
<1> QED BY <1>1, TypeStep, PTL DEF Spec

-----------------------------------------------------------------------------
(* No change is forgotten *)

\* Nothing was built from settings that did not exist yet.
AgeInv ==
    /\ tried.prefs <= saved /\ tried.keys <= keys /\ rebound <= keys
    /\ \A w \in Worker : reads[w].prefs <= saved /\ reads[w].keys <= keys

\* A rebuild under way that will be made from the current preferences, or is.
HasPrefs(w) ==
    \/ task[w] = "closing"
    \/ task[w] \in {"building", "built"} /\ reads[w].prefs = saved

\* The same of the credentials, which the thread looks up last.
HasKeys(w) ==
    \/ task[w] \in {"called", "closing", "building"}
    \/ task[w] = "built" /\ reads[w].keys = keys

\* Preferences newer than every finished rebuild are on the bus, collected by a
\* reaction, or in a rebuild under way; credentials have a handler waiting or
\* are in a rebuild under way.
OwedInv ==
    /\ \/ tried.prefs = saved \/ bus # <<>>
       \/ \E r \in Reaction : pending[r] # 0
       \/ \E w \in Worker : HasPrefs(w)
    /\ tried.keys = keys \/ \E w \in Worker : HasKeys(w)

\* Every event on the bus is a save, and concerns a reaction; a collected change
\* belongs to a reaction.
BusInv ==
    \A i \in 1..Len(bus) : bus[i].version # 0 /\ bus[i].concerns # {}

ReactorInv == TypeOK /\ AgeInv /\ BusInv /\ OwedInv

LEMMA BusStep ==
    ASSUME TypeOK, BusInv, [Next]_vars PROVE BusInv'
<1>1. CASE UpdateMany
    <2>1. PICK S \in SUBSET Reaction :
              S # {} /\ bus' = Append(bus, [version |-> saved + 1, concerns |-> S])
        BY <1>1 DEF UpdateMany
    <2> DEFINE e == [version |-> saved + 1, concerns |-> S]
    <2>2. e \in Event /\ e.version # 0 /\ e.concerns # {}
        BY <2>1 DEF TypeOK, Event
    <2>3. \A i \in 1..Len(bus') : (i \in 1..Len(bus) /\ bus'[i] = bus[i]) \/ bus'[i] = e
        BY <2>1, <2>2 DEF TypeOK
    <2> QED BY <2>2, <2>3 DEF BusInv
<1>2. CASE OnPreferencesSaved
    <2>1. bus # <<>> /\ bus' = Tail(bus)
        BY <1>2 DEF OnPreferencesSaved
    <2> QED BY <2>1, HeadOfBus DEF BusInv
<1>3. CASE UNCHANGED bus
    BY <1>3 DEF BusInv
<1> QED BY <1>1, <1>2, <1>3
    DEF Next, Wake, SaveProviders, EnterLock, RebuildStep, RebuildFails,
        OldServiceClosed, ReadCredentials, Attach, vars

LEMMA AgeStep ==
    ASSUME TypeOK, AgeInv, [Next]_vars PROVE AgeInv'
<1>0. /\ saved \in Nat /\ keys \in Nat /\ rebound \in Nat
      /\ tried.prefs \in Nat /\ tried.keys \in Nat /\ tried \in Settings
      /\ reads \in [Worker -> Settings]
      /\ \A w \in Worker : reads[w].prefs \in Nat /\ reads[w].keys \in Nat
    BY DEF TypeOK, Settings
<1>1. CASE UpdateMany
    BY <1>0, <1>1 DEF UpdateMany, AgeInv
<1>2. CASE OnPreferencesSaved
    BY <1>2 DEF OnPreferencesSaved, AgeInv
<1>3. ASSUME NEW h \in Handler, SaveProviders(h) PROVE AgeInv'
    BY <1>0, <1>3 DEF SaveProviders, AgeInv
<1>4. ASSUME NEW w \in Worker, Begin(w), UNCHANGED <<saved, keys, tried, rebound>>
      PROVE  AgeInv'
    <2>1. \A v \in Worker : reads'[v].prefs \in {reads[v].prefs, saved}
                            /\ reads'[v].keys = reads[v].keys
        BY <1>0, <1>4 DEF Begin, Settings
    <2> QED BY <1>0, <1>4, <2>1 DEF AgeInv
<1>5. ASSUME NEW w \in Worker, RebuildStep(w) \/ RebuildFails(w) PROVE AgeInv'
    <2>1. CASE OldServiceClosed(w)
        <3>1. \A v \in Worker : reads'[v].prefs \in {reads[v].prefs, saved}
                                /\ reads'[v].keys = reads[v].keys
            BY <1>0, <2>1 DEF OldServiceClosed, Settings
        <3> QED BY <1>0, <2>1, <3>1 DEF OldServiceClosed, AgeInv
    <2>2. CASE ReadCredentials(w)
        <3>1. \A v \in Worker : reads'[v].keys \in {reads[v].keys, keys}
                                /\ reads'[v].prefs = reads[v].prefs
            BY <1>0, <2>2 DEF ReadCredentials, Settings
        <3> QED BY <1>0, <2>2, <3>1 DEF ReadCredentials, AgeInv
    <2>3. CASE Attach(w)
        BY <1>0, <2>3 DEF Attach, Newer, AgeInv
    <2>4. CASE RebuildFails(w)
        BY <1>0, <2>4 DEF RebuildFails, Newer, AgeInv
    <2> QED BY <1>5, <2>1, <2>2, <2>3, <2>4 DEF RebuildStep
<1>6. CASE UNCHANGED vars
    BY <1>6 DEF vars, AgeInv
<1> QED BY <1>1, <1>2, <1>3, <1>4, <1>5, <1>6 DEF Next, Wake, EnterLock, Worker

\* A rebuild that begins will be made from the settings as they are.
LEMMA BeginHas ==
    ASSUME TypeOK, NEW w \in Worker, Begin(w), UNCHANGED <<saved, keys>>
    PROVE  HasPrefs(w)' /\ HasKeys(w)'
<1>1. reads[w] \in Settings
    BY DEF TypeOK
<1> QED BY <1>1 DEF Begin, HasPrefs, HasKeys, TypeOK, Settings

\* What one worker does leaves the rebuilds of the others as they are.
LEMMA OthersKeep ==
    ASSUME NEW w, NEW v \in Worker, v # w, UNCHANGED <<saved, keys>>,
           task'[v] = task[v], reads'[v] = reads[v]
    PROVE  (HasPrefs(v) => HasPrefs(v)') /\ (HasKeys(v) => HasKeys(v)')
BY DEF HasPrefs, HasKeys

LEMMA OwedStep ==
    ASSUME ReactorInv, [Next]_vars PROVE OwedInv'
<1>0. /\ saved \in Nat /\ keys \in Nat
      /\ tried.prefs \in Nat /\ tried.keys \in Nat
      /\ reads \in [Worker -> Settings] /\ task \in [Worker -> Stage]
      /\ pending \in [Reaction -> Nat]
      /\ \A w \in Worker : reads[w].prefs \in Nat /\ reads[w].keys \in Nat
    BY DEF ReactorInv, TypeOK, Settings
<1>1. CASE UpdateMany
    <2>1. bus' # <<>>
        BY <1>1 DEF UpdateMany, ReactorInv, TypeOK, Event
    <2> QED BY <1>1, <2>1 DEF UpdateMany, ReactorInv, OwedInv, HasKeys
<1>2. CASE OnPreferencesSaved
    <2>1. PICK r \in Reaction : r \in Head(bus).concerns
        <3>1. Head(bus).concerns # {} /\ Head(bus).concerns \subseteq Reaction
            BY <1>2, HeadOfBus DEF OnPreferencesSaved, ReactorInv, BusInv
        <3> QED BY <3>1
    <2>2. pending'[r] # 0
        <3>1. Head(bus).version # 0
            BY <1>2, HeadOfBus DEF OnPreferencesSaved, ReactorInv, BusInv
        <3> QED BY <1>2, <2>1, <3>1 DEF OnPreferencesSaved
    <2>3. ASSUME NEW w \in Worker, HasKeys(w) PROVE HasKeys(w)'
        BY <1>0, <1>2, <2>3 DEF OnPreferencesSaved, HasKeys
    <2>4. UNCHANGED <<tried, keys>>
        BY <1>2 DEF OnPreferencesSaved
    <2> QED BY <2>2, <2>3, <2>4 DEF ReactorInv, OwedInv
<1>3. ASSUME NEW h \in Handler, SaveProviders(h) PROVE OwedInv'
    <2>1. h \in Worker
        BY DEF Worker
    <2>2. HasKeys(h)'
        BY <1>0, <1>3, <2>1 DEF SaveProviders, HasKeys
    <2>3. ASSUME NEW w \in Worker, HasPrefs(w) PROVE HasPrefs(w)'
        BY <1>0, <1>3, <2>1, <2>3 DEF SaveProviders, HasPrefs
    <2>4. UNCHANGED <<tried, saved, bus, pending>>
        BY <1>3 DEF SaveProviders
    <2> QED BY <2>1, <2>2, <2>3, <2>4 DEF ReactorInv, OwedInv
<1>4. ASSUME NEW w \in Worker, Begin(w), UNCHANGED <<saved, keys>> PROVE OwedInv'
    BY <1>4, BeginHas DEF ReactorInv, OwedInv
<1>5. ASSUME NEW w \in Worker, RebuildStep(w) \/ RebuildFails(w) PROVE OwedInv'
    <2>1. UNCHANGED <<saved, keys, bus, pending>>
        BY <1>5 DEF RebuildStep, RebuildFails, OldServiceClosed, ReadCredentials, Attach
    <2>2. ASSUME NEW v \in Worker, v # w
          PROVE  (HasPrefs(v) => HasPrefs(v)') /\ (HasKeys(v) => HasKeys(v)')
        <3>1. task'[v] = task[v] /\ reads'[v] = reads[v]
            BY <1>0, <1>5, <2>2 DEF RebuildStep, RebuildFails, OldServiceClosed,
               ReadCredentials, Attach
        <3> QED BY <2>1, <2>2, <3>1, OthersKeep
    <2>3. CASE OldServiceClosed(w)
        <3>1. UNCHANGED tried /\ task'[w] = "building" /\ reads'[w].prefs = saved
            BY <1>0, <2>3 DEF OldServiceClosed, Settings
        <3>2. HasPrefs(w)' /\ HasKeys(w)'
            BY <2>1, <3>1 DEF HasPrefs, HasKeys
        <3> QED BY <2>1, <2>2, <3>1, <3>2 DEF ReactorInv, OwedInv
    <2>4. CASE ReadCredentials(w)
        <3>1. /\ UNCHANGED tried /\ task[w] = "building" /\ task'[w] = "built"
              /\ reads'[w].prefs = reads[w].prefs /\ reads'[w].keys = keys
            BY <1>0, <2>4 DEF ReadCredentials, Settings
        <3>2. (HasPrefs(w) => HasPrefs(w)') /\ HasKeys(w)'
            BY <2>1, <3>1 DEF HasPrefs, HasKeys
        <3> QED BY <2>1, <2>2, <3>1, <3>2 DEF ReactorInv, OwedInv
    <2>5. CASE Attach(w) \/ RebuildFails(w)
        <3>1. HasPrefs(w) \/ tried.prefs = saved => tried'.prefs = saved
            BY <1>0, <2>5 DEF Attach, RebuildFails, Newer, HasPrefs, ReactorInv, AgeInv
        <3>2. HasKeys(w) \/ tried.keys = keys => tried'.keys = keys
            BY <1>0, <2>5 DEF Attach, RebuildFails, Newer, HasKeys, ReactorInv, AgeInv
        <3> QED BY <2>1, <2>2, <3>1, <3>2 DEF ReactorInv, OwedInv
    <2> QED BY <1>5, <2>3, <2>4, <2>5 DEF RebuildStep
<1>6. CASE UNCHANGED vars
    BY <1>6 DEF vars, ReactorInv, OwedInv, HasPrefs, HasKeys
<1> QED BY <1>1, <1>2, <1>3, <1>4, <1>5, <1>6 DEF Next, Wake, EnterLock, Worker

LEMMA ReactorInvCorrect == Spec => []ReactorInv
<1>1. Init => ReactorInv
    BY ModeAssumption DEF Init, ReactorInv, TypeOK, AgeInv, BusInv, OwedInv, Settings,
       Stage, Event
<1>2. ReactorInv /\ [Next]_vars => ReactorInv'
    BY TypeStep, AgeStep, BusStep, OwedStep DEF ReactorInv
<1> QED BY <1>1, <1>2, PTL DEF Spec

\* Whatever reactions and handlers rebuild the service at the same time, whatever
\* arrives while they do and whichever of them fail: when nothing is on its way
\* any more, rebuilds were made from the newest preferences and the newest
\* credentials (preference_reactor.py, agent_manager.py _handle_providers_changed).
THEOREM NoChangeIsForgotten == Spec => []EveryChangeIsBuilt
<1>1. ReactorInv => EveryChangeIsBuilt
    BY DEF ReactorInv, OwedInv, EveryChangeIsBuilt, Quiet, HasPrefs, HasKeys
<1> QED BY <1>1, ReactorInvCorrect, PTL

-----------------------------------------------------------------------------
(* The lock *)

AtWork(h) == task[h] \in {"closing", "building", "built"}

\* One handler has the lock, and what it is about to attach is not older than
\* what the last one attached.
LockInv ==
    /\ \A g, h \in Handler : AtWork(g) /\ AtWork(h) => g = h
    /\ \A h \in Handler : task[h] # "sleeping"
    /\ \A h \in Handler : task[h] = "built" => rebound <= reads[h].keys

LEMMA LockStep ==
    ASSUME TypeOK, AgeInv, BusInv, LockInv, [Next]_vars
    PROVE  LockInv' /\ rebound' >= rebound
<1>0. /\ keys \in Nat /\ rebound \in Nat /\ rebound <= keys
      /\ task \in [Worker -> Stage] /\ reads \in [Worker -> Settings]
      /\ \A w \in Worker : reads[w].keys \in Nat
      /\ \A h \in Handler : h \in Worker /\ h \notin Reaction
      /\ \A r \in Reaction : r \in Worker /\ r \notin Handler
    BY WorkerAssumption DEF TypeOK, AgeInv, Settings, Worker
<1>1. CASE UNCHANGED <<task, reads, rebound>>
    BY <1>0, <1>1 DEF LockInv, AtWork
<1>2. CASE UpdateMany
    BY <1>1, <1>2 DEF UpdateMany
<1>3. CASE OnPreferencesSaved
    <2>1. Head(bus).concerns \subseteq Reaction
        BY <1>3, HeadOfBus DEF OnPreferencesSaved
    <2>2. \A h \in Handler : task'[h] = task[h]
        BY <1>0, <1>3, <2>1 DEF OnPreferencesSaved
    <2>3. UNCHANGED <<reads, rebound>>
        BY <1>3 DEF OnPreferencesSaved
    <2> QED BY <1>0, <2>2, <2>3 DEF LockInv, AtWork
<1>4. ASSUME NEW w \in Reaction,
             Wake(w) \/ OldServiceClosed(w) \/ ReadCredentials(w) \/ Attach(w) \/ RebuildFails(w)
      PROVE  LockInv' /\ rebound' >= rebound
    <2>1. rebound' = rebound /\ \A h \in Handler : task'[h] = task[h] /\ reads'[h] = reads[h]
        BY <1>0, <1>4 DEF Wake, Begin, OldServiceClosed, ReadCredentials, Attach, RebuildFails
    <2> QED BY <1>0, <2>1 DEF LockInv, AtWork
<1>5. ASSUME NEW h \in Handler, SaveProviders(h) PROVE LockInv' /\ rebound' >= rebound
    <2>1. /\ rebound' = rebound /\ reads' = reads /\ task'[h] = "called"
          /\ \A g \in Handler : g # h => task'[g] = task[g]
        BY <1>0, <1>5 DEF SaveProviders
    <2> QED BY <1>0, <2>1 DEF LockInv, AtWork
<1>6. ASSUME NEW h \in Handler, EnterLock(h) PROVE LockInv' /\ rebound' >= rebound
    <2>1. /\ rebound' = rebound /\ task'[h] \in {"closing", "building"}
          /\ \A g \in Handler : task[g] \in {"none", "called"}
          /\ \A g \in Handler : g # h => task'[g] = task[g]
        BY <1>0, <1>6 DEF EnterLock, Begin
    <2> QED BY <1>0, <2>1 DEF LockInv, AtWork
<1>7. ASSUME NEW h \in Handler, OldServiceClosed(h) \/ ReadCredentials(h)
      PROVE  LockInv' /\ rebound' >= rebound
    <2>1. /\ rebound' = rebound /\ AtWork(h) /\ task'[h] \in {"building", "built"}
          /\ \A g \in Handler : g # h => task'[g] = task[g] /\ reads'[g] = reads[g]
          /\ task'[h] = "built" => reads'[h].keys = keys
        BY <1>0, <1>7 DEF OldServiceClosed, ReadCredentials, AtWork, Settings
    <2> QED BY <1>0, <2>1 DEF LockInv, AtWork
<1>8. ASSUME NEW h \in Handler, Attach(h) \/ RebuildFails(h)
      PROVE  LockInv' /\ rebound' >= rebound
    <2>1. /\ AtWork(h) /\ task'[h] = "none" /\ reads' = reads
          /\ \A g \in Handler : g # h => task'[g] = task[g]
          /\ rebound' = rebound \/ (task[h] = "built" /\ rebound' = reads[h].keys)
        BY <1>0, <1>8 DEF Attach, RebuildFails, AtWork
    <2>2. \A g \in Handler : ~AtWork(g)'
        BY <2>1 DEF LockInv, AtWork
    <2> QED BY <1>0, <2>1, <2>2 DEF LockInv, AtWork
<1>9. CASE UNCHANGED vars
    BY <1>1, <1>9 DEF vars
<1> QED BY <1>2, <1>3, <1>4, <1>5, <1>6, <1>7, <1>8, <1>9 DEF Next, RebuildStep, Worker

\* The lock does what its comment says: for any number of writes of the
\* credentials in a row, a service attached for one of them is never replaced
\* by one attached for another and built from older credentials.
THEOREM ProvidersStayInOrder == Spec => ProvidersRebindInOrder
<1>1. Init => LockInv
    BY WorkerAssumption DEF Init, LockInv, AtWork, Worker
<1>2. ReactorInv /\ LockInv /\ [Next]_vars => LockInv' /\ rebound' >= rebound
    BY LockStep DEF ReactorInv
<1>3. ReactorInv /\ LockInv /\ [Next]_vars => [rebound' >= rebound]_vars
    BY <1>2
<1> QED BY <1>1, <1>2, <1>3, ReactorInvCorrect, PTL DEF Spec, ProvidersRebindInOrder
=============================================================================
