------------------------- MODULE PreferenceReactor -------------------------
(***************************************************************************)
(* How saved preferences and credentials reach a running service.          *)
(*                                                                         *)
(*   preferences  the reactor collects the changes of each reaction for a  *)
(*                moment and runs its handler (preference_reactor.py)      *)
(*   credentials  each write of providers.json is handled by a task of its *)
(*                own, the tasks one after the other under a lock          *)
(*                (agent_manager.py _handle_providers_changed)             *)
(*                                                                         *)
(* Both build a new service in a thread and attach it; nothing orders the  *)
(* one against the other.  Preferences and credentials are the number of   *)
(* their saves.  Every reaction of one instance rebuilds the same service: *)
(* one does for STT and for TTS, three do for the memory.                  *)
(*   "swap"    the old service serves until the new one is built (STT, TTS)*)
(*   "detach"  the old service is detached and closed first (memory)       *)
(***************************************************************************)
EXTENDS Integers, Sequences

CONSTANTS
    Reaction,    \* the reactions that rebuild the service
    Handler,     \* the tasks that handle providers.changed
    Modes,       \* which of the two ways of rebuilding
    MaxSaves,    \* bound: saves of preferences
    MaxKeys,     \* bound: saves of credentials
    MaxFailures  \* bound: rebuilds that fail

ASSUME ModeAssumption == Modes \subseteq {"swap", "detach"}
ASSUME WorkerAssumption == Reaction \cap Handler = {}
ASSUME BoundAssumption ==
    MaxSaves \in Nat /\ MaxKeys \in Nat /\ MaxFailures \in Nat

VARIABLES
    mode,     \* how this service is rebuilt
    saved,    \* version of the current preferences
    keys,     \* version of the stored credentials
    bus,      \* preferences.saved events not yet handled, in order
    pending,  \* pending[r]: newest version in r's pending_changes, 0 when empty
    task,     \* task[w]: what a reaction or a handler is at
    reads,    \* reads[w]: what w's build is made from
    service,  \* what the attached service was built from
    tried,    \* history: the newest of each that a finished rebuild was made from
    rebound,  \* history: credentials of the last service a handler attached
    failures  \* bound: failed rebuilds so far

vars == <<mode, saved, keys, bus, pending, task, reads, service, tried, rebound, failures>>

Worker == Reaction \cup Handler
Settings == [prefs : Nat, keys : Nat]
NoService == [prefs |-> -1, keys |-> -1]

Event == [version : Nat, concerns : SUBSET Reaction]
Stage == {"none", "sleeping", "called", "closing", "building", "built"}

TypeOK ==
    /\ mode \in {"swap", "detach"}
    /\ saved \in Nat /\ keys \in Nat /\ bus \in Seq(Event)
    /\ pending \in [Reaction -> Nat]
    /\ task \in [Worker -> Stage]
    /\ reads \in [Worker -> Settings]
    /\ service \in Settings \cup {NoService}
    /\ tried \in Settings /\ rebound \in Nat /\ failures \in Nat

Init ==
    /\ mode \in Modes
    /\ saved = 0 /\ keys = 0 /\ bus = <<>>
    /\ pending = [r \in Reaction |-> 0]
    /\ task = [w \in Worker |-> "none"]
    /\ reads = [w \in Worker |-> [prefs |-> 0, keys |-> 0]]
    /\ service = [prefs |-> 0, keys |-> 0]
    /\ tried = [prefs |-> 0, keys |-> 0] /\ rebound = 0 /\ failures = 0

-----------------------------------------------------------------------------
(* The reactor *)

\* update_many persists the edit and publishes it; the event reaches the loop
\* later.  An edit may match the prefixes of several reactions.
UpdateMany ==
    /\ saved < MaxSaves
    /\ saved' = saved + 1
    /\ \E S \in SUBSET Reaction :
          /\ S # {}
          /\ bus' = Append(bus, [version |-> saved + 1, concerns |-> S])
    /\ UNCHANGED <<mode, keys, pending, task, reads, service, tried, rebound, failures>>

\* Mutant: a reaction that sleeps already forgets the new change.
DropWhileScheduled ==
    /\ bus # <<>>
    /\ LET idle == {r \in Head(bus).concerns : task[r] = "none"} IN
          /\ pending' = [r \in Reaction |->
                IF r \in idle THEN Head(bus).version ELSE pending[r]]
          /\ task' = [w \in Worker |-> IF w \in idle THEN "sleeping" ELSE task[w]]
    /\ bus' = Tail(bus)
    /\ UNCHANGED <<mode, saved, keys, reads, service, tried, rebound, failures>>

\* The change joins the pending ones of each matching reaction, and a task is
\* created for it unless one is not done yet: asleep or in the handler.
OnPreferencesSaved ==
    /\ bus # <<>>
    /\ LET hit == Head(bus).concerns IN
          /\ pending' = [r \in Reaction |->
                IF r \in hit THEN Head(bus).version ELSE pending[r]]
          /\ task' = [w \in Worker |->
                IF w \in hit /\ task[w] = "none" THEN "sleeping" ELSE task[w]]
    /\ bus' = Tail(bus)
    /\ UNCHANGED <<mode, saved, keys, reads, service, tried, rebound, failures>>

-----------------------------------------------------------------------------
(* The rebuild *)

\* _attach_new_... up to its first await: the close of the old service, or the
\* build in a thread, which is handed the preferences current at that moment.
Begin(w) ==
    /\ IF mode = "detach" /\ service # NoService
       THEN task' = [task EXCEPT ![w] = "closing"] /\ reads' = reads
       ELSE /\ task' = [task EXCEPT ![w] = "building"]
            /\ reads' = [reads EXCEPT ![w].prefs = saved]
    /\ service' = IF mode = "detach" THEN NoService ELSE service

\* Mutant: the taken changes leave a marker instead of an empty collection.
WakeLeavesMarker(r) ==
    /\ task[r] = "sleeping"
    /\ pending' = [pending EXCEPT ![r] = -1]
    /\ Begin(r)
    /\ UNCHANGED <<mode, saved, keys, bus, tried, rebound, failures>>

\* Mutant: the build starts from the preferences before the change.
WakeWithOwnVersion(r) ==
    /\ task[r] = "sleeping"
    /\ reads' = [reads EXCEPT ![r].prefs = pending[r] - 1]
    /\ pending' = [pending EXCEPT ![r] = 0]
    /\ task' = [task EXCEPT ![r] = "building"]
    /\ UNCHANGED <<mode, saved, keys, bus, service, tried, rebound, failures>>

\* The debounce elapses: the pending changes are taken, the handler runs.
Wake(r) ==
    /\ task[r] = "sleeping"
    /\ pending' = [pending EXCEPT ![r] = 0]
    /\ Begin(r)
    /\ UNCHANGED <<mode, saved, keys, bus, tried, rebound, failures>>

\* providers.json is written and published; the loop creates a task for it.
SaveProviders(h) ==
    /\ keys < MaxKeys
    /\ task[h] = "none"
    /\ keys' = keys + 1
    /\ task' = [task EXCEPT ![h] = "called"]
    /\ UNCHANGED <<mode, saved, bus, pending, reads, service, tried, rebound, failures>>

\* Mutant: the handlers do not wait for each other.
EnterAtOnce(h) ==
    /\ task[h] = "called"
    /\ Begin(h)
    /\ UNCHANGED <<mode, saved, keys, bus, pending, tried, rebound, failures>>

\* The handler has _providers_change_lock and comes to this service; it may have
\* rebuilt others before.
EnterLock(h) ==
    /\ task[h] = "called"
    /\ \A g \in Handler : task[g] \in {"none", "called"}
    /\ Begin(h)
    /\ UNCHANGED <<mode, saved, keys, bus, pending, tried, rebound, failures>>

\* The old service is closed; the build starts.
OldServiceClosed(w) ==
    /\ task[w] = "closing"
    /\ task' = [task EXCEPT ![w] = "building"]
    /\ reads' = [reads EXCEPT ![w].prefs = saved]
    /\ UNCHANGED <<mode, saved, keys, bus, pending, service, tried, rebound, failures>>

\* The thread looks the credentials up.
ReadCredentials(w) ==
    /\ task[w] = "building"
    /\ task' = [task EXCEPT ![w] = "built"]
    /\ reads' = [reads EXCEPT ![w].keys = keys]
    /\ UNCHANGED <<mode, saved, keys, bus, pending, service, tried, rebound, failures>>

Newer(a, b) == IF a < b THEN b ELSE a

\* The new service replaces whatever is attached by now, and the task ends.
Attach(w) ==
    /\ task[w] = "built"
    /\ service' = reads[w]
    /\ tried' = [prefs |-> Newer(tried.prefs, reads[w].prefs),
                 keys |-> Newer(tried.keys, reads[w].keys)]
    /\ rebound' = IF w \in Handler THEN reads[w].keys ELSE rebound
    /\ task' = [task EXCEPT ![w] = "none"]
    /\ UNCHANGED <<mode, saved, keys, bus, pending, reads, failures>>

\* The close or the build raises: this is logged and the task ends.
RebuildFails(w) ==
    /\ task[w] \in {"closing", "building", "built"}
    /\ failures < MaxFailures
    /\ failures' = failures + 1
    /\ tried' = [prefs |-> IF task[w] = "closing" THEN saved
                           ELSE Newer(tried.prefs, reads[w].prefs),
                 keys |-> IF task[w] = "built" THEN Newer(tried.keys, reads[w].keys)
                          ELSE keys]
    /\ task' = [task EXCEPT ![w] = "none"]
    /\ UNCHANGED <<mode, saved, keys, bus, pending, reads, service, rebound>>

RebuildStep(w) == OldServiceClosed(w) \/ ReadCredentials(w) \/ Attach(w)

Next ==
    \/ UpdateMany \/ OnPreferencesSaved
    \/ \E r \in Reaction : Wake(r)
    \/ \E h \in Handler : SaveProviders(h) \/ EnterLock(h)
    \/ \E w \in Worker : RebuildStep(w) \/ RebuildFails(w)

Spec == Init /\ [][Next]_vars

\* The event loop and the build threads run by themselves, and whoever has the
\* lock releases it.
FairSpec ==
    /\ Spec
    /\ WF_vars(OnPreferencesSaved)
    /\ \A r \in Reaction : WF_vars(Wake(r))
    /\ \A h \in Handler : WF_vars(EnterLock(h))
    /\ \A w \in Worker : WF_vars(RebuildStep(w))

-----------------------------------------------------------------------------
(* Properties *)

\* Nothing is on its way to the service.
Quiet ==
    /\ bus = <<>> /\ \A r \in Reaction : pending[r] = 0
    /\ \A w \in Worker : task[w] = "none"

\* No change is forgotten between the bus, the collecting reactions, the lock
\* and the threads: once nothing is on its way, a rebuild was made from the
\* current preferences and one from the current credentials, and was attached
\* or failed.
EveryChangeIsBuilt ==
    Quiet => tried.prefs = saved /\ tried.keys = keys

\* agent_manager.py: "Serialize PROVIDERS_CHANGED handling - burst admin writes
\* were racing cache clears and service swaps".  Among the services that
\* providers.changed attaches the credentials never go back, although its
\* handlers are tasks of their own and build in threads.
ProvidersRebindInOrder ==
    [][rebound' >= rebound]_vars

\* A change a sleeping reaction holds is in a rebuild of the service, and a
\* write of the credentials too.
ChangesReachARebuild ==
    /\ \A r \in Reaction : \A v \in 1..MaxSaves :
          (task[r] = "sleeping" /\ pending[r] = v) ~> (tried.prefs >= v)
    /\ \A v \in 1..MaxKeys : (keys = v) ~> (tried.keys >= v)

\* _reload_stt_on_change: swaps the new service in "so the next message uses the
\* new model".  Once nothing is on its way and no rebuild failed, the attached
\* service was built from the current preferences.
EditsTakeEffect ==
    Quiet /\ failures = 0 => service.prefs = saved

\* _schedule: "Burst already scheduled; pending_changes accumulates until it
\* fires."  Changes that are pending have a task that is going to take them.
PendingWillFire ==
    \A r \in Reaction : pending[r] # 0 => task[r] = "sleeping"
=============================================================================
