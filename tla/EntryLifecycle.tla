--------------------------- MODULE EntryLifecycle ---------------------------
(***************************************************************************)
(* One config entry of one household in one process (__init__.py): setup,  *)
(* activation listener, source listeners (source_listener.py), recovery    *)
(* tick and unload, next to the calls of administrators that activate      *)
(* other graphs in the shared RegistryRuntime (registry_service.py).       *)
(*                                                                         *)
(* Every load of the entry creates a runtime object; `load' is its number. *)
(* A graph is a number too; it reads some of the sources.  Sources stand   *)
(* for (binding, entity) pairs: a binding that moves to another entity is  *)
(* another source.  world[s] numbers the states of s in Home Assistant, 0  *)
(* for an entity without state; a signal is the number of the state it was *)
(* made from, 0 for no signal.                                             *)
(*                                                                         *)
(* Home Assistant 2024.12, the oldest that hacs.json admits, starts tasks  *)
(* and event handlers eagerly: rebind_sources and handle_event, which do   *)
(* not suspend, run to their end where they are started.                   *)
(***************************************************************************)
EXTENDS Integers, Sequences

CONSTANTS
  Sources,
  MaxGraphs, (* bound: graphs built                                        *)
  MaxLoads,  (* bound: loads of the entry                                  *)
  MaxEvents, (* bound: states of one source                                *)
  MaxQueue,  (* bound: calls that hold or await the activation lock        *)
  ReadsMiss, (* a read finds no revision though the runtime holds one      *)
  ActivationsDuringSetup, (* others activate while setup loads its storage *)
  CallsSpanUnload (* calls of administrators are under way at an unload    *)

ASSUME EntryConstants ==
  /\ MaxGraphs \in Nat /\ MaxLoads \in Nat /\ MaxEvents \in Nat /\ MaxQueue \in Nat
  /\ ReadsMiss \in BOOLEAN /\ ActivationsDuringSetup \in BOOLEAN /\ CallsSpanUnload \in BOOLEAN

VARIABLES
  entry,     (* where async_setup_entry or async_unload_entry stands       *)
  reg,       (* registry.get(entry_id): the load, 0 for none               *)
  loads,     (* runtime objects created                                    *)
  captured,  (* the graph setup will give to its runtime                   *)
  bound,     (* runtime.graph of each load, 0 for the empty graph          *)
  subs,      (* source subscriptions of each load                          *)
  listening, (* loads whose on_registry_activation is registered           *)
  timers,    (* loads whose recovery timer runs                            *)
  queue,     (* calls in the order of the activation lock; the first has it *)
  live,      (* RegistryRuntime.active(profile), 0 for none                *)
  graphs,    (* graphs built                                               *)
  uses,      (* the sources of each graph's enabled bindings               *)
  signals,   (* the signals of each graph                                  *)
  world

vars == <<entry, reg, loads, captured, bound, subs, listening, timers, queue,
          live, graphs, uses, signals, world>>
runtimeVars == <<reg, loads, captured, listening, timers>>

Graphs == 1..MaxGraphs
Loads == 1..MaxLoads

(* load: the load registered when the call began; graph: the graph a save  *)
(* or rollback has prepared, 0 before that.                                *)
Call == [who : {"setup", "tick", "read", "save"}, load : 0..MaxLoads,
         graph : 0..MaxGraphs]

TypeOK ==
  /\ entry \in {"unloaded", "reading", "storage", "loaded", "unloading"}
  /\ reg \in 0..MaxLoads /\ loads \in 0..MaxLoads
  /\ captured \in 0..MaxGraphs /\ live \in 0..MaxGraphs /\ graphs \in 0..MaxGraphs
  /\ bound \in [Loads -> 0..MaxGraphs]
  /\ subs \in [Loads -> SUBSET (Graphs \X Sources)]
  /\ listening \in SUBSET Loads /\ timers \in SUBSET Loads
  /\ queue \in Seq(Call) /\ Len(queue) <= MaxQueue
  /\ uses \in [0..MaxGraphs -> SUBSET Sources]
  /\ signals \in [0..MaxGraphs -> [Sources -> 0..MaxEvents]]
  /\ world \in [Sources -> 0..MaxEvents]

-----------------------------------------------------------------------------
(* Helpers.  A comment that begins with "Faulty" marks the code with one   *)
(* plausible mistake, which some property must notice.                     *)

Current == Head(queue)

Enqueue(who, load) ==
  /\ Len(queue) < MaxQueue
  /\ queue' = Append(queue, [who |-> who, load |-> load, graph |-> 0])

Queued(who) == \E i \in 1..Len(queue) : queue[i].who \in who

(* seed_unchanged_sources: the signals of the sources that the previous    *)
(* graph reads as well.                                                    *)
Seeded(sources, own, previous) ==
  [s \in Sources |->
     IF s \in sources \cap uses[previous] /\ signals[previous][s] # 0
       THEN signals[previous][s] ELSE own[s]]

NoSignals == [s \in Sources |-> 0]

(* Faulty: a prepared graph is activated as it is.                         *)
CarriedAtPreparation(g) == signals[g]

(* activate seeds the prepared graph again: state events may have arrived  *)
(* while the commit was awaited.                                           *)
Carried(g) == Seeded(uses[g], signals[g], live)

(* async_attach_source_listeners: a source without signal is read.         *)
Attached(sources, own) ==
  [s \in Sources |-> IF s \in sources /\ own[s] = 0 THEN world[s] ELSE own[s]]

(* Faulty: the old subscriptions are kept.                                 *)
SubscribedAgain(load, g, sources) == subs[load] \cup ({g} \X sources)

(* runtime.unload() and then one subscription per source.                  *)
Subscribed(load, g, sources) == {g} \X sources

(* on_registry_activation goes on only for the load that is registered.    *)
Notified == reg # 0 /\ reg \in listening

(* runtime.activate: the snapshot is swapped and the entry, when it        *)
(* listens, rebinds its sources at once.                                   *)
Install(g, sources, own) ==
  /\ entry = "storage" => ActivationsDuringSetup
  /\ uses' = [uses EXCEPT ![g] = sources]
  /\ IF Notified
       THEN /\ bound' = [bound EXCEPT ![reg] = g]
            /\ subs' = [subs EXCEPT ![reg] = Subscribed(reg, g, sources)]
            /\ signals' = [signals EXCEPT ![g] = Attached(sources, own)]
       ELSE /\ signals' = [signals EXCEPT ![g] = own]
            /\ UNCHANGED <<bound, subs>>

NoInstall == UNCHANGED <<bound, subs, uses, signals>>

(* Faulty: the tick does not look again after its await.                   *)
ReturnUnchecked(g) ==
  /\ queue' = Tail(queue)
  /\ live' = g
  /\ IF Current.who = "setup" THEN entry' = "storage" /\ captured' = g
     ELSE UNCHANGED <<entry, captured>>
  /\ UNCHANGED <<reg, loads, listening, timers, world>>

(* The caller goes on, with g in the runtime: setup captures the graph, a  *)
(* tick whose entry is gone takes the snapshot back.                       *)
Return(g) ==
  /\ queue' = Tail(queue)
  /\ live' = IF Current.who = "tick" /\ reg = 0 THEN 0 ELSE g
  /\ IF Current.who = "setup" THEN entry' = "storage" /\ captured' = g
     ELSE UNCHANGED <<entry, captured>>
  /\ UNCHANGED <<reg, loads, listening, timers, world>>

-----------------------------------------------------------------------------
(* async_setup_entry *)

BeginSetup ==
  /\ entry = "unloaded" /\ loads < MaxLoads
  /\ entry' = "reading"
  /\ Enqueue("setup", 0)
  /\ UNCHANGED <<runtimeVars, bound, subs, live, graphs, uses, signals, world>>

(* Faulty: an entry that starts without a graph does not listen.           *)
ListeningIfBound(load) == IF captured = 0 THEN listening ELSE listening \cup {load}

Listening(load) == listening \cup {load}

(* Faulty: the timer is started before the runtime is registered.          *)
TimerOfRegistered(load) == timers \cup {reg}

TimerStarted(load) == timers \cup {load}

(* From the end of storage.async_load to the end of the function.          *)
FinishSetup ==
  /\ entry = "storage"
  /\ entry' = "loaded"
  /\ loads' = loads + 1 /\ reg' = loads + 1
  /\ bound' = [bound EXCEPT ![loads + 1] = captured]
  /\ subs' = [subs EXCEPT ![loads + 1] = Subscribed(loads + 1, captured, uses[captured])]
  /\ signals' = [signals EXCEPT ![captured] = Attached(uses[captured], @)]
  /\ listening' = Listening(loads + 1)
  /\ timers' = TimerStarted(loads + 1)
  /\ UNCHANGED <<captured, queue, live, graphs, uses, world>>

(* storage.async_load or StorageCodec.decode raises.                       *)
SetupFails ==
  /\ entry = "storage"
  /\ entry' = "unloaded"
  /\ UNCHANGED <<runtimeVars, bound, subs, queue, live, graphs, uses, signals, world>>

-----------------------------------------------------------------------------
(* Calls that take the activation lock *)

(* refresh_registry_runtime, every twelfth time.                           *)
Tick(load) ==
  /\ load \in timers /\ reg = load
  /\ ~\E i \in 1..Len(queue) : queue[i].who = "tick" /\ queue[i].load = load
  /\ Enqueue("tick", load)
  /\ UNCHANGED <<entry, runtimeVars, bound, subs, live, graphs, uses, signals, world>>

(* A websocket command: "read" opens a draft or reads the active revision, *)
(* "save" stands for save and rollback.                                    *)
AdminCall(who) ==
  /\ ~Queued({"read", "save"})
  /\ Enqueue(who, reg)
  /\ UNCHANGED <<entry, runtimeVars, bound, subs, live, graphs, uses, signals, world>>

(* runtime.prepare, before the repository is called.                       *)
Prepare(sources) ==
  /\ queue # <<>> /\ Current.who = "save" /\ Current.graph = 0
  /\ graphs < MaxGraphs
  /\ graphs' = graphs + 1
  /\ uses' = [uses EXCEPT ![graphs + 1] = sources]
  /\ signals' = [signals EXCEPT ![graphs + 1] = Seeded(sources, NoSignals, live)]
  /\ queue' = [queue EXCEPT ![1].graph = graphs + 1]
  /\ UNCHANGED <<entry, runtimeVars, bound, subs, live, world>>

SaveCommits ==
  LET g == Current.graph IN
  /\ queue # <<>> /\ Current.who = "save" /\ Current.graph # 0
  /\ Install(g, uses[g], Carried(g))
  /\ Return(g)
  /\ UNCHANGED graphs

(* The database has the revision that is live, perhaps after the cache had *)
(* it: a change of source activates the same graph again.                  *)
ReadSame ==
  /\ queue # <<>> /\ Current.who # "save" /\ live # 0
  /\ NoInstall \/ Install(live, uses[live], signals[live])
  /\ Return(live)
  /\ UNCHANGED graphs

(* Another revision: prepare and activate without an await in between.     *)
ReadNewer(sources) ==
  /\ queue # <<>> /\ Current.who # "save"
  /\ graphs < MaxGraphs
  /\ graphs' = graphs + 1
  /\ Install(graphs + 1, sources, Seeded(sources, NoSignals, live))
  /\ Return(graphs + 1)

(* No revision: setup goes on with an empty graph of its own.              *)
ReadNothing ==
  /\ queue # <<>> /\ Current.who # "save"
  /\ live # 0 => ReadsMiss
  /\ queue' = Tail(queue)
  /\ live' = IF Current.who = "tick" /\ reg = 0 THEN 0 ELSE live
  /\ IF Current.who = "setup" THEN entry' = "storage" /\ captured' = 0
     ELSE UNCHANGED <<entry, captured>>
  /\ UNCHANGED <<reg, loads, listening, timers, bound, subs, graphs, uses, signals, world>>

(* An exception: setup gives up, the others report it.                     *)
CallFails ==
  /\ queue # <<>>
  /\ queue' = Tail(queue)
  /\ entry' = IF Current.who = "setup" THEN "unloaded" ELSE entry
  /\ UNCHANGED <<runtimeVars, bound, subs, live, graphs, uses, signals, world>>

-----------------------------------------------------------------------------
(* async_unload_entry: the runtime leaves the registry, the platforms are  *)
(* awaited, everything else follows without suspending, the callbacks of   *)
(* entry.async_on_unload included.                                         *)

BeginUnload ==
  /\ entry = "loaded"
  /\ Queued({"read", "save"}) => CallsSpanUnload
  /\ entry' = "unloading" /\ reg' = 0
  /\ UNCHANGED <<loads, captured, bound, subs, listening, timers, queue, live,
                 graphs, uses, signals, world>>

FinishUnload ==
  /\ entry = "unloading"
  /\ Queued({"read", "save"}) => CallsSpanUnload
  /\ entry' = "unloaded" /\ live' = 0
  /\ subs' = [subs EXCEPT ![loads] = {}]
  /\ listening' = listening \ {loads} /\ timers' = timers \ {loads}
  /\ UNCHANGED <<reg, loads, captured, bound, queue, graphs, uses, signals, world>>

-----------------------------------------------------------------------------
(* A source changes: every subscription whose graph is still the graph of  *)
(* its runtime ingests the state.                                          *)

StateEvent(s) ==
  /\ world[s] < MaxEvents
  /\ world' = [world EXCEPT ![s] = @ + 1]
  /\ signals' = [g \in 0..MaxGraphs |->
       IF \E load \in Loads : <<g, s>> \in subs[load] /\ bound[load] = g
         THEN [signals[g] EXCEPT ![s] = world[s] + 1] ELSE signals[g]]
  /\ UNCHANGED <<entry, runtimeVars, bound, subs, queue, live, graphs, uses>>

-----------------------------------------------------------------------------

Init ==
  /\ entry = "unloaded" /\ reg = 0 /\ loads = 0 /\ captured = 0
  /\ bound = [load \in Loads |-> 0]
  /\ subs = [load \in Loads |-> {}]
  /\ listening = {} /\ timers = {}
  /\ queue = <<>> /\ live = 0 /\ graphs = 0
  /\ uses = [g \in 0..MaxGraphs |-> {}]
  /\ signals = [g \in 0..MaxGraphs |-> NoSignals]
  /\ world \in [Sources -> {n \in 0..1 : n <= MaxEvents}]

Next ==
  \/ BeginSetup \/ FinishSetup \/ SetupFails
  \/ \E load \in Loads : Tick(load)
  \/ \E who \in {"read", "save"} : AdminCall(who)
  \/ \E sources \in SUBSET Sources : Prepare(sources) \/ ReadNewer(sources)
  \/ SaveCommits \/ ReadSame \/ ReadNothing \/ CallFails
  \/ BeginUnload \/ FinishUnload
  \/ \E s \in Sources : StateEvent(s)

Spec == Init /\ [][Next]_vars

-----------------------------------------------------------------------------
(* Properties *)

(* A loaded entry works on the graph that is active in the household:      *)
(* what its listeners ingest is what the consumers read.  The code does    *)
(* not ensure it: setup takes the graph before it listens.                 *)
BoundToLive == entry = "loaded" /\ live # 0 => bound[reg] = live

(* While an entry is loaded it does not fall behind: whenever the active   *)
(* graph or the graph of the entry changes, by whichever call and in       *)
(* whichever order with ticks and unloads, the entry works on the active   *)
(* one afterwards.  So a graph that was activated inside the storage await *)
(* of setup is all that it can miss, and the next activation ends that.    *)
NeverFallsBehind ==
  [][entry = "loaded" /\ entry' = "loaded" /\ (live' # live \/ bound' # bound)
     => bound'[reg] = live']_vars

(* A loaded entry subscribes every source of its graph and nothing else; a *)
(* load that is gone leaves no subscription, listener or timer behind.     *)
ListenersMatch ==
  \A load \in Loads :
    IF load = reg
      THEN subs[load] = {bound[load]} \X uses[bound[load]]
      ELSE entry # "unloading" => subs[load] = {} /\ load \notin listening \cup timers

(* Continuity of evidence: however often the graph is swapped, the signals *)
(* of a loaded entry are the latest states of their sources; no event is   *)
(* lost between the preparation of a graph and its activation.             *)
SignalsCurrent ==
  entry = "loaded" =>
    \A s \in uses[bound[reg]] : signals[bound[reg]][s] = world[s]

(* Unload removes the snapshot of the household for good: no call that     *)
(* began before it, a recovery tick above all, brings the snapshot back.   *)
UnloadIsFinal ==
  [][entry = "unloaded" /\ live = 0 /\ live' # 0 => Current.load = 0]_vars

=============================================================================
