------------------------ MODULE EntryLifecycle_proofs ------------------------
(***************************************************************************)
(* Proofs about EntryLifecycle, for every set of sources and every number  *)
(* of graphs, loads, events and queued calls.                              *)
(***************************************************************************)
EXTENDS EntryLifecycle, SequenceTheorems, TLAPS

(* The load whose listeners exist: the loaded entry, until its unload ends. *)
Attending == IF entry \in {"loaded", "unloading"} THEN loads ELSE 0

(* The loads and the graphs are numbered in the order they come up.        *)
Numbered ==
  /\ reg = (IF entry = "loaded" THEN loads ELSE 0)
  /\ entry \in {"loaded", "unloading"} => loads # 0
  /\ entry \in {"reading", "storage"} => loads < MaxLoads
  /\ captured <= graphs /\ live <= graphs /\ \A load \in Loads : bound[load] <= graphs
  /\ uses[0] = {} /\ signals[0] = NoSignals

(* One setup at a time.                                                    *)
OneSetup ==
  \A i, j \in 1..Len(queue) :
    queue[i].who = "setup" =>
      /\ entry = "reading" /\ queue[i].load = 0
      /\ queue[j].who = "setup" => i = j

(* Only the call that has the lock has prepared, and its graph is nobody   *)
(* else's yet.                                                             *)
OnePrepared ==
  \A i \in 1..Len(queue) :
    queue[i].graph # 0 =>
      /\ i = 1 /\ queue[i].who = "save" /\ queue[i].graph <= graphs
      /\ queue[i].graph # captured /\ queue[i].graph # live
      /\ \A load \in Loads : queue[i].graph # bound[load]

QueueInOrder == OneSetup /\ OnePrepared

(* Only the load that attends is subscribed, to what its graph reads.      *)
Attentive ==
  \A load \in Loads :
    IF load = Attending
      THEN subs[load] = {bound[load]} \X uses[bound[load]] /\ load \in listening
      ELSE subs[load] = {} /\ load \notin listening \cup timers

LInv == TypeOK /\ Numbered /\ QueueInOrder /\ Attentive

(* The calls of administrators end before the load they began in.          *)
CallsOfThisLoad ==
  \A i \in 1..Len(queue) : queue[i].who \in {"read", "save"} /\ queue[i].load # 0 => entry = "loaded"

(* No signal is older than the listeners.                                  *)
NoSignalsYet ==
  entry \in {"unloaded", "reading", "storage"} =>
    signals[live] = NoSignals /\ (entry = "storage" => signals[captured] = NoSignals)

(* Of an active graph that the loaded entry has not bound there are none.  *)
BoundOrSilent == entry = "loaded" => live = bound[reg] \/ signals[live] = NoSignals

(* A prepared graph has signals of the active graph only.                  *)
SeededFromLive ==
  \A i \in 1..Len(queue) : queue[i].graph # 0 =>
    \A s \in Sources : signals[queue[i].graph][s] # 0 => s \in uses[live] /\ signals[live][s] # 0

SInv ==
  /\ CallsOfThisLoad /\ SignalsCurrent /\ NoSignalsYet /\ BoundOrSilent /\ SeededFromLive

-----------------------------------------------------------------------------
(* Lemmas about the operators                                              *)

LEMMA Appended ==
  ASSUME NEW q \in Seq(Call), NEW c \in Call
  PROVE  /\ Append(q, c) \in Seq(Call) /\ Len(q) \in Nat /\ Len(Append(q, c)) = Len(q) + 1
         /\ \A i \in 1..Len(Append(q, c)) :
              \/ i = Len(q) + 1 /\ Append(q, c)[i] = c
              \/ i \in 1..Len(q) /\ Append(q, c)[i] = q[i]
  BY AppendProperties, LenProperties

LEMMA Shortened ==
  ASSUME NEW q \in Seq(Call), q # <<>>
  PROVE  /\ Tail(q) \in Seq(Call) /\ Len(q) \in Nat /\ Len(Tail(q)) = Len(q) - 1
         /\ \A i \in 1..Len(Tail(q)) : i + 1 \in 1..Len(q) /\ Tail(q)[i] = q[i + 1]
         /\ 1 \in 1..Len(q) /\ Head(q) = q[1] /\ Head(q) \in Call
  <1>1. Len(q) \in Nat \ {0}
    BY EmptySeq, LenProperties
  <1>2. q[1] \in Call
    BY <1>1, ElementOfSeq
  <1> QED
    BY <1>1, <1>2, HeadTailProperties

LEMMA SignalsType ==
  ASSUME TypeOK
  PROVE  /\ NoSignals \in [Sources -> 0..MaxEvents]
         /\ \A sources \in SUBSET Sources : \A own \in [Sources -> 0..MaxEvents] :
              /\ Attached(sources, own) \in [Sources -> 0..MaxEvents]
              /\ \A g \in 0..MaxGraphs : Seeded(sources, own, g) \in [Sources -> 0..MaxEvents]
  BY EntryConstants DEF TypeOK, NoSignals, Attached, Seeded

(* What carries over from the empty graph, and what it attaches to.        *)
LEMMA EmptyGraph ==
  ASSUME TypeOK, Numbered
  PROVE  /\ \A sources \in SUBSET Sources : Seeded(sources, NoSignals, 0) = NoSignals
         /\ Attached({}, NoSignals) = NoSignals
  BY DEF Numbered, Seeded, Attached, NoSignals

(* The entry is notified exactly when it is loaded.                        *)
LEMMA NotifiedWhenLoaded ==
  ASSUME LInv
  PROVE  /\ Notified <=> entry = "loaded"
         /\ entry = "loaded" => reg \in Loads /\ reg = Attending
  BY EntryConstants DEF LInv, TypeOK, Numbered, Attentive, Attending, Notified, Loads

(* An activation of graph g, new or with the sources it had.               *)
LEMMA Installed ==
  ASSUME LInv, NEW g \in Graphs, NEW sources \in SUBSET Sources,
         NEW own \in [Sources -> 0..MaxEvents],
         sources = uses[g] \/ g > graphs, Install(g, sources, own)
  PROVE  /\ bound' \in [Loads -> 0..MaxGraphs]
         /\ subs' \in [Loads -> SUBSET (Graphs \X Sources)]
         /\ uses' \in [0..MaxGraphs -> SUBSET Sources]
         /\ signals' \in [0..MaxGraphs -> [Sources -> 0..MaxEvents]]
         /\ uses' = [uses EXCEPT ![g] = sources]
         /\ signals' = [signals EXCEPT ![g] = IF entry = "loaded" THEN Attached(sources, own) ELSE own]
         /\ \A load \in Loads :
              /\ bound'[load] = IF entry = "loaded" /\ load = reg THEN g ELSE bound[load]
              /\ IF load = Attending THEN subs'[load] = {bound'[load]} \X uses'[bound'[load]]
                 ELSE subs'[load] = {}
  <1> DEFINE attached == Attached(sources, own)
  <1>1. /\ bound \in [Loads -> 0..MaxGraphs] /\ subs \in [Loads -> SUBSET (Graphs \X Sources)]
        /\ uses \in [0..MaxGraphs -> SUBSET Sources] /\ graphs \in Nat /\ live \in 0..MaxGraphs
        /\ signals \in [0..MaxGraphs -> [Sources -> 0..MaxEvents]]
        /\ \A load \in Loads : bound[load] <= graphs
        /\ g \in 0..MaxGraphs /\ g # 0
    BY EntryConstants DEF LInv, TypeOK, Numbered, Graphs
  <1>2. attached \in [Sources -> 0..MaxEvents]
    BY SignalsType DEF LInv
  <1>3. uses' = [uses EXCEPT ![g] = sources]
    BY DEF Install
  <1>4. \A load \in Loads : uses'[bound[load]] = uses[bound[load]]
    BY <1>1, <1>3
  <1>5. \A load \in Loads : IF load = Attending THEN subs[load] = {bound[load]} \X uses[bound[load]]
                            ELSE subs[load] = {}
    BY DEF LInv, Attentive
  <1> HIDE DEF attached
  <1>6. CASE entry = "loaded"
    <2>1. /\ reg \in Loads /\ reg = Attending
          /\ bound' = [bound EXCEPT ![reg] = g]
          /\ subs' = [subs EXCEPT ![reg] = {g} \X sources]
          /\ signals' = [signals EXCEPT ![g] = attached]
      BY <1>6, NotifiedWhenLoaded DEF Install, Subscribed, attached
    <2>2. {g} \X sources \in SUBSET (Graphs \X Sources)
      OBVIOUS
    <2>3. /\ bound' \in [Loads -> 0..MaxGraphs]
          /\ subs' \in [Loads -> SUBSET (Graphs \X Sources)]
          /\ signals' \in [0..MaxGraphs -> [Sources -> 0..MaxEvents]]
      BY <1>1, <1>2, <2>1, <2>2
    <2>4. ASSUME NEW load \in Loads
          PROVE  /\ bound'[load] = IF load = reg THEN g ELSE bound[load]
                 /\ IF load = Attending THEN subs'[load] = {bound'[load]} \X uses'[bound'[load]]
                    ELSE subs'[load] = {}
      BY <1>1, <1>3, <1>5, <2>1
    <2> QED
      BY <1>1, <1>3, <1>6, <2>1, <2>3, <2>4 DEF attached
  <1>7. CASE entry # "loaded"
    <2>1. UNCHANGED <<bound, subs>> /\ signals' = [signals EXCEPT ![g] = own]
      BY <1>7, NotifiedWhenLoaded DEF Install
    <2> QED
      BY <1>1, <1>3, <1>4, <1>5, <1>7, <2>1
  <1> QED
    BY <1>6, <1>7

-----------------------------------------------------------------------------
(* The queue                                                               *)

(* A call leaves the queue, which only a call without graph follows.       *)
LEMMA QueueShortened ==
  ASSUME LInv, queue # <<>>, queue' = Tail(queue),
         Current.who = "setup" \/ entry' = entry
  PROVE  /\ QueueInOrder' /\ queue' \in Seq(Call) /\ Len(queue') <= MaxQueue
         /\ \A i \in 1..Len(queue') :
              queue'[i].graph = 0 /\ i + 1 \in 1..Len(queue) /\ queue'[i] = queue[i + 1]
  <1>1. /\ queue \in Seq(Call) /\ Len(queue) <= MaxQueue
        /\ queue' \in Seq(Call) /\ Len(queue) \in Nat /\ Len(queue') = Len(queue) - 1
        /\ \A i \in 1..Len(queue') : i + 1 \in 1..Len(queue) /\ queue'[i] = queue[i + 1]
        /\ 1 \in 1..Len(queue) /\ Current = queue[1]
    BY Shortened DEF LInv, TypeOK, Current
  <1>2. \A i \in 1..Len(queue') : queue'[i].graph = 0
    BY <1>1 DEF LInv, QueueInOrder, OneSetup, OnePrepared
  <1>3. \A i \in 1..Len(queue') : queue'[i].who = "setup" => Current.who # "setup"
    BY <1>1 DEF LInv, QueueInOrder, OneSetup, OnePrepared
  <1>4. ASSUME NEW i \in 1..Len(queue'), NEW j \in 1..Len(queue'), queue'[i].who = "setup"
        PROVE  /\ entry' = "reading" /\ queue'[i].load = 0
               /\ queue'[j].who = "setup" => i = j
    <2>1. entry' = entry
      BY <1>3, <1>4
    <2>2. i + 1 \in 1..Len(queue) /\ j + 1 \in 1..Len(queue)
          /\ queue'[i] = queue[i + 1] /\ queue'[j] = queue[j + 1]
      BY <1>1
    <2> QED
      BY <1>4, <2>1, <2>2 DEF LInv, QueueInOrder, OneSetup, OnePrepared
  <1>5. OneSetup'
    BY <1>4 DEF OneSetup
  <1>6. OnePrepared'
    BY <1>2 DEF OnePrepared
  <1> QED
    BY <1>1, <1>2, <1>5, <1>6, EntryConstants DEF QueueInOrder

(* A call joins the queue.                                                 *)
LEMMA QueueGrown ==
  ASSUME LInv, NEW who \in {"setup", "tick", "read", "save"}, NEW load \in 0..MaxLoads,
         Enqueue(who, load),
         IF who = "setup" THEN entry = "unloaded" /\ entry' = "reading" /\ load = 0
         ELSE entry' = entry,
         UNCHANGED <<captured, live, bound, graphs>>
  PROVE  /\ QueueInOrder' /\ queue' \in Seq(Call) /\ Len(queue') <= MaxQueue
         /\ \A i \in 1..Len(queue') :
              \/ queue'[i].who = who /\ queue'[i].load = load /\ queue'[i].graph = 0
              \/ i \in 1..Len(queue) /\ queue'[i] = queue[i]
  <1> DEFINE c == [who |-> who, load |-> load, graph |-> 0]
  <1>1. c \in Call /\ c.who = who /\ c.load = load /\ c.graph = 0
    BY EntryConstants DEF Call
  <1> HIDE DEF c
  <1>2. /\ queue \in Seq(Call) /\ Len(queue) < MaxQueue
        /\ queue' \in Seq(Call) /\ Len(queue) \in Nat /\ Len(queue') = Len(queue) + 1
        /\ \A i \in 1..Len(queue') :
             \/ i = Len(queue) + 1 /\ queue'[i] = c
             \/ i \in 1..Len(queue) /\ queue'[i] = queue[i]
    BY <1>1, Appended DEF LInv, TypeOK, Enqueue, c
  <1>3. ASSUME NEW i \in 1..Len(queue'), NEW j \in 1..Len(queue'), queue'[i].who = "setup"
        PROVE  /\ entry' = "reading" /\ queue'[i].load = 0
               /\ queue'[j].who = "setup" => i = j
    <2>1. CASE i = Len(queue) + 1 /\ queue'[i] = c
      BY <1>1, <1>2, <1>3, <2>1 DEF LInv, QueueInOrder, OneSetup, OnePrepared
    <2>2. CASE i \in 1..Len(queue) /\ queue'[i] = queue[i]
      BY <1>1, <1>2, <1>3, <2>2 DEF LInv, QueueInOrder, OneSetup, OnePrepared
    <2> QED
      BY <1>2, <2>1, <2>2
  <1>4. ASSUME NEW i \in 1..Len(queue'), queue'[i].graph # 0
        PROVE  /\ i = 1 /\ queue'[i].who = "save" /\ queue'[i].graph <= graphs'
               /\ queue'[i].graph # captured' /\ queue'[i].graph # live'
               /\ \A l \in Loads : queue'[i].graph # bound'[l]
    <2>1. i \in 1..Len(queue) /\ queue'[i] = queue[i]
      BY <1>1, <1>2, <1>4
    <2> QED
      BY <1>4, <2>1 DEF LInv, QueueInOrder, OneSetup, OnePrepared
  <1>5. OneSetup'
    BY <1>3 DEF OneSetup
  <1>6. OnePrepared'
    BY <1>4 DEF OnePrepared
  <1> QED
    BY <1>1, <1>2, <1>5, <1>6, EntryConstants DEF QueueInOrder

(* The queue stays; nobody takes over a graph that is only prepared.       *)
LEMMA QueueUntouched ==
  ASSUME LInv, queue' = queue, graphs' = graphs,
         entry' = entry \/ entry # "reading",
         captured' = captured, live' \in {0, live},
         \A load \in Loads : bound'[load] \in {bound[load], captured}
  PROVE  QueueInOrder'
  <1>1. OneSetup'
    BY DEF LInv, QueueInOrder, OneSetup
  <1>2. OnePrepared'
    BY DEF LInv, QueueInOrder, OnePrepared
  <1> QED
    BY <1>1, <1>2 DEF QueueInOrder

-----------------------------------------------------------------------------
(* The listeners and the queue, step by step                               *)

(* The calls come and go, and setup advances towards its end.              *)
LEMMA QueueSteps ==
  ASSUME LInv, QueueInOrder', queue' \in Seq(Call), Len(queue') <= MaxQueue,
         UNCHANGED <<reg, loads, bound, subs, listening, timers, graphs, uses, signals, world>>,
         captured' \in {0, captured, live}, live' \in {0, live},
         \/ entry' = entry
         \/ entry \notin {"loaded", "unloading"} /\ entry' = "unloaded"
         \/ entry = "unloaded" /\ entry' = "reading" /\ loads < MaxLoads
         \/ entry = "reading" /\ entry' = "storage"
  PROVE  LInv'
  <1>1. TypeOK'
    BY EntryConstants DEF LInv, TypeOK
  <1>2. Numbered'
    BY EntryConstants DEF LInv, TypeOK, Numbered
  <1>3. Attentive'
    <2>1. Attending' = Attending
      BY DEF Attending
    <2> QED
      BY <2>1 DEF LInv, Attentive
  <1> QED
    BY <1>1, <1>2, <1>3 DEF LInv

LEMMA BeginSetupInv ==
  ASSUME LInv, BeginSetup
  PROVE  LInv'
  <1>1. QueueInOrder' /\ queue' \in Seq(Call) /\ Len(queue') <= MaxQueue
    BY QueueGrown, EntryConstants DEF BeginSetup, runtimeVars
  <1> QED
    BY <1>1, QueueSteps DEF BeginSetup, runtimeVars

LEMMA SetupFailsInv ==
  ASSUME LInv, SetupFails
  PROVE  LInv'
  <1>1. QueueInOrder'
    BY QueueUntouched DEF SetupFails, runtimeVars
  <1> QED
    BY <1>1, QueueSteps DEF SetupFails, runtimeVars, LInv, TypeOK

LEMMA EnqueueInv ==
  ASSUME LInv, (\E load \in Loads : Tick(load)) \/ (\E who \in {"read", "save"} : AdminCall(who))
  PROVE  LInv'
  <1>1. \E who \in {"tick", "read", "save"}, load \in 0..MaxLoads : Enqueue(who, load)
    BY DEF Tick, AdminCall, LInv, TypeOK, Loads
  <1>2. UNCHANGED <<entry, runtimeVars, bound, subs, live, graphs, uses, signals, world>>
    BY DEF Tick, AdminCall
  <1>3. QueueInOrder' /\ queue' \in Seq(Call) /\ Len(queue') <= MaxQueue
    BY <1>1, <1>2, QueueGrown DEF runtimeVars
  <1> QED
    BY <1>2, <1>3, QueueSteps DEF runtimeVars

LEMMA ReturnsInv ==
  ASSUME LInv, ReadNothing \/ CallFails \/ (ReadSame /\ NoInstall)
  PROVE  LInv'
  <1>1. /\ queue # <<>> /\ queue' = Tail(queue)
        /\ UNCHANGED <<reg, loads, bound, subs, listening, timers, graphs, uses, signals, world>>
        /\ live' \in {0, live} /\ captured' \in {0, captured, live}
        /\ IF Current.who = "setup" THEN entry' \in {"storage", "unloaded"} ELSE entry' = entry
    BY DEF ReadNothing, CallFails, ReadSame, NoInstall, Return, runtimeVars
  <1>2. QueueInOrder' /\ queue' \in Seq(Call) /\ Len(queue') <= MaxQueue
    BY <1>1, QueueShortened
  <1>3. Current.who = "setup" => entry = "reading"
    BY <1>1, Shortened DEF Current, LInv, TypeOK, QueueInOrder, OneSetup
  <1> QED
    BY <1>1, <1>2, <1>3, QueueSteps

(* A graph becomes active, one that exists or the next one.                *)
LEMMA InstallsInv ==
  ASSUME LInv, queue # <<>>, NEW g \in Graphs, NEW sources \in SUBSET Sources,
         NEW own \in [Sources -> 0..MaxEvents],
         Install(g, sources, own), Return(g),
         \/ sources = uses[g] /\ g <= graphs /\ graphs' = graphs
         \/ g = graphs + 1 /\ graphs' = graphs + 1
  PROVE  LInv'
  <1>1. /\ queue' = Tail(queue) /\ UNCHANGED <<reg, loads, listening, timers, world>>
        /\ live' \in {0, g} /\ captured' \in {captured, g}
        /\ IF Current.who = "setup" THEN entry' = "storage" ELSE entry' = entry
    BY DEF Return
  <1>2. QueueInOrder' /\ queue' \in Seq(Call) /\ Len(queue') <= MaxQueue
    BY <1>1, QueueShortened
  <1>3. Current.who = "setup" => entry = "reading"
    BY Shortened DEF Current, LInv, TypeOK, QueueInOrder, OneSetup
  <1>4. graphs \in 0..MaxGraphs /\ graphs' \in 0..MaxGraphs /\ graphs <= graphs' /\ g <= graphs' /\ g # 0
        /\ captured \in 0..MaxGraphs /\ g \in 0..MaxGraphs /\ (sources = uses[g] \/ g > graphs)
    BY EntryConstants DEF LInv, TypeOK, Graphs
  <1>5. /\ bound' \in [Loads -> 0..MaxGraphs]
        /\ subs' \in [Loads -> SUBSET (Graphs \X Sources)]
        /\ uses' \in [0..MaxGraphs -> SUBSET Sources]
        /\ signals' \in [0..MaxGraphs -> [Sources -> 0..MaxEvents]]
        /\ uses' = [uses EXCEPT ![g] = sources]
        /\ signals'[0] = signals[0]
        /\ \A load \in Loads :
             /\ bound'[load] \in {g, bound[load]}
             /\ IF load = Attending THEN subs'[load] = {bound'[load]} \X uses'[bound'[load]]
                ELSE subs'[load] = {}
    <2>1. signals \in [0..MaxGraphs -> [Sources -> 0..MaxEvents]]
      BY DEF LInv, TypeOK
    <2>2. \A own2 : signals' = [signals EXCEPT ![g] = own2] => signals'[0] = signals[0]
      BY <1>4, <2>1, EntryConstants
    <2>3. /\ bound' \in [Loads -> 0..MaxGraphs]
          /\ subs' \in [Loads -> SUBSET (Graphs \X Sources)]
          /\ uses' \in [0..MaxGraphs -> SUBSET Sources]
          /\ signals' \in [0..MaxGraphs -> [Sources -> 0..MaxEvents]]
          /\ uses' = [uses EXCEPT ![g] = sources]
          /\ signals' = [signals EXCEPT ![g] =
                            IF entry = "loaded" THEN Attached(sources, own) ELSE own]
          /\ \A load \in Loads :
               /\ bound'[load] = IF entry = "loaded" /\ load = reg THEN g ELSE bound[load]
               /\ IF load = Attending THEN subs'[load] = {bound'[load]} \X uses'[bound'[load]]
                  ELSE subs'[load] = {}
      BY <1>4, Installed
    <2>4. signals'[0] = signals[0]
      BY <2>2, <2>3
    <2>5. \A load \in Loads : bound'[load] \in {g, bound[load]}
      BY <2>3
    <2> QED
      BY <2>3, <2>4, <2>5
  <1>6. TypeOK'
    <2>1. live' \in 0..MaxGraphs /\ captured' \in 0..MaxGraphs
      BY <1>1, <1>4, EntryConstants
    <2>2. entry' \in {"unloaded", "reading", "storage", "loaded", "unloading"}
      BY <1>1 DEF LInv, TypeOK
    <2> QED
      BY <1>1, <1>2, <1>4, <1>5, <2>1, <2>2 DEF LInv, TypeOK
  <1>7. Numbered'
    <2>1. captured <= graphs /\ live <= graphs /\ \A load \in Loads : bound[load] <= graphs
      BY DEF LInv, Numbered
    <2>2. captured' <= graphs' /\ live' <= graphs'
      BY <1>1, <1>4, <2>1, EntryConstants
    <2>3. \A load \in Loads : bound'[load] <= graphs'
      <3> SUFFICES ASSUME NEW load \in Loads PROVE bound'[load] <= graphs'
        OBVIOUS
      <3>1. bound'[load] \in {g, bound[load]}
        BY <1>5
      <3>2. bound[load] \in 0..MaxGraphs /\ bound[load] <= graphs
        BY <2>1 DEF LInv, TypeOK
      <3> QED
        BY <1>4, <3>1, <3>2, EntryConstants
    <2>4. uses'[0] = {} /\ signals'[0] = NoSignals
      BY <1>4, <1>5 DEF LInv, Numbered, TypeOK
    <2> QED
      BY <1>1, <1>3, <2>2, <2>3, <2>4 DEF LInv, Numbered, NoSignals
  <1>8. Attentive'
    <2>1. Attending' = Attending
      BY <1>1, <1>3 DEF Attending
    <2> QED
      BY <1>1, <1>5, <2>1 DEF LInv, Attentive
  <1> QED
    BY <1>2, <1>6, <1>7, <1>8 DEF LInv

LEMMA SaveCommitsInv ==
  ASSUME LInv, SaveCommits
  PROVE  LInv'
  <1> DEFINE g == Current.graph
  <1>1. g \in Graphs /\ g <= graphs /\ g \in 0..MaxGraphs
    <2>1. Current = queue[1] /\ Current \in Call /\ 1 \in 1..Len(queue)
      BY Shortened DEF SaveCommits, Current, LInv, TypeOK
    <2> QED
      BY <2>1, EntryConstants DEF SaveCommits, Call, Graphs, LInv, QueueInOrder, OnePrepared
  <1>2. uses[g] \in SUBSET Sources /\ Carried(g) \in [Sources -> 0..MaxEvents]
    BY <1>1, SignalsType DEF LInv, TypeOK, Carried
  <1> QED
    BY <1>1, <1>2, InstallsInv DEF SaveCommits

LEMMA ReadSameInv ==
  ASSUME LInv, ReadSame
  PROVE  LInv'
  <1>1. CASE Install(live, uses[live], signals[live])
    <2>1. live \in Graphs /\ live <= graphs /\ uses[live] \in SUBSET Sources
          /\ signals[live] \in [Sources -> 0..MaxEvents]
      BY EntryConstants DEF ReadSame, LInv, TypeOK, Numbered, Graphs
    <2> QED
      BY <1>1, <2>1, InstallsInv DEF ReadSame
  <1>2. CASE NoInstall
    BY <1>2, ReturnsInv
  <1> QED
    BY <1>1, <1>2 DEF ReadSame

LEMMA ReadNewerInv ==
  ASSUME LInv, NEW sources \in SUBSET Sources, ReadNewer(sources)
  PROVE  LInv'
  <1>1. graphs + 1 \in Graphs
    BY EntryConstants DEF ReadNewer, LInv, TypeOK, Graphs
  <1>2. Seeded(sources, NoSignals, live) \in [Sources -> 0..MaxEvents]
    BY SignalsType DEF LInv, TypeOK
  <1> QED
    BY <1>1, <1>2, InstallsInv DEF ReadNewer

(* A save builds the next graph, for nobody else to use.                   *)
LEMMA PrepareInv ==
  ASSUME LInv, NEW sources \in SUBSET Sources, Prepare(sources)
  PROVE  LInv'
  <1> DEFINE g == graphs + 1
             prepared == [queue[1] EXCEPT !.graph = g]
  <1>1. /\ UNCHANGED <<entry, reg, loads, captured, listening, timers, bound, subs, live, world>>
        /\ graphs' = g
        /\ uses' = [uses EXCEPT ![g] = sources]
        /\ signals' = [signals EXCEPT ![g] = Seeded(sources, NoSignals, live)]
    BY DEF Prepare, runtimeVars
  <1>2. /\ g \in 0..MaxGraphs /\ g # 0 /\ graphs \in Nat
        /\ captured # g /\ live # g /\ \A load \in Loads : bound[load] # g
        /\ captured <= g /\ live <= g /\ \A load \in Loads : bound[load] <= g
    BY EntryConstants DEF Prepare, LInv, TypeOK, Numbered
  <1>3. 1 \in 1..Len(queue) /\ queue[1] \in Call /\ queue[1].who = "save"
    BY Shortened DEF Prepare, Current, LInv, TypeOK
  <1>4. prepared \in Call /\ prepared.who = "save" /\ prepared.graph = g
    BY <1>2, <1>3 DEF Call
  <1>5. queue' = [queue EXCEPT ![1] = prepared]
    BY DEF Prepare
  <1> HIDE DEF prepared, g
  <1>6. /\ queue' \in Seq(Call) /\ Len(queue') = Len(queue)
        /\ \A i \in 1..Len(queue) : queue'[i] = IF i = 1 THEN prepared ELSE queue[i]
    BY <1>3, <1>4, <1>5, ExceptSeq DEF LInv, TypeOK
  <1>7. OneSetup'
    BY <1>1, <1>3, <1>4, <1>6 DEF LInv, QueueInOrder, OneSetup
  <1>8. OnePrepared'
    BY <1>1, <1>2, <1>4, <1>6, EntryConstants DEF LInv, QueueInOrder, OnePrepared
  <1>9. TypeOK'
    <2>1. Seeded(sources, NoSignals, live) \in [Sources -> 0..MaxEvents]
      BY SignalsType DEF LInv, TypeOK
    <2>2. uses' \in [0..MaxGraphs -> SUBSET Sources]
          /\ signals' \in [0..MaxGraphs -> [Sources -> 0..MaxEvents]]
      BY <1>1, <1>2, <2>1 DEF LInv, TypeOK
    <2> QED
      BY <1>1, <1>2, <1>6, <2>2 DEF LInv, TypeOK
  <1>10. Numbered'
    BY <1>1, <1>2 DEF LInv, TypeOK, Numbered, NoSignals
  <1>11. Attentive'
    <2>1. Attending' = Attending
      BY <1>1 DEF Attending
    <2>2. \A load \in Loads : uses'[bound[load]] = uses[bound[load]]
      BY <1>1, <1>2 DEF LInv, TypeOK
    <2> QED
      BY <1>1, <2>1, <2>2 DEF LInv, Attentive
  <1> QED
    BY <1>7, <1>8, <1>9, <1>10, <1>11 DEF LInv, QueueInOrder

LEMMA FinishSetupInv ==
  ASSUME LInv, FinishSetup
  PROVE  LInv'
  <1> DEFINE load == loads + 1
  <1>1. /\ entry = "storage" /\ entry' = "loaded" /\ loads' = load /\ reg' = load
        /\ bound' = [bound EXCEPT ![load] = captured]
        /\ subs' = [subs EXCEPT ![load] = {captured} \X uses[captured]]
        /\ signals' = [signals EXCEPT ![captured] = Attached(uses[captured], signals[captured])]
        /\ listening' = listening \cup {load} /\ timers' = timers \cup {load}
        /\ UNCHANGED <<captured, queue, live, graphs, uses, world>>
    BY DEF FinishSetup, Subscribed, Listening, TimerStarted, LInv, TypeOK
  <1>2. /\ load \in Loads /\ load # 0 /\ load \in 0..MaxLoads
        /\ captured \in 0..MaxGraphs /\ captured <= graphs
        /\ uses[captured] \in SUBSET Sources
        /\ signals[captured] \in [Sources -> 0..MaxEvents]
        /\ bound \in [Loads -> 0..MaxGraphs] /\ subs \in [Loads -> SUBSET (Graphs \X Sources)]
        /\ \A l \in Loads : bound[l] <= graphs
    <2>1. loads \in 0..MaxLoads /\ loads < MaxLoads /\ MaxLoads \in Nat
      BY <1>1, EntryConstants DEF LInv, TypeOK, Numbered
    <2>2. load \in Loads /\ load # 0 /\ load \in 0..MaxLoads
      BY <2>1 DEF Loads
    <2> QED
      BY <2>2 DEF LInv, TypeOK, Numbered
  <1>3. /\ Attached(uses[captured], signals[captured]) \in [Sources -> 0..MaxEvents]
        /\ captured = 0 => Attached(uses[captured], signals[captured]) = NoSignals
    BY <1>2, SignalsType, EmptyGraph DEF LInv, Numbered
  <1> HIDE DEF load
  <1>4. \A l \in Loads : bound'[l] = IF l = load THEN captured ELSE bound[l]
    BY <1>1, <1>2
  <1>5. QueueInOrder'
    <2>1. \A l \in Loads : bound'[l] \in {bound[l], captured}
      BY <1>4
    <2> QED
      BY <1>1, <2>1, QueueUntouched
  <1>6. {captured} \X uses[captured] \in SUBSET (Graphs \X Sources)
    <2>1. CASE captured = 0
      BY <2>1 DEF LInv, Numbered
    <2>2. CASE captured # 0
      <3>1. captured \in Graphs
        BY <1>2, <2>2, EntryConstants DEF Graphs
      <3> QED
        BY <1>2, <3>1
    <2> QED
      BY <2>1, <2>2
  <1>7. TypeOK'
    <2>1. bound' \in [Loads -> 0..MaxGraphs] /\ subs' \in [Loads -> SUBSET (Graphs \X Sources)]
      BY <1>1, <1>2, <1>6
    <2>2. signals' \in [0..MaxGraphs -> [Sources -> 0..MaxEvents]]
      BY <1>1, <1>3 DEF LInv, TypeOK
    <2> QED
      BY <1>1, <1>2, <2>1, <2>2 DEF LInv, TypeOK
  <1>8. Numbered'
    <2>1. signals'[0] = NoSignals
      BY <1>1, <1>3, EntryConstants DEF LInv, TypeOK, Numbered
    <2>2. \A l \in Loads : bound'[l] <= graphs
      BY <1>2, <1>4
    <2> QED
      BY <1>1, <1>2, <2>1, <2>2 DEF LInv, Numbered, NoSignals
  <1>9. Attentive'
    <2>1. Attending = 0 /\ Attending' = load
      BY <1>1 DEF Attending
    <2>2. ASSUME NEW l \in Loads
          PROVE  IF l = load THEN subs'[l] = {bound'[l]} \X uses'[bound'[l]] /\ l \in listening'
                 ELSE subs'[l] = {} /\ l \notin listening' \cup timers'
      <3>1. l # load => subs[l] = {} /\ l \notin listening \cup timers
        BY <2>1 DEF LInv, Attentive, Loads
      <3> QED
        BY <1>1, <1>2, <1>4, <3>1
    <2> QED
      BY <2>1, <2>2 DEF Attentive
  <1> QED
    BY <1>5, <1>7, <1>8, <1>9 DEF LInv

LEMMA BeginUnloadInv ==
  ASSUME LInv, BeginUnload
  PROVE  LInv'
  <1>1. QueueInOrder'
    BY QueueUntouched DEF BeginUnload
  <1>2. TypeOK' /\ Numbered'
    BY EntryConstants DEF BeginUnload, LInv, TypeOK, Numbered, NoSignals
  <1>3. Attentive'
    <2>1. Attending' = Attending
      BY DEF BeginUnload, Attending
    <2> QED
      BY <2>1 DEF BeginUnload, LInv, Attentive
  <1> QED
    BY <1>1, <1>2, <1>3 DEF LInv

LEMMA FinishUnloadInv ==
  ASSUME LInv, FinishUnload
  PROVE  LInv'
  <1>1. /\ entry = "unloading" /\ entry' = "unloaded" /\ live' = 0
        /\ subs' = [subs EXCEPT ![loads] = {}]
        /\ listening' = listening \ {loads} /\ timers' = timers \ {loads}
        /\ UNCHANGED <<reg, loads, captured, bound, queue, graphs, uses, signals, world>>
    BY DEF FinishUnload
  <1>2. QueueInOrder'
    BY <1>1, QueueUntouched
  <1>3. TypeOK' /\ Numbered'
    <2>1. subs' \in [Loads -> SUBSET (Graphs \X Sources)] /\ live' \in 0..MaxGraphs
      <3>1. subs \in [Loads -> SUBSET (Graphs \X Sources)]
        BY DEF LInv, TypeOK
      <3>2. {} \in SUBSET (Graphs \X Sources)
        OBVIOUS
      <3>3. subs' \in [Loads -> SUBSET (Graphs \X Sources)]
        BY <1>1, <3>1, <3>2
      <3> QED
        BY <1>1, <3>3, EntryConstants
    <2>2. 0 <= graphs
      BY DEF LInv, TypeOK
    <2> QED
      BY <1>1, <2>1, <2>2 DEF LInv, TypeOK, Numbered, NoSignals
  <1>4. Attentive'
    <2>1. Attending = loads /\ Attending' = 0
      BY <1>1 DEF Attending
    <2>2. ASSUME NEW l \in Loads
          PROVE  l # 0 /\ subs'[l] = {} /\ l \notin listening' \cup timers'
      BY <1>1, <2>1 DEF LInv, Attentive, TypeOK, Loads
    <2> QED
      BY <2>1, <2>2 DEF Attentive
  <1> QED
    BY <1>2, <1>3, <1>4 DEF LInv

(* A state event changes the signal of one source, in graphs that are      *)
(* bound and read it.                                                      *)
LEMMA StateEventInv ==
  ASSUME LInv, NEW s \in Sources, StateEvent(s)
  PROVE  /\ LInv'
         /\ \A g \in 0..MaxGraphs :
              signals'[g] = IF Attending # 0 /\ bound[Attending] = g /\ s \in uses[g]
                              THEN [signals[g] EXCEPT ![s] = world[s] + 1] ELSE signals[g]
  <1> DEFINE Ingested(g) == [signals[g] EXCEPT ![s] = world[s] + 1]
             Taken(g) == \E load \in Loads : <<g, s>> \in subs[load] /\ bound[load] = g
  <1>1. /\ world[s] < MaxEvents /\ world' = [world EXCEPT ![s] = @ + 1]
        /\ signals' = [g \in 0..MaxGraphs |-> IF Taken(g) THEN Ingested(g) ELSE signals[g]]
        /\ UNCHANGED <<entry, reg, loads, captured, listening, timers, bound, subs, queue, live,
                       graphs, uses>>
    BY DEF StateEvent, runtimeVars
  <1>2. /\ signals \in [0..MaxGraphs -> [Sources -> 0..MaxEvents]]
        /\ world \in [Sources -> 0..MaxEvents] /\ MaxEvents \in Nat
        /\ uses[0] = {} /\ signals[0] = NoSignals
    BY EntryConstants DEF LInv, TypeOK, Numbered
  <1>3. world[s] + 1 \in 0..MaxEvents
    BY <1>1, <1>2
  <1>4. \A g \in 0..MaxGraphs : Ingested(g) \in [Sources -> 0..MaxEvents]
    BY <1>2, <1>3
  <1>5. ASSUME NEW g \in 0..MaxGraphs
        PROVE  Taken(g) <=> Attending # 0 /\ bound[Attending] = g /\ s \in uses[g]
    <2>1. Attending # 0 => Attending \in Loads
      BY EntryConstants DEF LInv, TypeOK, Attending, Loads
    <2>2. \A load \in Loads :
            IF load = Attending THEN subs[load] = {bound[load]} \X uses[bound[load]]
            ELSE subs[load] = {}
      BY DEF LInv, Attentive
    <2>3. 0 \notin Loads
      BY DEF Loads
    <2> QED
      BY <2>1, <2>2, <2>3
  <1> HIDE DEF Taken, Ingested
  <1>6. signals' \in [0..MaxGraphs -> [Sources -> 0..MaxEvents]]
    BY <1>1, <1>2, <1>4
  <1>7. world' \in [Sources -> 0..MaxEvents]
    BY <1>1, <1>2, <1>3
  <1>8. signals'[0] = NoSignals
    BY <1>1, <1>2, <1>5, EntryConstants
  <1>9. TypeOK' /\ Numbered'
    BY <1>1, <1>6, <1>7, <1>8 DEF LInv, TypeOK, Numbered, NoSignals
  <1>10. QueueInOrder'
    BY <1>1, QueueUntouched
  <1>11. Attentive'
    BY <1>1 DEF LInv, Attentive, Attending
  <1> QED
    BY <1>1, <1>5, <1>9, <1>10, <1>11 DEF LInv, Taken, Ingested

LEMMA LifecycleInit == Init => LInv
  <1> SUFFICES ASSUME Init PROVE LInv
    OBVIOUS
  <1>1. <<>> \in Seq(Call) /\ Len(<<>>) = 0
    BY EmptySeq
  <1>2. TypeOK /\ Numbered
    BY <1>1, EntryConstants DEF Init, TypeOK, Numbered, NoSignals
  <1>3. QueueInOrder
    BY <1>1 DEF Init, QueueInOrder, OneSetup, OnePrepared
  <1>4. Attentive
    BY DEF Init, Attentive, Attending, Loads
  <1> QED
    BY <1>2, <1>3, <1>4 DEF LInv

LEMMA LifecycleStep == LInv /\ [Next]_vars => LInv'
  <1> SUFFICES ASSUME LInv, [Next]_vars PROVE LInv'
    OBVIOUS
  <1>1. CASE UNCHANGED vars
    <2>1. TypeOK' /\ Numbered'
      BY <1>1 DEF vars, LInv, TypeOK, Numbered, NoSignals
    <2>2. QueueInOrder'
      BY <1>1, QueueUntouched DEF vars
    <2>3. Attentive'
      BY <1>1 DEF vars, LInv, Attentive, Attending
    <2> QED
      BY <2>1, <2>2, <2>3 DEF LInv
  <1>2. CASE BeginSetup \/ FinishSetup \/ SetupFails
    BY <1>2, BeginSetupInv, FinishSetupInv, SetupFailsInv
  <1>3. CASE (\E load \in Loads : Tick(load)) \/ (\E who \in {"read", "save"} : AdminCall(who))
    BY <1>3, EnqueueInv
  <1>4. CASE \E sources \in SUBSET Sources : Prepare(sources) \/ ReadNewer(sources)
    BY <1>4, PrepareInv, ReadNewerInv
  <1>5. CASE SaveCommits \/ ReadSame \/ ReadNothing \/ CallFails
    BY <1>5, SaveCommitsInv, ReadSameInv, ReturnsInv
  <1>6. CASE BeginUnload \/ FinishUnload
    BY <1>6, BeginUnloadInv, FinishUnloadInv
  <1>7. CASE \E s \in Sources : StateEvent(s)
    BY <1>7, StateEventInv
  <1> QED
    BY <1>1, <1>2, <1>3, <1>4, <1>5, <1>6, <1>7 DEF Next

(* Whatever calls are under way, the listeners stand where the graphs they *)
(* were made for say, and the observations waiting in the queue and those  *)
(* taken from it stay in the order in which the sources sent them.         *)
THEOREM LifecycleInvariant == Spec => []LInv
  BY LifecycleInit, LifecycleStep, PTL DEF Spec

(* The variables keep their types.                                         *)
THEOREM LifecycleTypeOK == Spec => []TypeOK
  <1>1. LInv => TypeOK
    BY DEF LInv
  <1> QED
    BY <1>1, LifecycleInvariant, PTL

(* Whatever calls are under way, an entry that is loaded subscribes what   *)
(* its graph reads and a load that is gone has left nothing behind.        *)
THEOREM LifecycleListenersMatch == Spec => []ListenersMatch
  <1>1. LInv => ListenersMatch
    <2> SUFFICES ASSUME LInv, NEW load \in Loads
                 PROVE  IF load = reg
                          THEN subs[load] = {bound[load]} \X uses[bound[load]]
                          ELSE entry # "unloading" => subs[load] = {} /\ load \notin listening \cup timers
      BY DEF ListenersMatch
    <2>1. load = reg => load = Attending
      BY DEF LInv, Numbered, Attending, Loads
    <2>2. load # reg /\ entry # "unloading" => load # Attending
      BY DEF LInv, Numbered, Attending
    <2> QED
      BY <2>1, <2>2 DEF LInv, Attentive
  <1> QED
    BY <1>1, LifecycleInvariant, PTL

-----------------------------------------------------------------------------
(* The handover of graphs and signals, step by step                        *)

(* The steps that swap no graph: calls come, fail or find nothing new.     *)
LEMMA QueueHandover ==
  ASSUME LInv, SInv, UNCHANGED <<bound, uses, signals, world>>,
         queue' \in Seq(Call),
         \A i \in 1..Len(queue') :
           \/ queue'[i].graph = 0 /\ (queue'[i].who \in {"read", "save"} /\ queue'[i].load # 0
                                        => entry = "loaded" /\ entry' = "loaded")
           \/ i \in 1..Len(queue) /\ queue'[i] = queue[i] /\ live' = live
              /\ (entry = "loaded" => entry' = "loaded"),
         reg' = reg, live' \in {0, live},
         \/ entry' = entry /\ (entry = "storage" => captured' = captured)
         \/ entry = "unloaded" /\ entry' = "reading"
         \/ entry \in {"reading", "storage"} /\ entry' = "unloaded"
         \/ entry = "reading" /\ entry' = "storage" /\ captured' \in {0, live} /\ live' = live
  PROVE  SInv'
  <1>1. BoundOrSilent'
    BY DEF LInv, Numbered, SInv, BoundOrSilent, NoSignals
  <1>2. CallsOfThisLoad'
    BY DEF SInv, CallsOfThisLoad
  <1>3. SignalsCurrent'
    BY DEF SInv, SignalsCurrent
  <1>4. NoSignalsYet'
    BY DEF LInv, Numbered, SInv, NoSignalsYet, NoSignals
  <1>5. SeededFromLive'
    BY DEF SInv, SeededFromLive
  <1> QED
    BY <1>1, <1>2, <1>3, <1>4, <1>5 DEF SInv

LEMMA BeginSetupHandover ==
  ASSUME LInv, SInv, BeginSetup
  PROVE  SInv'
  <1>1. /\ entry = "unloaded" /\ entry' = "reading" /\ Enqueue("setup", 0)
        /\ UNCHANGED <<reg, captured, live, graphs, bound, uses, signals, world>>
    BY DEF BeginSetup, runtimeVars
  <1>2. /\ queue' \in Seq(Call)
        /\ \A i \in 1..Len(queue') :
             \/ queue'[i].who = "setup" /\ queue'[i].graph = 0
             \/ i \in 1..Len(queue) /\ queue'[i] = queue[i]
    BY <1>1, QueueGrown, EntryConstants
  <1> QED
    BY <1>1, <1>2, QueueHandover

LEMMA SetupFailsHandover ==
  ASSUME LInv, SInv, SetupFails
  PROVE  SInv'
  BY QueueHandover DEF SetupFails, runtimeVars, LInv, TypeOK

LEMMA EnqueueHandover ==
  ASSUME LInv, SInv,
         (\E load \in Loads : Tick(load)) \/ (\E who \in {"read", "save"} : AdminCall(who))
  PROVE  SInv'
  <1>1. \E who \in {"tick", "read", "save"}, load \in 0..MaxLoads :
          Enqueue(who, load) /\ (who # "tick" => load = reg)
    BY DEF Tick, AdminCall, LInv, TypeOK, Loads
  <1>2. UNCHANGED <<entry, reg, captured, live, graphs, bound, uses, signals, world>>
    BY DEF Tick, AdminCall, runtimeVars
  <1>3. /\ queue' \in Seq(Call)
        /\ \A i \in 1..Len(queue') :
             \/ queue'[i].graph = 0 /\ (queue'[i].who = "tick" \/ queue'[i].load = reg)
             \/ i \in 1..Len(queue) /\ queue'[i] = queue[i]
    <2>1. PICK who \in {"tick", "read", "save"}, load \in 0..MaxLoads :
            Enqueue(who, load) /\ (who # "tick" => load = reg)
      BY <1>1
    <2>2. /\ queue' \in Seq(Call)
          /\ \A i \in 1..Len(queue') :
               \/ queue'[i].who = who /\ queue'[i].load = load /\ queue'[i].graph = 0
               \/ i \in 1..Len(queue) /\ queue'[i] = queue[i]
      BY <1>2, <2>1, QueueGrown
    <2> QED
      BY <2>1, <2>2
  <1>4. reg # 0 => entry = "loaded"
    BY DEF LInv, Numbered
  <1> QED
    BY <1>2, <1>3, <1>4, QueueHandover

LEMMA ReturnsHandover ==
  ASSUME LInv, SInv, ReadNothing \/ CallFails \/ (ReadSame /\ NoInstall)
  PROVE  SInv'
  <1>1. /\ queue # <<>> /\ queue' = Tail(queue)
        /\ UNCHANGED <<reg, bound, uses, signals, world>>
        /\ live' \in {0, live}
        /\ IF Current.who = "setup"
             THEN \/ entry' = "unloaded"
                  \/ entry' = "storage" /\ captured' \in {0, live} /\ live' = live
             ELSE entry' = entry /\ captured' = captured
    BY DEF ReadNothing, CallFails, ReadSame, NoInstall, Return, runtimeVars
  <1>2. /\ queue' \in Seq(Call)
        /\ \A i \in 1..Len(queue') :
             queue'[i].graph = 0 /\ i + 1 \in 1..Len(queue) /\ queue'[i] = queue[i + 1]
    BY <1>1, QueueShortened
  <1>3. Current.who = "setup" => entry = "reading"
    BY <1>1, Shortened DEF Current, LInv, TypeOK, QueueInOrder, OneSetup
  <1>4. \A i \in 1..Len(queue') :
          queue'[i].who \in {"read", "save"} /\ queue'[i].load # 0
          => entry = "loaded" /\ entry' = "loaded"
    BY <1>1, <1>2, <1>3 DEF SInv, CallsOfThisLoad
  <1> QED
    BY <1>1, <1>2, <1>3, <1>4, QueueHandover

(* What a loaded entry attaches is current, carried over or read.          *)
LEMMA AttachedIsCurrent ==
  ASSUME LInv, SInv, entry = "loaded", NEW sources \in SUBSET Sources,
         NEW own \in [Sources -> 0..MaxEvents],
         \A s \in sources : own[s] # 0 => s \in uses[live] /\ signals[live][s] # 0,
         NEW s \in sources
  PROVE  Attached(sources, Seeded(sources, own, live))[s] = world[s]
  <1>1. /\ signals[live][s] # 0 => live = bound[reg]
        /\ live = bound[reg] /\ s \in uses[live] => signals[live][s] = world[s]
        /\ s \in Sources
    BY DEF SInv, BoundOrSilent, NoSignals, SignalsCurrent
  <1>2. CASE s \in uses[live] /\ signals[live][s] # 0
    <2>1. signals[live][s] = world[s] /\ signals[live][s] # 0
      BY <1>1, <1>2
    <2>2. Seeded(sources, own, live)[s] = signals[live][s]
      BY <1>1, <1>2 DEF Seeded
    <2> QED
      BY <1>1, <2>1, <2>2 DEF Attached
  <1>3. CASE ~(s \in uses[live] /\ signals[live][s] # 0)
    <2>1. Seeded(sources, own, live)[s] = 0
      BY <1>1, <1>3 DEF Seeded
    <2> QED
      BY <1>1, <2>1 DEF Attached
  <1> QED
    BY <1>2, <1>3

(* What is carried over while nobody listens is nothing.                   *)
LEMMA NothingCarried ==
  ASSUME signals[live] = NoSignals, NEW sources \in SUBSET Sources
  PROVE  Seeded(sources, NoSignals, live) = NoSignals
  BY DEF Seeded, NoSignals

LEMMA InstallsHandover ==
  ASSUME LInv, SInv,
         queue # <<>>, NEW g \in Graphs, NEW sources \in SUBSET Sources,
         NEW own \in [Sources -> 0..MaxEvents],
         Install(g, sources, own), Return(g),
         sources = uses[g] \/ g > graphs,
         entry = "loaded" => \A s \in sources : Attached(sources, own)[s] = world[s],
         entry \in {"unloaded", "reading", "storage"} => own = NoSignals
  PROVE  SInv'
  <1>1. /\ queue' = Tail(queue) /\ reg' = reg /\ world' = world
        /\ live' \in {0, g}
        /\ IF Current.who = "setup" THEN entry' = "storage" /\ captured' = g /\ live' = g
           ELSE entry' = entry /\ captured' = captured
    BY DEF Return
  <1>2. /\ queue' \in Seq(Call)
        /\ \A i \in 1..Len(queue') :
             queue'[i].graph = 0 /\ i + 1 \in 1..Len(queue) /\ queue'[i] = queue[i + 1]
    BY <1>1, QueueShortened
  <1>3. Current.who = "setup" => entry = "reading"
    BY Shortened DEF Current, LInv, TypeOK, QueueInOrder, OneSetup
  <1>4. /\ uses' = [uses EXCEPT ![g] = sources]
        /\ signals' = [signals EXCEPT ![g] = IF entry = "loaded" THEN Attached(sources, own) ELSE own]
        /\ \A load \in Loads : entry = "loaded" /\ load = reg => bound'[load] = g
    BY Installed
  <1>5. /\ uses'[g] = sources
        /\ entry = "loaded" => signals'[g] = Attached(sources, own) /\ bound'[reg] = g
        /\ entry # "loaded" => signals'[g] = own
        /\ signals'[0] = NoSignals
        /\ entry = "storage" => signals'[captured] = NoSignals
    <2>1. /\ g \in 0..MaxGraphs /\ g # 0 /\ 0 \in 0..MaxGraphs
          /\ uses \in [0..MaxGraphs -> SUBSET Sources]
          /\ signals \in [0..MaxGraphs -> [Sources -> 0..MaxEvents]] /\ signals[0] = NoSignals
      <3>1. /\ uses \in [0..MaxGraphs -> SUBSET Sources]
            /\ signals \in [0..MaxGraphs -> [Sources -> 0..MaxEvents]]
        BY DEF LInv, TypeOK
      <3>2. signals[0] = NoSignals
        BY DEF LInv, Numbered
      <3>3. g \in 0..MaxGraphs /\ g # 0 /\ 0 \in 0..MaxGraphs
        BY EntryConstants DEF Graphs
      <3> QED
        BY <3>1, <3>2, <3>3
    <2>2. entry = "loaded" => reg \in Loads
      BY NotifiedWhenLoaded
    <2>3. entry = "storage" => signals'[captured] = NoSignals
      <3>1. captured \in 0..MaxGraphs
        BY DEF LInv, TypeOK
      <3> QED
        BY <1>4, <2>1, <3>1 DEF SInv, NoSignalsYet
    <2>4. uses'[g] = sources
      BY <1>4, <2>1, Zenon
    <2>5. signals'[g] = (IF entry = "loaded" THEN Attached(sources, own) ELSE own)
      BY <1>4, <2>1, Zenon
    <2>6. signals'[0] = NoSignals
      BY <1>4, <2>1
    <2>7. entry = "loaded" => bound'[reg] = g
      BY <1>4, <2>2
    <2> QED
      BY <2>3, <2>4, <2>5, <2>6, <2>7
  <1>6. BoundOrSilent'
    BY <1>1, <1>3, <1>5 DEF BoundOrSilent, NoSignals
  <1>7. CallsOfThisLoad'
    BY <1>1, <1>2, <1>3 DEF SInv, CallsOfThisLoad
  <1>8. SignalsCurrent'
    BY <1>1, <1>3, <1>5 DEF SignalsCurrent
  <1>9. NoSignalsYet'
    BY <1>1, <1>3, <1>5 DEF NoSignalsYet, NoSignals
  <1>10. SeededFromLive'
    BY <1>2 DEF SeededFromLive
  <1> QED
    BY <1>6, <1>7, <1>8, <1>9, <1>10 DEF SInv

LEMMA SaveCommitsHandover ==
  ASSUME LInv, SInv, SaveCommits
  PROVE  SInv'
  <1> DEFINE g == Current.graph
             own == Carried(g)
  <1>1. /\ 1 \in 1..Len(queue) /\ Current = queue[1] /\ g \in Graphs /\ g \in 0..MaxGraphs
    <2>1. Current = queue[1] /\ Current \in Call /\ 1 \in 1..Len(queue)
      BY Shortened DEF SaveCommits, Current, LInv, TypeOK
    <2> QED
      BY <2>1, EntryConstants DEF SaveCommits, Call, Graphs
  <1>2. /\ uses[g] \in SUBSET Sources /\ signals[g] \in [Sources -> 0..MaxEvents]
        /\ own \in [Sources -> 0..MaxEvents] /\ own = Seeded(uses[g], signals[g], live)
    BY <1>1, SignalsType DEF LInv, TypeOK, Carried
  <1>3. \A s \in Sources : signals[g][s] # 0 => s \in uses[live] /\ signals[live][s] # 0
    BY <1>1 DEF SaveCommits, SInv, SeededFromLive
  <1>4. entry = "loaded" => \A s \in uses[g] : Attached(uses[g], own)[s] = world[s]
    <2> SUFFICES ASSUME entry = "loaded", NEW s \in uses[g]
                 PROVE  Attached(uses[g], Seeded(uses[g], signals[g], live))[s] = world[s]
      BY <1>2
    <2>1. \A t \in uses[g] : signals[g][t] # 0 => t \in uses[live] /\ signals[live][t] # 0
      BY <1>2, <1>3
    <2> HIDE DEF own, g
    <2> QED
      BY <1>2, <2>1, AttachedIsCurrent
  <1>5. entry \in {"unloaded", "reading", "storage"} => own = NoSignals
    <2> SUFFICES ASSUME entry \in {"unloaded", "reading", "storage"} PROVE own = NoSignals
      OBVIOUS
    <2>1. signals[live] = NoSignals
      BY DEF SInv, NoSignalsYet
    <2>2. signals[g] = NoSignals
      BY <1>2, <1>3, <2>1 DEF NoSignals
    <2> QED
      BY <1>2, <2>1, <2>2, NothingCarried
  <1>6. Install(g, uses[g], own) /\ Return(g) /\ queue # <<>>
    BY DEF SaveCommits
  <1> HIDE DEF own, g
  <1> QED
    BY <1>1, <1>2, <1>4, <1>5, <1>6, InstallsHandover

LEMMA ReadSameHandover ==
  ASSUME LInv, SInv, ReadSame
  PROVE  SInv'
  <1>1. CASE Install(live, uses[live], signals[live])
    <2>1. live \in Graphs /\ uses[live] \in SUBSET Sources
          /\ signals[live] \in [Sources -> 0..MaxEvents]
      BY EntryConstants DEF ReadSame, LInv, TypeOK, Graphs
    <2>2. entry = "loaded" =>
            \A s \in uses[live] : Attached(uses[live], signals[live])[s] = world[s]
      BY <2>1 DEF SInv, BoundOrSilent, NoSignals, SignalsCurrent, Attached
    <2>3. entry \in {"unloaded", "reading", "storage"} => signals[live] = NoSignals
      BY DEF SInv, NoSignalsYet
    <2> QED
      BY <1>1, <2>1, <2>2, <2>3, InstallsHandover DEF ReadSame
  <1>2. CASE NoInstall
    BY <1>2, ReturnsHandover
  <1> QED
    BY <1>1, <1>2 DEF ReadSame

LEMMA ReadNewerHandover ==
  ASSUME LInv, SInv, NEW sources \in SUBSET Sources, ReadNewer(sources)
  PROVE  SInv'
  <1> DEFINE g == graphs + 1
             own == Seeded(sources, NoSignals, live)
  <1>1. g \in Graphs /\ g > graphs
    BY EntryConstants DEF ReadNewer, LInv, TypeOK, Graphs
  <1>2. own \in [Sources -> 0..MaxEvents] /\ NoSignals \in [Sources -> 0..MaxEvents]
    BY SignalsType DEF LInv, TypeOK
  <1>3. entry = "loaded" => \A s \in sources : Attached(sources, own)[s] = world[s]
    <2>1. \A s \in sources : NoSignals[s] = 0
      BY DEF NoSignals
    <2> QED
      BY <1>2, <2>1, AttachedIsCurrent
  <1>4. entry \in {"unloaded", "reading", "storage"} => own = NoSignals
    BY NothingCarried DEF SInv, NoSignalsYet
  <1>5. Install(g, sources, own) /\ Return(g) /\ queue # <<>>
    BY DEF ReadNewer
  <1> HIDE DEF own, g
  <1> QED
    BY <1>1, <1>2, <1>3, <1>4, <1>5, InstallsHandover

LEMMA PrepareHandover ==
  ASSUME LInv, SInv, NEW sources \in SUBSET Sources, Prepare(sources)
  PROVE  SInv'
  <1> DEFINE g == graphs + 1
             prepared == [queue[1] EXCEPT !.graph = g]
             seeded == Seeded(sources, NoSignals, live)
  <1>1. /\ UNCHANGED <<entry, reg, captured, bound, live, world>>
        /\ uses' = [uses EXCEPT ![g] = sources]
        /\ signals' = [signals EXCEPT ![g] = seeded]
        /\ queue' = [queue EXCEPT ![1] = prepared]
    BY DEF Prepare, runtimeVars
  <1>2. /\ g \in 0..MaxGraphs /\ captured # g /\ live # g /\ \A load \in Loads : bound[load] # g
        /\ live \in 0..MaxGraphs /\ captured \in 0..MaxGraphs
        /\ uses \in [0..MaxGraphs -> SUBSET Sources]
        /\ signals \in [0..MaxGraphs -> [Sources -> 0..MaxEvents]]
        /\ bound \in [Loads -> 0..MaxGraphs]
    BY EntryConstants DEF Prepare, LInv, TypeOK, Numbered
  <1>3. 1 \in 1..Len(queue) /\ queue[1] \in Call
    BY Shortened DEF Prepare, Current, LInv, TypeOK
  <1>4. /\ prepared \in Call /\ prepared.who = queue[1].who /\ prepared.load = queue[1].load
        /\ prepared.graph = g
    BY <1>2, <1>3 DEF Call
  <1>5. \A s \in Sources : seeded[s] # 0 => s \in uses[live] /\ signals[live][s] # 0
    BY DEF Seeded, NoSignals
  <1> HIDE DEF prepared, g, seeded
  <1>6. /\ queue' \in Seq(Call) /\ Len(queue') = Len(queue)
        /\ \A i \in 1..Len(queue) : queue'[i] = IF i = 1 THEN prepared ELSE queue[i]
    BY <1>1, <1>3, <1>4, ExceptSeq DEF LInv, TypeOK
  <1>7. /\ \A h \in 0..MaxGraphs : h # g => uses'[h] = uses[h] /\ signals'[h] = signals[h]
        /\ signals'[g] = seeded
    BY <1>1, <1>2
  <1>8. BoundOrSilent'
    BY <1>1, <1>2, <1>7 DEF SInv, BoundOrSilent, NoSignals
  <1>9. CallsOfThisLoad'
    BY <1>1, <1>3, <1>4, <1>6 DEF SInv, CallsOfThisLoad
  <1>10. SignalsCurrent'
    <2>1. entry = "loaded" => bound[reg] \in 0..MaxGraphs /\ bound[reg] # g
      BY <1>2, NotifiedWhenLoaded
    <2> QED
      BY <1>1, <1>7, <2>1 DEF SInv, SignalsCurrent
  <1>11. NoSignalsYet'
    BY <1>1, <1>2, <1>7 DEF SInv, NoSignalsYet, NoSignals
  <1>12. SeededFromLive'
    <2> SUFFICES ASSUME NEW i \in 1..Len(queue), queue'[i].graph # 0, NEW s \in Sources,
                        signals'[queue'[i].graph][s] # 0
                 PROVE  s \in uses'[live] /\ signals'[live][s] # 0
      BY <1>1, <1>6 DEF SeededFromLive
    <2>1. i = 1
      BY <1>6 DEF LInv, QueueInOrder, OnePrepared
    <2>2. seeded[s] # 0
      BY <1>3, <1>4, <1>6, <1>7, <2>1
    <2> QED
      BY <1>2, <1>5, <1>7, <2>2
  <1> QED
    BY <1>8, <1>9, <1>10, <1>11, <1>12 DEF SInv

LEMMA FinishSetupHandover ==
  ASSUME LInv, SInv, FinishSetup
  PROVE  SInv'
  <1> DEFINE load == loads + 1
             attached == Attached(uses[captured], signals[captured])
  <1>1. /\ entry = "storage" /\ entry' = "loaded" /\ reg' = load
        /\ bound' = [bound EXCEPT ![load] = captured]
        /\ signals' = [signals EXCEPT ![captured] = attached]
        /\ UNCHANGED <<captured, queue, live, graphs, uses, world>>
    BY DEF FinishSetup, LInv, TypeOK
  <1>2. load \in Loads
    <2>1. loads \in 0..MaxLoads /\ loads < MaxLoads /\ MaxLoads \in Nat
      BY <1>1, EntryConstants DEF LInv, TypeOK, Numbered
    <2> QED
      BY <2>1 DEF Loads
  <1>3. /\ captured \in 0..MaxGraphs /\ uses[captured] \in SUBSET Sources
        /\ signals \in [0..MaxGraphs -> [Sources -> 0..MaxEvents]]
        /\ bound \in [Loads -> 0..MaxGraphs]
        /\ signals[captured] = NoSignals /\ signals[live] = NoSignals
    BY <1>1 DEF LInv, TypeOK, SInv, NoSignalsYet
  <1>4. \A s \in uses[captured] : attached[s] = world[s]
    BY <1>3 DEF Attached, NoSignals
  <1> HIDE DEF load, attached
  <1>5. bound'[load] = captured /\ signals'[captured] = attached
    BY <1>1, <1>2, <1>3
  <1>6. BoundOrSilent'
    <2>1. live # captured => signals'[live] = signals[live]
      BY <1>1, <1>3 DEF LInv, TypeOK
    <2> QED
      BY <1>1, <1>3, <1>5, <2>1 DEF BoundOrSilent, NoSignals
  <1>7. CallsOfThisLoad' /\ NoSignalsYet'
    BY <1>1 DEF CallsOfThisLoad, NoSignalsYet
  <1>8. SignalsCurrent'
    BY <1>1, <1>4, <1>5 DEF SignalsCurrent
  <1>9. SeededFromLive'
    <2> SUFFICES ASSUME NEW i \in 1..Len(queue), queue[i].graph # 0, NEW s \in Sources,
                        signals'[queue[i].graph][s] # 0
                 PROVE  FALSE
      BY <1>1 DEF SeededFromLive
    <2>1. queue[i].graph # captured /\ queue[i].graph \in 0..MaxGraphs
      <3>1. queue[i] \in Call
        BY ElementOfSeq DEF LInv, TypeOK
      <3> QED
        BY <3>1 DEF Call, LInv, QueueInOrder, OnePrepared
    <2>2. signals'[queue[i].graph] = signals[queue[i].graph]
      BY <1>1, <1>3, <2>1
    <2>3. signals[live][s] # 0
      BY <2>2 DEF SInv, SeededFromLive
    <2> QED
      BY <1>3, <2>3 DEF NoSignals
  <1> QED
    BY <1>6, <1>7, <1>8, <1>9 DEF SInv

LEMMA UnloadHandover ==
  ASSUME LInv, SInv, ~CallsSpanUnload, BeginUnload \/ FinishUnload
  PROVE  SInv'
  <1>1. /\ \A i \in 1..Len(queue) : queue[i].who \notin {"read", "save"}
        /\ UNCHANGED <<captured, bound, queue, uses, signals, world>>
        /\ \/ entry' = "unloading" /\ live' = live
           \/ entry' = "unloaded" /\ live' = 0
    BY DEF BeginUnload, FinishUnload, Queued
  <1>2. BoundOrSilent' /\ SignalsCurrent' /\ CallsOfThisLoad'
    BY <1>1 DEF BoundOrSilent, SignalsCurrent, CallsOfThisLoad
  <1>3. NoSignalsYet'
    BY <1>1 DEF NoSignalsYet, LInv, Numbered, NoSignals
  <1>4. SeededFromLive'
    BY <1>1 DEF SeededFromLive, LInv, QueueInOrder, OnePrepared
  <1> QED
    BY <1>2, <1>3, <1>4 DEF SInv

LEMMA StateEventHandover ==
  ASSUME LInv, SInv, NEW s \in Sources, StateEvent(s)
  PROVE  SInv'
  <1>1. /\ UNCHANGED <<entry, reg, captured, bound, live, queue, uses>>
        /\ world' = [world EXCEPT ![s] = @ + 1]
    BY DEF StateEvent, runtimeVars
  <1>2. \A g \in 0..MaxGraphs :
          signals'[g] = IF Attending # 0 /\ bound[Attending] = g /\ s \in uses[g]
                          THEN [signals[g] EXCEPT ![s] = world[s] + 1] ELSE signals[g]
    BY StateEventInv
  <1>3. /\ signals \in [0..MaxGraphs -> [Sources -> 0..MaxEvents]]
        /\ uses \in [0..MaxGraphs -> SUBSET Sources]
        /\ world \in [Sources -> 0..MaxEvents] /\ MaxEvents \in Nat
        /\ live \in 0..MaxGraphs /\ captured \in 0..MaxGraphs /\ bound \in [Loads -> 0..MaxGraphs]
    BY EntryConstants DEF LInv, TypeOK
  <1>4. BoundOrSilent' /\ CallsOfThisLoad'
    <2>1. CallsOfThisLoad'
      BY <1>1 DEF SInv, CallsOfThisLoad
    <2>2. entry = "loaded" /\ live # bound[reg] => signals'[live] = signals[live]
      BY <1>2, <1>3, NotifiedWhenLoaded
    <2> QED
      BY <1>1, <2>1, <2>2 DEF SInv, BoundOrSilent, NoSignals
  <1>5. SignalsCurrent'
    <2> SUFFICES ASSUME entry = "loaded", NEW t \in uses[bound[reg]]
                 PROVE  signals'[bound[reg]][t] = world'[t]
      BY <1>1 DEF SignalsCurrent
    <2>1. reg \in Loads /\ reg = Attending /\ reg # 0
      BY NotifiedWhenLoaded DEF Loads
    <2>2. bound[reg] \in 0..MaxGraphs /\ t \in Sources
      BY <1>3, <2>1
    <2>3. signals'[bound[reg]] = IF s \in uses[bound[reg]]
                                   THEN [signals[bound[reg]] EXCEPT ![s] = world[s] + 1]
                                   ELSE signals[bound[reg]]
      BY <1>2, <2>1, <2>2
    <2>4. signals[bound[reg]][t] = world[t]
      BY DEF SInv, SignalsCurrent
    <2>5. signals[bound[reg]] \in [Sources -> 0..MaxEvents]
      BY <1>3, <2>2
    <2> QED
      BY <1>1, <1>3, <2>2, <2>3, <2>4, <2>5
  <1>6. NoSignalsYet'
    <2>1. entry \in {"unloaded", "reading", "storage"} => Attending = 0
      BY DEF Attending
    <2> QED
      BY <1>1, <1>2, <1>3, <2>1 DEF SInv, NoSignalsYet, NoSignals
  <1>7. SeededFromLive'
    <2> SUFFICES ASSUME NEW i \in 1..Len(queue), queue[i].graph # 0, NEW t \in Sources,
                        signals'[queue[i].graph][t] # 0
                 PROVE  t \in uses[live] /\ signals'[live][t] # 0
      BY <1>1 DEF SeededFromLive
    <2>1. queue[i].graph \in 0..MaxGraphs
      <3>1. queue[i] \in Call
        BY ElementOfSeq DEF LInv, TypeOK
      <3> QED
        BY <3>1 DEF Call
    <2>2. Attending # 0 => queue[i].graph # bound[Attending]
      <3>1. Attending # 0 => Attending \in Loads
        BY EntryConstants DEF LInv, TypeOK, Attending, Loads
      <3> QED
        BY <3>1 DEF LInv, QueueInOrder, OnePrepared
    <2>3. signals'[queue[i].graph] = signals[queue[i].graph]
      BY <1>2, <2>1, <2>2
    <2>4. t \in uses[live] /\ signals[live][t] # 0
      BY <2>3 DEF SInv, SeededFromLive
    <2>5. signals'[live] = signals[live] \/ signals'[live] = [signals[live] EXCEPT ![s] = world[s] + 1]
      BY <1>2, <1>3
    <2>6. signals[live] \in [Sources -> 0..MaxEvents] /\ world[s] + 1 # 0
      BY <1>3
    <2> QED
      BY <2>4, <2>5, <2>6
  <1> QED
    BY <1>4, <1>5, <1>6, <1>7 DEF SInv

LEMMA HandoverInit == Init => SInv
  <1> SUFFICES ASSUME Init PROVE SInv
    OBVIOUS
  <1>1. Len(queue) = 0
    BY EmptySeq DEF Init
  <1>2. signals[live] = NoSignals
    BY EntryConstants DEF Init
  <1> QED
    BY <1>1, <1>2 DEF Init, SInv, CallsOfThisLoad, SignalsCurrent, NoSignalsYet, BoundOrSilent,
       SeededFromLive

LEMMA HandoverStep ==
  ASSUME ~CallsSpanUnload
  PROVE  LInv /\ SInv /\ [Next]_vars => SInv'
  <1> SUFFICES ASSUME LInv, SInv, [Next]_vars PROVE SInv'
    OBVIOUS
  <1>1. CASE UNCHANGED vars
    BY <1>1 DEF vars, SInv, CallsOfThisLoad, SignalsCurrent, NoSignalsYet, BoundOrSilent,
       SeededFromLive, NoSignals
  <1>2. CASE BeginSetup \/ FinishSetup \/ SetupFails
    BY <1>2, BeginSetupHandover, FinishSetupHandover, SetupFailsHandover
  <1>3. CASE (\E load \in Loads : Tick(load)) \/ (\E who \in {"read", "save"} : AdminCall(who))
    BY <1>3, EnqueueHandover
  <1>4. CASE \E sources \in SUBSET Sources : Prepare(sources) \/ ReadNewer(sources)
    BY <1>4, PrepareHandover, ReadNewerHandover
  <1>5. CASE SaveCommits \/ ReadSame \/ ReadNothing \/ CallFails
    BY <1>5, SaveCommitsHandover, ReadSameHandover, ReturnsHandover
  <1>6. CASE BeginUnload \/ FinishUnload
    BY <1>6, UnloadHandover
  <1>7. CASE \E s \in Sources : StateEvent(s)
    BY <1>7, StateEventHandover
  <1> QED
    BY <1>1, <1>2, <1>3, <1>4, <1>5, <1>6, <1>7 DEF Next

(* As long as no call of an administrator spans an unload, the signals of  *)
(* a loaded entry are the latest states of its sources, however often the  *)
(* graph is swapped, and even where the entry is bound to an older graph.  *)
THEOREM LifecycleSignalsCurrent ==
  ASSUME ~CallsSpanUnload
  PROVE  Spec => []SignalsCurrent
  <1>1. SInv => SignalsCurrent
    BY DEF SInv
  <1> QED
    BY <1>1, HandoverInit, HandoverStep, LifecycleInvariant, PTL DEF Spec

(* Then, too, no call that began before an unload, a recovery tick above   *)
(* all, brings the snapshot of the household back.                         *)
THEOREM LifecycleUnloadIsFinal ==
  ASSUME ~CallsSpanUnload
  PROVE  Spec => UnloadIsFinal
  <1> DEFINE Final == entry = "unloaded" /\ live = 0 /\ live' # 0 => Current.load = 0
  <1>1. LInv /\ SInv /\ [Next]_vars => [Final]_vars
    <2> SUFFICES ASSUME LInv, SInv, Next, entry = "unloaded", live = 0, live' # 0
                 PROVE  Current.load = 0
      OBVIOUS
    <2>1. queue # <<>> /\ (Current.who # "tick" \/ reg # 0)
      <3>1. ~(BeginSetup \/ FinishSetup \/ SetupFails \/ BeginUnload \/ FinishUnload)
        BY DEF BeginSetup, FinishSetup, SetupFails, BeginUnload, FinishUnload
      <3>2. ~((\E load \in Loads : Tick(load)) \/ (\E who \in {"read", "save"} : AdminCall(who)))
        BY DEF Tick, AdminCall
      <3>3. ~((\E s \in Sources : StateEvent(s)) \/ CallFails \/ ReadNothing \/ ReadSame)
        BY DEF StateEvent, CallFails, ReadNothing, ReadSame
      <3>4. ASSUME NEW sources \in SUBSET Sources
            PROVE  /\ ~Prepare(sources)
                   /\ ReadNewer(sources) => queue # <<>> /\ (Current.who # "tick" \/ reg # 0)
        BY DEF Prepare, ReadNewer, Return
      <3>5. SaveCommits => queue # <<>> /\ Current.who # "tick"
        BY DEF SaveCommits
      <3> QED
        BY <3>1, <3>2, <3>3, <3>4, <3>5 DEF Next
    <2>2. 1 \in 1..Len(queue) /\ Current = queue[1] /\ Current \in Call
      BY <2>1, Shortened DEF Current, LInv, TypeOK
    <2>3. reg = 0
      BY DEF LInv, Numbered
    <2>4. CASE Current.who = "setup"
      BY <2>2, <2>4 DEF LInv, QueueInOrder, OneSetup
    <2>5. CASE Current.who \in {"read", "save"}
      BY <2>2, <2>5 DEF SInv, CallsOfThisLoad
    <2> QED
      BY <2>1, <2>2, <2>3, <2>4, <2>5 DEF Call
  <1>2. Spec => [][Final]_vars
    BY <1>1, HandoverInit, HandoverStep, LifecycleInvariant, PTL DEF Spec
  <1> QED
    BY <1>2 DEF UnloadIsFinal

-----------------------------------------------------------------------------
(* The graph a loaded entry works on                                       *)

(* A call that returns while the entry is loaded leaves its graph active;  *)
(* if it activated it, the listener has bound it.                          *)
LEMMA ReturnBinds ==
  ASSUME LInv, entry = "loaded", NEW g \in 0..MaxGraphs, Return(g),
         (g = live /\ NoInstall) \/ bound'[reg] = g,
         live' # live \/ bound' # bound
  PROVE  bound'[reg] = live'
  <1>1. reg # 0
    BY NotifiedWhenLoaded DEF Loads
  <1>2. live' = g
    BY <1>1 DEF Return
  <1> QED
    BY <1>2 DEF NoInstall

LEMMA InstallBinds ==
  ASSUME LInv, entry = "loaded", NEW g \in Graphs, NEW sources \in SUBSET Sources,
         NEW own \in [Sources -> 0..MaxEvents],
         sources = uses[g] \/ g > graphs, Install(g, sources, own)
  PROVE  bound'[reg] = g /\ g \in 0..MaxGraphs
  <1>1. \A load \in Loads : load = reg => bound'[load] = g
    BY Installed
  <1>2. reg \in Loads
    BY NotifiedWhenLoaded
  <1>3. g \in 0..MaxGraphs
    BY EntryConstants DEF Graphs
  <1> QED
    BY <1>1, <1>2, <1>3

LEMMA StepBinds ==
  ASSUME LInv, Next, entry = "loaded", entry' = "loaded", live' # live \/ bound' # bound
  PROVE  bound'[reg] = live'
  <1>1. CASE SaveCommits
    <2> DEFINE g == Current.graph
    <2>1. Current = queue[1] /\ Current \in Call /\ 1 \in 1..Len(queue)
      BY <1>1, Shortened DEF SaveCommits, Current, LInv, TypeOK
    <2>2. g \in Graphs /\ g \in 0..MaxGraphs
      BY <1>1, <2>1, EntryConstants DEF SaveCommits, Call, Graphs
    <2>3. uses[g] \in SUBSET Sources /\ Carried(g) \in [Sources -> 0..MaxEvents]
      BY <2>2, SignalsType DEF LInv, TypeOK, Carried
    <2>4. Install(g, uses[g], Carried(g)) /\ Return(g)
      BY <1>1 DEF SaveCommits
    <2> HIDE DEF g
    <2>5. bound'[reg] = g
      BY <2>2, <2>3, <2>4, InstallBinds
    <2> QED
      BY <2>2, <2>4, <2>5, ReturnBinds
  <1>2. CASE ReadSame
    <2>1. live \in Graphs /\ uses[live] \in SUBSET Sources
          /\ signals[live] \in [Sources -> 0..MaxEvents] /\ live \in 0..MaxGraphs
      BY <1>2, EntryConstants DEF ReadSame, LInv, TypeOK, Graphs
    <2>2. Return(live) /\ (NoInstall \/ Install(live, uses[live], signals[live]))
      BY <1>2 DEF ReadSame
    <2>3. CASE NoInstall
      BY <2>1, <2>2, <2>3, ReturnBinds
    <2>4. CASE Install(live, uses[live], signals[live])
      <3>1. bound'[reg] = live
        BY <2>1, <2>4, InstallBinds
      <3> QED
        BY <2>1, <2>2, <3>1, ReturnBinds
    <2> QED
      BY <2>2, <2>3, <2>4
  <1>3. ASSUME NEW sources \in SUBSET Sources, ReadNewer(sources)
        PROVE  bound'[reg] = live'
    <2>1. graphs + 1 \in Graphs /\ graphs + 1 > graphs
      BY <1>3, EntryConstants DEF ReadNewer, LInv, TypeOK, Graphs
    <2>2. Seeded(sources, NoSignals, live) \in [Sources -> 0..MaxEvents]
      BY SignalsType DEF LInv, TypeOK
    <2>3. bound'[reg] = graphs + 1 /\ graphs + 1 \in 0..MaxGraphs
      BY <1>3, <2>1, <2>2, InstallBinds DEF ReadNewer
    <2>4. Return(graphs + 1)
      BY <1>3 DEF ReadNewer
    <2> QED
      BY <2>3, <2>4, ReturnBinds
  <1>4. ~ReadNothing
    <2>1. reg # 0
      BY NotifiedWhenLoaded DEF Loads
    <2> QED
      BY <2>1 DEF ReadNothing
  <1>5. ~(BeginSetup \/ FinishSetup \/ SetupFails \/ CallFails \/ BeginUnload \/ FinishUnload)
    BY DEF BeginSetup, FinishSetup, SetupFails, CallFails, BeginUnload, FinishUnload
  <1>6. /\ \A load \in Loads : ~Tick(load)
        /\ \A who \in {"read", "save"} : ~AdminCall(who)
        /\ \A sources \in SUBSET Sources : ~Prepare(sources)
        /\ \A s \in Sources : ~StateEvent(s)
    BY DEF Tick, AdminCall, Prepare, StateEvent
  <1> QED
    BY <1>1, <1>2, <1>3, <1>4, <1>5, <1>6 DEF Next

(* While it is loaded an entry does not fall behind the active graph,      *)
(* whatever reads miss, whoever activates during a setup and whichever     *)
(* calls span an unload: no hypothesis is needed.                          *)
THEOREM LifecycleNeverFallsBehind == Spec => NeverFallsBehind
  <1> DEFINE Follows == entry = "loaded" /\ entry' = "loaded" /\ (live' # live \/ bound' # bound)
                        => bound'[reg] = live'
  <1>1. LInv /\ [Next]_vars => [Follows]_vars
    BY StepBinds
  <1>2. Spec => [][Follows]_vars
    BY <1>1, LifecycleInvariant, PTL DEF Spec
  <1> QED
    BY <1>2 DEF NeverFallsBehind
=============================================================================
