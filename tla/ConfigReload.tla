---------------------------- MODULE ConfigReload ----------------------------
(***************************************************************************)
(* Reload of the watch dictionary: run_config_reloader and its file        *)
(* watcher, the activation request it sends to the publisher thread and    *)
(* the answer it waits for, Publisher::activate, and the watch set the     *)
(* validation threads extract with.  config.rs decides what a file is      *)
(* worth; shutdown ends the reloader and the publisher.                    *)
(*                                                                         *)
(* Simplifications: a watch set is its generation and its keys in          *)
(* configured order (key_id is the position).  An execution is one event   *)
(* in the feed queue, stamped with the watch set loaded when it started;   *)
(* queue overflow and recovery are in FeedQueue and Publication.           *)
(***************************************************************************)
EXTENDS WireSize, Functions

CONSTANTS
  Configs,     \* file contents by name: [parses, stream, watch]
  Initial,     \* the contents when the process starts
  MaxFrame,    \* stream.max_frame_bytes
  ChainViews,  \* what a frame's size may depend on, early and late in a run
  MaxSaves     \* bound: saves of the file

VARIABLES
  file,             \* the name of the contents at config_path
  saves,            \* how often it was saved
  unwatched,        \* whether no watcher was installed at the last save
  unseen,           \* a save the watcher's callback was not called for yet
  events,           \* tokens in the channel the callback feeds, at most 1
  sighup,           \* a SIGHUP not received yet
  reloader,         \* where run_config_reloader is
  next_generation,
  request,          \* the watch set it compiled
  control,          \* the channel of activation requests, capacity 1
  completion,       \* the answer to the last request
  publisher,        \* where the publisher thread is
  activating,       \* the watch set it took from control
  published,        \* watch set of the published canonical projection
  hot,              \* watch set of the hot path: producer.watch_set()
  queue,            \* feed events in flight: the watch set each was extracted with
  announced,        \* every watch set consumers were told of
  shutdown

file_vars == <<file, saves, unwatched>>
reload_vars == <<reloader, next_generation, request>>
publish_vars == <<published, announced>>
vars == <<file_vars, unseen, events, sighup, reload_vars, control, completion, publisher,
          activating, publish_vars, hot, queue, shutdown>>

Compile(generation, watch) == [generation |-> generation, keys |-> watch]

-----------------------------------------------------------------------------
(* Config::load. *)

Ids(watch) == [i \in DOMAIN watch |-> watch[i].id]
Coordinates(watch) == [i \in DOMAIN watch |-> <<watch[i].address, watch[i].slot>>]

\* Fault: the budget forgets the dictionary frame.
ValidIgnoringDictionary(config) ==
  /\ config.parses /\ config.watch # <<>>
  /\ \A i \in DOMAIN config.watch : config.watch[i].id_len > 0
  /\ IsInjective(Ids(config.watch))
  /\ IsInjective(Coordinates(config.watch))
  /\ RequiredWithoutDictionary(config.watch) <= MaxFrame

\* read_to_string, from_str and validate; the stream section is compared by the reloader.
\* Ids here have no blanks around them; one of blanks only has length 0.
Valid(config) ==
  /\ config.parses /\ config.watch # <<>>
  /\ \A i \in DOMAIN config.watch : config.watch[i].id_len > 0
  /\ IsInjective(Ids(config.watch))
  /\ IsInjective(Coordinates(config.watch))
  /\ RequiredFrameBytes(config.watch) <= MaxFrame

\* The contents a reload may activate, and those whose frames fit in every view.
AcceptableFiles ==
  {f \in DOMAIN Configs : Valid(Configs[f]) /\ Configs[f].stream = Configs[Initial].stream}

Dictionaries == {Configs[f].watch : f \in DOMAIN Configs}

PassesPreflight == {p \in Dictionaries \X ChainViews : Preflight(p[1], p[2], MaxFrame)}

FitsForEver ==
  {w \in Dictionaries : \A v \in ChainViews : \A len \in FrameLengths(w, v, MaxFrame) : len <= MaxFrame}

ASSUME ConfigReloadAssumption ==
  /\ Initial \in DOMAIN Configs /\ Valid(Configs[Initial])
  /\ \A f \in DOMAIN Configs : Len(Configs[f].watch) \in Nat
  /\ \A f \in DOMAIN Configs :
       \A i \in 1 .. Len(Configs[f].watch) : Configs[f].watch[i].id_len \in Nat
  /\ MaxFrame \in Nat /\ MaxFrame >= MinFrameBytes
  /\ ChainViews \subseteq Views
  /\ MaxSaves \in Nat

WatchSets == [generation : Nat \ {0}, keys : Dictionaries]

-----------------------------------------------------------------------------
(* run_node loads the file and compiles generation 1; start_service anchors it. *)

Init ==
  LET first == Compile(1, Configs[Initial].watch)
  IN  /\ file = Initial /\ saves = 0 /\ unwatched = FALSE
      /\ unseen = FALSE /\ events = 0 /\ sighup = FALSE
      /\ reloader = "starting" /\ next_generation = 2 /\ request = first
      /\ control = <<>> /\ completion = "none"
      /\ publisher = "idle" /\ activating = first
      /\ published = first /\ hot = first /\ announced = {first}
      /\ queue = <<>>
      /\ shutdown = FALSE

-----------------------------------------------------------------------------
(* The environment: an editor, the operator, the filesystem backend. *)

\* The watcher and the SIGHUP handler live as long as run_config_reloader runs its loop.
Watching == reloader \notin {"starting", "stopped"}

Save(f) ==
  /\ saves < MaxSaves /\ f # file
  /\ file' = f /\ saves' = saves + 1
  /\ unwatched' = ~Watching
  /\ unseen' = Watching
  /\ UNCHANGED <<events, sighup, reload_vars, control, completion, publisher, activating,
                 publish_vars, hot, queue, shutdown>>

\* The callback of notify: try_send, so a burst leaves one token.
Notify ==
  /\ unseen /\ unseen' = FALSE
  /\ events' = 1
  /\ UNCHANGED <<file_vars, sighup, reload_vars, control, completion, publisher, activating,
                 publish_vars, hot, queue, shutdown>>

Hangup ==
  /\ ~sighup /\ Watching /\ sighup' = TRUE
  /\ UNCHANGED <<file_vars, unseen, events, reload_vars, control, completion, publisher,
                 activating, publish_vars, hot, queue, shutdown>>

\* ServiceHandle::shutdown: both signals are sent before anything is awaited.
Shutdown ==
  /\ ~shutdown /\ shutdown' = TRUE
  /\ UNCHANGED <<file_vars, unseen, events, sighup, reload_vars, control, completion, publisher,
                 activating, publish_vars, hot, queue>>

-----------------------------------------------------------------------------
(* run_config_reloader.  Each select is biased: shutdown, SIGHUP, file event, timer. *)

Goto(from, to) == reloader = from /\ reloader' = to

\* The watcher and the SIGHUP handler are installed; only from here on is a save noticed.
InstallWatcher ==
  /\ Goto("starting", "idle")
  /\ UNCHANGED <<file_vars, unseen, events, sighup, next_generation, request, control, completion,
                 publisher, activating, publish_vars, hot, queue, shutdown>>

\* The watcher cannot be created or cannot watch the directory, or the handler cannot be
\* installed: the error is logged and reloading is over for this process.
InstallFails ==
  /\ Goto("starting", "stopped")
  /\ UNCHANGED <<file_vars, unseen, events, sighup, next_generation, request, control, completion,
                 publisher, activating, publish_vars, hot, queue, shutdown>>

\* A SIGHUP or a file event, the first before the second.
TakeTrigger ==
  \/ sighup /\ sighup' = FALSE /\ UNCHANGED events
  \/ ~sighup /\ events = 1 /\ events' = 0 /\ UNCHANGED sighup

Wake ==
  /\ ~shutdown /\ Goto("idle", "debounce")
  /\ TakeTrigger
  /\ UNCHANGED <<file_vars, unseen, next_generation, request, control, completion, publisher,
                 activating, publish_vars, hot, queue, shutdown>>

\* The 100 ms are over: what queued up meanwhile is dropped, and the file is read after that.
DrainEvents ==
  /\ ~shutdown /\ Goto("debounce", "load")
  /\ events' = 0
  /\ UNCHANGED <<file_vars, unseen, sighup, next_generation, request, control, completion,
                 publisher, activating, publish_vars, hot, queue, shutdown>>

\* Fault: an unchanged dictionary is activated again.
LoadUnconditionally ==
  LET config == Configs[file]
  IN  /\ reloader = "load"
      /\ IF file \in AcceptableFiles /\ next_generation <= MaxSaves + 1
           THEN reloader' = "request" /\ request' = Compile(next_generation, config.watch)
           ELSE reloader' = "idle" /\ UNCHANGED request
      /\ UNCHANGED <<file_vars, unseen, events, sighup, next_generation, control, completion,
                     publisher, activating, publish_vars, hot, queue, shutdown>>

\* Config::load, the comparison of the stream section, matches_config, compile.
Load ==
  LET config == Configs[file]
  IN  /\ reloader = "load"
      /\ IF file \in AcceptableFiles /\ hot.keys # config.watch
           THEN reloader' = "request" /\ request' = Compile(next_generation, config.watch)
           ELSE reloader' = "idle" /\ UNCHANGED request
      /\ UNCHANGED <<file_vars, unseen, events, sighup, next_generation, control, completion,
                     publisher, activating, publish_vars, hot, queue, shutdown>>

\* Fault: the burst is drained once the file has been read, not before.
DrainAfterLoad ==
  /\ reloader = "request" /\ events' = 0
  /\ IF publisher = "stopped" THEN reloader' = "stopped" /\ UNCHANGED <<control, completion>>
     ELSE IF control # <<>> THEN reloader' = "backoff" /\ UNCHANGED <<control, completion>>
     ELSE reloader' = "await" /\ control' = <<request>> /\ completion' = "pending"
  /\ UNCHANGED <<file_vars, unseen, sighup, next_generation, request, publisher, activating,
                 publish_vars, hot, queue, shutdown>>

\* request_activation: Queued, Full or Disconnected.
RequestActivation ==
  /\ reloader = "request"
  /\ IF publisher = "stopped" THEN reloader' = "stopped" /\ UNCHANGED <<control, completion>>
     ELSE IF control # <<>> THEN reloader' = "backoff" /\ UNCHANGED <<control, completion>>
     ELSE reloader' = "await" /\ control' = <<request>> /\ completion' = "pending"
  /\ UNCHANGED <<file_vars, unseen, events, sighup, next_generation, request, publisher,
                 activating, publish_vars, hot, queue, shutdown>>

\* Fault: an answer that takes long counts as a failure.
AwaitImpatiently ==
  /\ ~shutdown /\ reloader = "await"
  /\ IF completion = "activated"
       THEN reloader' = "idle" /\ next_generation' = next_generation + 1
       ELSE /\ reloader' = IF completion = "dropped" THEN "stopped" ELSE "backoff"
            /\ UNCHANGED next_generation
  /\ UNCHANGED <<file_vars, unseen, events, sighup, request, control, completion, publisher,
                 activating, publish_vars, hot, queue, shutdown>>

Await ==
  /\ ~shutdown /\ reloader = "await" /\ completion # "pending"
  /\ IF completion = "activated"
       THEN reloader' = "idle" /\ next_generation' = next_generation + 1
       ELSE /\ reloader' = IF completion = "dropped" THEN "stopped" ELSE "backoff"
            /\ UNCHANGED next_generation
  /\ UNCHANGED <<file_vars, unseen, events, sighup, request, control, completion, publisher,
                 activating, publish_vars, hot, queue, shutdown>>

\* A newer event supersedes the failed request: reload_requested skips the wait.
Supersede ==
  /\ ~shutdown /\ Goto("backoff", "debounce")
  /\ TakeTrigger
  /\ UNCHANGED <<file_vars, unseen, next_generation, request, control, completion, publisher,
                 activating, publish_vars, hot, queue, shutdown>>

\* The backoff timer: the same watch set under the same generation again.
Retry ==
  /\ ~shutdown /\ ~sighup /\ events = 0 /\ Goto("backoff", "request")
  /\ UNCHANGED <<file_vars, unseen, events, sighup, next_generation, request, control, completion,
                 publisher, activating, publish_vars, hot, queue, shutdown>>

\* Fault: the wait for a trigger does not watch the shutdown signal.
StopWhenBusy ==
  /\ shutdown /\ reloader \in {"debounce", "await", "backoff"}
  /\ reloader' = "stopped"
  /\ UNCHANGED <<file_vars, unseen, events, sighup, next_generation, request, control, completion,
                 publisher, activating, publish_vars, hot, queue, shutdown>>

\* Every select of the reloader gives way to shutdown.
StopReloader ==
  /\ shutdown /\ reloader \in {"idle", "debounce", "await", "backoff"}
  /\ reloader' = "stopped"
  /\ UNCHANGED <<file_vars, unseen, events, sighup, next_generation, request, control, completion,
                 publisher, activating, publish_vars, hot, queue, shutdown>>

-----------------------------------------------------------------------------
(* The publisher thread. *)

Answer(a) == completion' = a

\* handle_control: a generation that is not newer is acknowledged and nothing else.
TakeControl ==
  /\ publisher = "idle" /\ control # <<>>
  /\ control' = <<>>
  /\ IF Head(control).generation <= published.generation
       THEN Answer("activated") /\ UNCHANGED <<publisher, activating>>
       ELSE /\ publisher' = "loading" /\ activating' = Head(control)
            /\ UNCHANGED completion
  /\ UNCHANGED <<file_vars, unseen, events, sighup, reload_vars, publish_vars, hot, queue, shutdown>>

\* activate: load_latest succeeds; the dictionary and snapshot frames are tried for size.
LoadLatest(v) ==
  /\ publisher = "loading"
  /\ IF <<activating.keys, v>> \in PassesPreflight
       THEN publisher' = "publishing" /\ UNCHANGED completion
       ELSE publisher' = "idle" /\ Answer("failed")
  /\ UNCHANGED <<file_vars, unseen, events, sighup, reload_vars, control, activating, publish_vars,
                 hot, queue, shutdown>>

\* The provider cannot produce an anchored snapshot.
LoadFails ==
  /\ publisher = "loading" /\ publisher' = "idle" /\ Answer("failed")
  /\ UNCHANGED <<file_vars, unseen, events, sighup, reload_vars, control, activating, publish_vars,
                 hot, queue, shutdown>>

\* Fault: the hot path switches before consumers know the dictionary.
ActivateFirst ==
  /\ publisher = "publishing" /\ publisher' = "activating"
  /\ hot' = activating
  /\ UNCHANGED <<file_vars, unseen, events, sighup, reload_vars, control, completion, activating,
                 publish_vars, queue, shutdown>>

\* publish_state(ConfigActivated) and publish(Snapshot).
PublishConfig ==
  /\ publisher = "publishing" /\ publisher' = "activating"
  /\ published' = activating /\ announced' = announced \cup {activating}
  /\ UNCHANGED <<file_vars, unseen, events, sighup, reload_vars, control, completion, activating,
                 hot, queue, shutdown>>

\* producer.activate, and the answer of handle_control.
ActivateHotPath ==
  /\ publisher = "activating" /\ publisher' = "idle"
  /\ hot' = activating /\ Answer("activated")
  /\ UNCHANGED <<file_vars, unseen, events, sighup, reload_vars, control, activating, publish_vars,
                 queue, shutdown>>

\* project_candidate drops an older generation and projects the current one.
HandleEvent ==
  /\ publisher = "idle" /\ queue # <<>>
  /\ queue' = <<>>
  /\ UNCHANGED <<file_vars, unseen, events, sighup, reload_vars, control, completion, publisher,
                 activating, publish_vars, hot, shutdown>>

\* The thread ends; a request that was not answered loses its sender.
StopPublisher ==
  /\ shutdown /\ publisher = "idle" /\ publisher' = "stopped"
  /\ control' = <<>> /\ queue' = <<>>
  /\ completion' = IF completion = "pending" THEN "dropped" ELSE completion
  /\ UNCHANGED <<file_vars, unseen, events, sighup, reload_vars, activating, publish_vars, hot,
                 shutdown>>

-----------------------------------------------------------------------------
(* A validation thread loads the watch set once and extracts a block's changes with it. *)

Extract ==
  /\ queue = <<>> /\ publisher # "stopped" /\ queue' = <<hot>>
  /\ UNCHANGED <<file_vars, unseen, events, sighup, reload_vars, control, completion, publisher,
                 activating, publish_vars, hot, shutdown>>

Reloader ==
  \/ InstallWatcher \/ InstallFails \/ Wake \/ DrainEvents \/ Load \/ RequestActivation
  \/ Await \/ Supersede \/ Retry \/ StopReloader

Publisher ==
  \/ TakeControl \/ (\E v \in ChainViews : LoadLatest(v)) \/ PublishConfig \/ ActivateHotPath
  \/ StopPublisher

Next ==
  \/ \E f \in DOMAIN Configs : Save(f)
  \/ Notify \/ Hangup \/ Shutdown
  \/ Reloader
  \/ Publisher \/ LoadFails \/ HandleEvent
  \/ Extract

Spec == Init /\ [][Next]_vars

\* The filesystem reports every save; both threads are scheduled and their timers fire; and
\* provider failures are transient, so a load that is tried again and again succeeds.
FairSpec ==
  /\ Spec
  /\ WF_vars(Notify) /\ WF_vars(Reloader) /\ WF_vars(Publisher)
  /\ SF_vars(\E v \in ChainViews : LoadLatest(v))

-----------------------------------------------------------------------------
(* Properties. *)

\* The types of the variables.
TypeOK ==
  /\ file \in DOMAIN Configs /\ saves \in 0 .. MaxSaves
  /\ unwatched \in BOOLEAN /\ unseen \in BOOLEAN
  /\ sighup \in BOOLEAN /\ shutdown \in BOOLEAN
  /\ events \in {0, 1}
  /\ reloader \in {"starting", "idle", "debounce", "load", "request", "await", "backoff",
                   "stopped"}
  /\ next_generation \in Nat
  /\ request \in WatchSets /\ activating \in WatchSets
  /\ published \in WatchSets /\ hot \in WatchSets
  /\ control \in Seq(WatchSets) /\ Len(control) <= 1
  /\ queue \in Seq(WatchSets) /\ Len(queue) <= 1
  /\ completion \in {"none", "pending", "activated", "failed", "dropped"}
  /\ publisher \in {"idle", "loading", "publishing", "activating", "stopped"}
  /\ announced \subseteq WatchSets

\* A generation number names one dictionary for good, although a request that failed gives its
\* number to whatever dictionary the file holds by then; and whatever extracts or carries a
\* block's changes does so with a dictionary consumers were told of.  So project_candidate
\* never meets a generation from the future, and one that equals its own means its own keys.
GenerationNamesDictionary ==
  /\ \A a, b \in announced : a.generation = b.generation => a = b
  /\ {published, hot} \cup {queue[i] : i \in DOMAIN queue} \subseteq announced
  /\ \A a \in announced : a.generation <= published.generation

\* "Rewriting an identical watch dictionary is a no-op and does not allocate a generation":
\* generations are dense, and two consecutive ones differ in their keys.
NoopAllocatesNothing ==
  /\ {a.generation : a \in announced} = 1 .. published.generation
  /\ \A a, b \in announced : b.generation = a.generation + 1 => a.keys # b.keys

\* One request at a time: the reloader never finds its channel full, so no reload waits behind
\* a request it does not know the outcome of.
RequestFindsRoom == reloader = "request" => control = <<>> /\ completion # "pending"

\* Config::validate budgets enough: a file it accepts never fails the preflight of activate,
\* which would be retried for ever, and no frame of the active generation outgrows
\* max_frame_bytes later, when numbers are wider and checkpoints appear.
FramesFit ==
  /\ {request.keys} \X ChainViews \subseteq PassesPreflight
  /\ published.keys \in FitsForEver

\* "a valid reload is not silently lost": when the file holds an acceptable dictionary, the hot
\* path comes to use it, unless the file changes again or the service stops; provided a watcher
\* was installed when it was saved.
ReloadTakesEffect ==
  \A f \in AcceptableFiles :
    (file = f /\ ~unwatched)
      ~> (hot.keys = Configs[f].watch \/ file # f \/ shutdown)

\* Shutdown ends the reloader and the publisher, whatever either waits for.
ShutdownCompletes == shutdown ~> (reloader = "stopped" /\ publisher = "stopped")

==============================================================================
