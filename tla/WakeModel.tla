----------------------------- MODULE WakeModel -----------------------------
(***************************************************************************)
(* Which wake model listens (main/wake_engine.cc): the server selects the  *)
(* embedded one or the URL of another, which a task downloads, puts into   *)
(* the cache (one file of data, one of metadata) and hands to the wake     *)
(* task.  The wake task compares selection and model with every chunk of   *)
(* audio.                                                                  *)
(*                                                                         *)
(* What is done under s_custom_model_lock is one step.  Neither the        *)
(* settings nor the files are locked; the wake task holds a pointer into   *)
(* the settings and so reads the selected URL anew at each step.  A model  *)
(* is told from another by the URL it comes from.  A model that the        *)
(* interpreter refuses, the timers' stop model and the sounds that share   *)
(* the cache partition are left out.                                       *)
(***************************************************************************)
EXTENDS Naturals

CONSTANTS
  Urls, NoUrl,
  MaxSelections,   \* bound: changes of the settings
  MaxEarly,        \* bound: downloads begun before the network settles
  MaxDownloads     \* bound: downloads altogether

ASSUME ModelAssumption ==
  /\ NoUrl \notin Urls
  /\ MaxSelections \in Nat /\ MaxDownloads \in Nat /\ MaxEarly \in 0..MaxDownloads

VARIABLES
  selection,    \* the settings: whether a URL is selected, the URL, the
                \* generation, and whether a change is still to be counted
  observed,     \* s_observed_wake_settings_generation
  active,       \* the model in use: s_active_model_url, and where its data
                \* came from; NoUrl for the embedded one
  arrived,      \* s_pending_custom_model
  wanted,       \* s_requested_custom_url
  generation,   \* s_custom_download_generation
  running,      \* s_custom_download_running
  retryAfter,   \* s_custom_download_retry_after_us is in the future
  downloads,    \* the download tasks, each by its generation
  cache,        \* the two files
  ensuring,     \* where the wake task stands
  taken,        \* the arrived model it has taken
  generationSeen, \* the settings' generation it saw
  modelSettled  \* no more selections, no more failures

download == <<wanted, generation, running, retryAfter, downloads>>
waketask == <<ensuring, taken, generationSeen, observed, active>>
model == <<selection, arrived, download, waketask, cache, modelSettled>>

Generations == 1..MaxDownloads
Anywhere == Urls \cup {NoUrl}
Selection == [custom : BOOLEAN, url : Anywhere, gen : 0..MaxSelections, counted : BOOLEAN]
Download == [at : {"none", "fetch", "data", "again", "meta", "queue", "end", "stop"},
             url : Anywhere]

ModelTypeOK ==
  /\ selection \in Selection
  /\ {observed, generationSeen} \subseteq 0..MaxSelections
  /\ active \in [url : Anywhere, data : Anywhere]
  /\ {arrived, wanted, taken} \subseteq Anywhere
  /\ generation \in 0..MaxDownloads
  /\ {running, retryAfter, modelSettled} \subseteq BOOLEAN
  /\ downloads \in [Generations -> Download]
  /\ cache \in [data : Anywhere, meta : Anywhere]
  /\ ensuring \in {"idle", "taken", "ensure", "start", "force", "look", "load",
                   "register", "create"}

ModelInit ==
  /\ selection = [custom |-> FALSE, url |-> NoUrl, gen |-> 0, counted |-> TRUE]
  /\ observed = 0 /\ generationSeen = 0
  /\ active = [url |-> NoUrl, data |-> NoUrl]
  /\ arrived = NoUrl /\ wanted = NoUrl /\ taken = NoUrl
  /\ generation = 0 /\ running = FALSE /\ retryAfter = FALSE
  /\ downloads = [g \in Generations |-> [at |-> "none", url |-> NoUrl]]
  /\ \E url \in Anywhere : cache = [data |-> url, meta |-> url]   \* of an earlier run
  /\ ensuring = "idle" /\ modelSettled = FALSE

-----------------------------------------------------------------------------
(* The settings, as the event task applies them: the fields first (in one  *)
(* step), the generation last.  The generation counts a new revision of    *)
(* the same model too.                                                     *)

Select(custom, url) ==
  /\ ~modelSettled /\ selection.counted /\ selection.gen < MaxSelections
  /\ selection' = [selection EXCEPT !.custom = custom, !.url = url, !.counted = FALSE]
  /\ UNCHANGED <<arrived, download, waketask, cache, modelSettled>>

CountSelection ==
  /\ ~selection.counted
  /\ selection' = [selection EXCEPT !.gen = @ + 1, !.counted = TRUE]
  /\ UNCHANGED <<arrived, download, waketask, cache, modelSettled>>

ModelSettle ==
  /\ ~modelSettled /\ modelSettled' = TRUE
  /\ selection.counted
  /\ UNCHANGED <<selection, arrived, download, waketask, cache>>

RetryPasses ==
  /\ retryAfter /\ retryAfter' = FALSE
  /\ UNCHANGED <<selection, arrived, wanted, generation, running, downloads, waketask, cache,
                 modelSettled>>

-----------------------------------------------------------------------------
(* The wake task: consume_pending_custom_model, then                       *)
(* ensure_selected_wake_model.                                             *)

Ensuring(from, to) == ensuring = from /\ ensuring' = to

(* What start_custom_wake_model_download returns while a model is ready. *)
Ensured(from) == Ensuring(from, "idle") /\ observed' = generationSeen

ConsumePending ==
  /\ ensuring = "idle"
  /\ ensuring' = IF arrived = NoUrl THEN "ensure" ELSE "taken"
  /\ taken' = arrived /\ arrived' = NoUrl
  /\ UNCHANGED <<selection, observed, generationSeen, active, download, cache, modelSettled>>

(* A model that is not, or no longer, selected is discarded. *)
UsePending ==
  /\ Ensuring("taken", "ensure")
  /\ active' = IF selection.custom /\ selection.url = taken
                 THEN [url |-> taken, data |-> taken] ELSE active
  /\ taken' = NoUrl
  /\ UNCHANGED <<selection, arrived, observed, generationSeen, download, cache, modelSettled>>

EnsureEmbedded ==
  /\ Ensuring("ensure", "idle")
  /\ ~selection.custom
  /\ active' = [url |-> NoUrl, data |-> NoUrl]
  /\ UNCHANGED <<selection, arrived, taken, observed, generationSeen, download, cache,
                 modelSettled>>

EnsureCustom ==
  /\ Ensuring("ensure", IF observed # 0 /\ selection.gen # observed THEN "force" ELSE "start")
  /\ selection.custom
  /\ generationSeen' = selection.gen
  /\ UNCHANGED <<selection, arrived, taken, observed, active, download, cache, modelSettled>>

(* The URL is missing: start_custom_wake_model_download fails. *)
StartNothing ==
  /\ Ensuring("start", "idle") \/ Ensuring("force", "idle")
  /\ selection.url = NoUrl
  /\ UNCHANGED <<selection, arrived, taken, observed, generationSeen, active, download, cache,
                 modelSettled>>

(* Faulty form of AlreadyActive: of whatever URL. *)
AlreadyActiveAny ==
  /\ Ensured("start")
  /\ selection.url # NoUrl /\ active.url # NoUrl
  /\ UNCHANGED <<selection, arrived, taken, generationSeen, active, download, cache, modelSettled>>

AlreadyActive ==
  /\ Ensured("start")
  /\ selection.url # NoUrl /\ active.url = selection.url
  /\ UNCHANGED <<selection, arrived, taken, generationSeen, active, download, cache, modelSettled>>

(* A download of this URL runs, and is not stale, or was tried just now. *)
AlreadyStarted ==
  /\ Ensured("start") \/ Ensured("force")
  /\ wanted = selection.url
  /\ running \/ retryAfter
  /\ UNCHANGED <<selection, arrived, taken, generationSeen, active, download, cache, modelSettled>>

(* With stale, a download has been running for half a minute. *)
MayStart(from, to, stale) ==
  /\ Ensuring(from, to)
  /\ selection.url # NoUrl
  /\ from = "start" => active.url # selection.url
  /\ wanted = selection.url => IF running THEN stale ELSE ~retryAfter
  /\ UNCHANGED <<selection, arrived, taken, observed, generationSeen, active, download, cache,
                 modelSettled>>

StartCached(stale) == MayStart("start", "look", stale)
StartForced(stale) == MayStart("force", "register", stale)

(* load_cached_custom_wake_model: the metadata, then the data. *)
LookUp ==
  /\ Ensuring("look", IF cache.meta # NoUrl /\ cache.meta = selection.url
                        THEN "load" ELSE "register")
  /\ UNCHANGED <<selection, arrived, taken, observed, generationSeen, active, download, cache,
                 modelSettled>>

LoadCached ==
  /\ Ensured("load")
  /\ cache.data # NoUrl
  /\ active' = [url |-> selection.url, data |-> cache.data]
  /\ wanted' = selection.url
  /\ UNCHANGED <<selection, arrived, taken, generationSeen, generation, running, retryAfter,
                 downloads, cache, modelSettled>>

LoadFailed ==
  /\ Ensuring("load", "register")
  /\ cache.data = NoUrl
  /\ UNCHANGED <<selection, arrived, taken, observed, generationSeen, active, download, cache,
                 modelSettled>>

Register ==
  /\ Ensuring("register", "create")
  /\ generation < (IF modelSettled THEN MaxDownloads ELSE MaxEarly)
  /\ wanted' = selection.url
  /\ generation' = generation + 1
  /\ running' = TRUE /\ retryAfter' = FALSE
  /\ UNCHANGED <<selection, arrived, taken, observed, generationSeen, active, downloads, cache,
                 modelSettled>>

CreateDownload ==
  /\ Ensured("create")
  /\ downloads' = [downloads EXCEPT ![generation] = [at |-> "fetch", url |-> selection.url]]
  /\ UNCHANGED <<selection, arrived, taken, generationSeen, active, wanted, generation, running,
                 retryAfter, cache, modelSettled>>

(* The request cannot be allocated or its task not be created. *)
CreateDownloadFailed ==
  /\ Ensuring("create", "idle") /\ ~modelSettled
  /\ running' = FALSE /\ retryAfter' = TRUE
  /\ UNCHANGED <<selection, arrived, taken, observed, generationSeen, active, wanted, generation,
                 downloads, cache, modelSettled>>

EnsureTask ==
  \/ ConsumePending \/ UsePending \/ EnsureEmbedded \/ EnsureCustom
  \/ StartNothing \/ AlreadyActive \/ AlreadyStarted
  \/ \E stale \in {FALSE, ~modelSettled} : StartCached(stale) \/ StartForced(stale)
  \/ LookUp \/ LoadCached \/ LoadFailed
  \/ Register \/ CreateDownload \/ CreateDownloadFailed

-----------------------------------------------------------------------------
(* wake_model_download_task.                                               *)

Downloading(g, from, to) ==
  downloads[g].at = from /\ downloads' = [downloads EXCEPT ![g].at = to]

(* set_custom_download_running and set_custom_download_retry_after heed    *)
(* the running download only.                                              *)

Current(g) == g = generation

RetryAfter(g, late) == retryAfter' = IF Current(g) THEN late ELSE retryAfter

FetchFailed(g) ==
  /\ Downloading(g, "fetch", "stop")
  /\ ~modelSettled \/ downloads[g].url = NoUrl
  /\ RetryAfter(g, TRUE)
  /\ UNCHANGED <<selection, arrived, wanted, generation, running, waketask, cache, modelSettled>>

(* save_cached_custom_wake_model: both files are removed, then written. *)
Fetched(g) ==
  /\ Downloading(g, "fetch", "data")
  /\ downloads[g].url # NoUrl
  /\ cache' = [data |-> NoUrl, meta |-> NoUrl]
  /\ UNCHANGED <<selection, arrived, wanted, generation, running, retryAfter, waketask,
                 modelSettled>>

CacheData(g) ==
  /\ Downloading(g, "data", "meta") \/ Downloading(g, "again", "meta")
  /\ cache' = [cache EXCEPT !.data = downloads[g].url]
  /\ UNCHANGED <<selection, arrived, wanted, generation, running, retryAfter, waketask,
                 modelSettled>>

CacheMeta(g) ==
  /\ Downloading(g, "meta", "queue")
  /\ cache' = [cache EXCEPT !.meta = downloads[g].url]
  /\ UNCHANGED <<selection, arrived, wanted, generation, running, retryAfter, waketask,
                 modelSettled>>

(* When the data cannot be written the cache is formatted, and they are    *)
(* written again.                                                          *)
CacheFormat(g) ==
  /\ Downloading(g, "data", "again")
  /\ cache' = [data |-> NoUrl, meta |-> NoUrl]
  /\ UNCHANGED <<selection, arrived, wanted, generation, running, retryAfter, waketask,
                 modelSettled>>

(* The result is not looked at. *)
CacheFailed(g) ==
  /\ Downloading(g, "again", "queue") \/ Downloading(g, "meta", "queue")
  /\ UNCHANGED <<selection, arrived, wanted, generation, running, retryAfter, waketask, cache,
                 modelSettled>>

(* queue_pending_custom_model *)
QueuePending(g) ==
  /\ Downloading(g, "queue", "end")
  /\ arrived' = downloads[g].url
  /\ UNCHANGED <<selection, wanted, generation, running, retryAfter, waketask, cache,
                 modelSettled>>

DownloadResult(g) ==
  /\ Downloading(g, "end", "stop")
  /\ RetryAfter(g, FALSE)
  /\ UNCHANGED <<selection, arrived, wanted, generation, running, waketask, cache, modelSettled>>

DownloadEnds(g) ==
  /\ Downloading(g, "stop", "none")
  /\ running' = IF Current(g) THEN FALSE ELSE running
  /\ UNCHANGED <<selection, arrived, wanted, generation, retryAfter, waketask, cache,
                 modelSettled>>

DownloadTask(g) ==
  \/ Fetched(g) \/ FetchFailed(g)
  \/ CacheData(g) \/ CacheMeta(g) \/ CacheFormat(g) \/ CacheFailed(g)
  \/ QueuePending(g) \/ DownloadResult(g) \/ DownloadEnds(g)

-----------------------------------------------------------------------------

ModelNext ==
  \/ \E custom \in BOOLEAN, url \in Anywhere : Select(custom, url)
  \/ CountSelection \/ ModelSettle \/ RetryPasses
  \/ EnsureTask
  \/ \E g \in Generations : DownloadTask(g)

(* The microphone runs, so the wake task comes by; the tasks make their    *)
(* steps and time passes.                                                  *)
ModelFairness ==
  /\ WF_model(CountSelection) /\ WF_model(RetryPasses) /\ WF_model(EnsureTask)
  /\ \A g \in Generations : WF_model(DownloadTask(g))

ModelSpec == ModelInit /\ [][ModelNext]_model /\ ModelFairness

-----------------------------------------------------------------------------
(* Properties.                                                             *)

(* Once selections and failures end, the selected model comes into use and *)
(* stays it, also when a late download of another one took the place of    *)
(* its result or of its files.                                             *)
SelectedModelUsed ==
  <>[]modelSettled =>
    <>[](IF selection.custom THEN selection.url \in {NoUrl, active.url} ELSE active.url = NoUrl)

(* s_custom_download_running, which holds other downloads back, is set      *)
(* exactly while the newest download has a task or is about to get one,    *)
(* whatever becomes of those before it.                                    *)
RunningIsReal ==
  running <=> ensuring = "create" \/ \E g \in Generations : Current(g) /\ downloads[g].at # "none"

(* README.md:99, "Custom microWakeWord `.json` and `.tflite` URL support   *)
(* with persistent cache": once selections and failures end, the model     *)
(* that listens for the selected URL is the one that was fetched from it.  *)
RightModelListens ==
  <>[]modelSettled =>
    <>[](selection.custom /\ selection.url # NoUrl => active.data = selection.url)

=============================================================================
