----------------------------- MODULE OtaUpdate -----------------------------
(***************************************************************************)
(* A firmware update (main/ota_update.c): the event task accepts a request *)
(* and hands it to a task that is made once and never ends; that one       *)
(* streams the image into the spare partition through the scanner of       *)
(* OtaFamily, and boots it or reports a failure.                           *)
(*                                                                         *)
(* Refused requests change nothing and are left out, as are the progress   *)
(* reports and the update's claim of the speaker (SpeakerOwnership).       *)
(* esp_ota_end is taken to refuse an image that was cut short.             *)
(***************************************************************************)
EXTENDS OtaFamily

CONSTANTS
  PartitionSize, ChunkSize,
  MaxUpdates   \* bound: requests accepted

ASSUME UpdateAssumption ==
  /\ PartitionSize \in Nat /\ ChunkSize \in Nat \ {0} /\ MaxUpdates \in Nat

VARIABLES
  updating,    \* s_running
  context,     \* s_ota_pending_context is set
  contexts,    \* contexts that are allocated
  handed,      \* the notification of the task
  created,     \* s_ota_task_handle is set
  asker,       \* where tater_ota_start_url stands
  updater,     \* where ota_task stands
  http,        \* the HTTP client is there
  ota,         \* the local handle is not 0
  slot,        \* what became of the handle: "twice" if it is given back again
  chunk,       \* bytes of the present chunk that the scanner has not seen
  whole,       \* the stream ended with the image, not before
  boot,        \* the partition that boots next
  accepted, failed   \* history: requests accepted, failures reported

local == <<http, ota, slot, chunk, whole, boot>>
update == <<family, updating, context, contexts, handed, created, asker, updater, local,
            accepted, failed>>

UpdateTypeOK ==
  /\ FamilyTypeOK
  /\ {updating, context, handed, created, http, ota, whole} \subseteq BOOLEAN
  /\ contexts \in 0..2
  /\ asker \in {"idle", "allocate", "create", "notify"}
  /\ updater \in {"wait", "open", "begin", "read", "scan", "verify", "end", "boot", "restart",
                  "gone", "release", "clear", "report"}
  /\ slot \in {"none", "open", "closed", "twice"}
  /\ chunk \in 0..ChunkSize
  /\ boot \in {"old", "new"}
  /\ accepted \in 0..MaxUpdates /\ failed \in 0..accepted

UpdateInit ==
  /\ ScanInit
  /\ updating = FALSE /\ context = FALSE /\ contexts = 0 /\ handed = FALSE /\ created = FALSE
  /\ asker = "idle" /\ updater = "wait"
  /\ http = FALSE /\ ota = FALSE /\ slot = "none" /\ chunk = 0 /\ whole = FALSE /\ boot = "old"
  /\ accepted = 0 /\ failed = 0

-----------------------------------------------------------------------------
(* tater_ota_start_url, on the event task.                                 *)

Asks(from, to) == asker = from /\ asker' = to

Ask ==
  /\ Asks("idle", "allocate")
  /\ updater # "gone" /\ accepted < MaxUpdates
  /\ ~updating /\ updating' = TRUE
  /\ UNCHANGED <<family, context, contexts, handed, created, updater, local, accepted, failed>>

Allocate ==
  /\ Asks("allocate", "create")
  /\ contexts' = contexts + 1 /\ context' = TRUE
  /\ UNCHANGED <<family, updating, handed, created, updater, local, accepted, failed>>

AllocateFailed ==
  /\ Asks("allocate", "idle")
  /\ updating' = FALSE
  /\ UNCHANGED <<family, context, contexts, handed, created, updater, local, accepted, failed>>

CreateUpdater ==
  /\ Asks("create", "notify")
  /\ created' = TRUE
  /\ UNCHANGED <<family, updating, context, contexts, handed, updater, local, accepted, failed>>

(* Faulty form of CreateUpdaterFailed: s_running stays. *)
CreateUpdaterFailedRunning ==
  /\ Asks("create", "idle")
  /\ ~created
  /\ context' = FALSE /\ contexts' = contexts - 1
  /\ UNCHANGED <<family, updating, handed, created, updater, local, accepted, failed>>

CreateUpdaterFailed ==
  /\ Asks("create", "idle")
  /\ ~created
  /\ context' = FALSE /\ contexts' = contexts - 1 /\ updating' = FALSE
  /\ UNCHANGED <<family, handed, created, updater, local, accepted, failed>>

Notify ==
  /\ Asks("notify", "idle")
  /\ handed' = TRUE /\ accepted' = accepted + 1
  /\ UNCHANGED <<family, updating, context, contexts, created, updater, local, failed>>

Asker ==
  \/ Ask \/ Allocate \/ AllocateFailed \/ CreateUpdater \/ CreateUpdaterFailed \/ Notify

-----------------------------------------------------------------------------
(* ota_task and ota_run.                                                   *)

Updates(from, to) == updater = from /\ updater' = to

(* Faulty form of TakeUpdate: the scanner still knows the image before. *)
TakeUpdateKeepsScan ==
  /\ created /\ handed /\ handed' = FALSE
  /\ Updates("wait", IF context THEN "open" ELSE "wait")
  /\ context' = FALSE
  /\ updating' = (updating \/ context)
  /\ image' = <<>> /\ ota' = FALSE /\ slot' = "none" /\ whole' = FALSE
  /\ UNCHANGED <<matched, found, byte, contexts, created, asker, http, chunk, boot,
                 accepted, failed>>

TakeUpdate ==
  /\ created /\ handed /\ handed' = FALSE
  /\ Updates("wait", IF context THEN "open" ELSE "wait")
  /\ context' = FALSE
  /\ updating' = (updating \/ context)
  /\ ScanAgain /\ ota' = FALSE /\ slot' = "none" /\ whole' = FALSE
  /\ UNCHANGED <<contexts, created, asker, http, chunk, boot, accepted, failed>>

Unshared == UNCHANGED <<updating, context, contexts, handed, created, asker, accepted, failed>>

OpenHttp ==
  /\ Updates("open", "begin")
  /\ http' = TRUE
  /\ UNCHANGED <<family, ota, slot, chunk, whole, boot>> /\ Unshared

(* There is no client, or it gets no answer, or one that does not fit. *)
OpenHttpFailed ==
  /\ Updates("open", "release")
  /\ http' \in BOOLEAN
  /\ UNCHANGED <<family, ota, slot, chunk, whole, boot>> /\ Unshared

BeginImage ==
  /\ Updates("begin", "read")
  /\ ota' = TRUE /\ slot' = "open"
  /\ UNCHANGED <<family, http, chunk, whole, boot>> /\ Unshared

ReadChunk ==
  /\ Updates("read", "scan")
  /\ chunk' \in 1..ChunkSize
  /\ UNCHANGED <<family, http, ota, slot, whole, boot>> /\ Unshared

(* Nothing more comes: the image is complete, or the connection is not. *)
ReadEnd ==
  /\ Updates("read", "verify")
  /\ whole' \in BOOLEAN
  /\ UNCHANGED <<family, http, ota, slot, chunk, boot>> /\ Unshared

NextByte ==
  /\ Updates("scan", "scan")
  /\ chunk > 0 /\ chunk' = chunk - 1
  /\ \E b \in Bytes : Feed(b) \/ Skip(b)
  /\ UNCHANGED <<http, ota, slot, whole, boot>> /\ Unshared

ScanByte ==
  /\ Updates("scan", "scan")
  /\ Scan
  /\ UNCHANGED local /\ Unshared

WriteChunk ==
  /\ Updates("scan", "read")
  /\ chunk = 0 /\ byte = NoByte
  /\ Len(image) <= PartitionSize
  /\ UNCHANGED <<family, local>> /\ Unshared

(* Beginning, reading, writing or setting the partition fails. *)
StepFailed ==
  /\ \/ \E step \in {"begin", "read", "boot"} : Updates(step, "release")
     \/ Updates("scan", "release") /\ chunk = 0 /\ byte = NoByte
  /\ UNCHANGED <<family, local>> /\ Unshared

Verify ==
  /\ Updates("verify", IF found THEN "end" ELSE "release")
  /\ UNCHANGED <<family, local>> /\ Unshared

Close == slot' = IF slot = "open" THEN "closed" ELSE "twice"

EndImage ==
  /\ Updates("end", "release") \/ (whole /\ Updates("end", "boot"))
  /\ Close /\ ota' = FALSE
  /\ UNCHANGED <<family, http, chunk, whole, boot>> /\ Unshared

SetBoot ==
  /\ Updates("boot", "restart")
  /\ boot' = "new"
  /\ UNCHANGED <<family, http, ota, slot, chunk, whole>> /\ Unshared

Restart ==
  /\ Updates("restart", "gone")
  /\ UNCHANGED <<family, local>> /\ Unshared

Release ==
  /\ Updates("release", "clear")
  /\ IF ota THEN Close ELSE UNCHANGED slot
  /\ http' = FALSE /\ contexts' = contexts - 1
  /\ UNCHANGED <<family, updating, context, handed, created, asker, ota, chunk, whole, boot,
                 accepted, failed>>

ClearRunning ==
  /\ Updates("clear", "report")
  /\ updating' = FALSE
  /\ UNCHANGED <<family, context, contexts, handed, created, asker, local, accepted, failed>>

Report ==
  /\ Updates("report", "wait")
  /\ failed' = failed + 1
  /\ UNCHANGED <<family, updating, context, contexts, handed, created, asker, local, accepted>>

Updater ==
  \/ TakeUpdate \/ OpenHttp \/ OpenHttpFailed \/ BeginImage
  \/ ReadChunk \/ ReadEnd \/ NextByte \/ ScanByte \/ WriteChunk \/ StepFailed
  \/ Verify \/ EndImage \/ SetBoot \/ Restart \/ Release \/ ClearRunning \/ Report

-----------------------------------------------------------------------------

UpdateNext == Asker \/ Updater

(* Both tasks run; a request to the server ends within its timeout. *)
UpdateFairness == WF_update(Asker) /\ WF_update(Updater)

UpdateSpec == UpdateInit /\ [][UpdateNext]_update /\ UpdateFairness

-----------------------------------------------------------------------------
(* Properties.                                                             *)

(* Only an image that carries the marker of this board's family, and came  *)
(* to its end, is ever booted, whatever updates failed before it.          *)
BootsOwnFamily == boot = "new" => Contains(image) /\ whole

(* Wherever an update fails, it gives back its handle, its client and its  *)
(* context, and each of them once.                                         *)
GivesBack ==
  /\ slot # "twice"
  /\ updater = "wait" =>
       slot # "open" /\ ~http /\ contexts = IF context THEN 1 ELSE 0

(* A request that is accepted ends with a restart or with its failure      *)
(* reported, and until then s_running refuses others but not afterwards.   *)
UpdatesEnd ==
  []<>(updater = "gone" \/ (~updating /\ accepted = failed))

=============================================================================
