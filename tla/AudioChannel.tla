---------------------------- MODULE AudioChannel ----------------------------
(***************************************************************************)
(* What the satellite's audio buffers promise to the two tasks at their    *)
(* ends: a FIFO of bounded depth between one source and one listener.      *)
(* Units of audio are numbered in the order the source gives them.         *)
(* PlaybackStream (the jitter buffer of a download) and SceneMix (the ring *)
(* between a scene's background and its mixer) implement it.               *)
(***************************************************************************)
EXTENDS Naturals, Sequences

CONSTANT Depth   \* units the channel holds at most

VARIABLES
  queue,    \* the units on their way
  put,      \* the last unit that the source put
  heard,    \* the last unit that the listener took
  closed,   \* the source has no more
  result    \* "none" until the listener is through, then "ok" or "failed"

channel == <<queue, put, heard, closed, result>>

ChannelInit ==
  /\ queue = <<>> /\ put = 0 /\ heard = 0
  /\ closed = FALSE /\ result = "none"

(* The source puts its next k units. *)
Put(k) ==
  /\ ~closed /\ Len(queue) + k <= Depth
  /\ queue' = queue \o [i \in 1..k |-> put + i]
  /\ put' = put + k
  /\ UNCHANGED <<heard, closed, result>>

(* The listener takes the k oldest units. *)
Take(k) ==
  /\ result = "none" /\ k <= Len(queue)
  /\ heard' = queue[k]
  /\ queue' = SubSeq(queue, k + 1, Len(queue))
  /\ UNCHANGED <<put, closed, result>>

(* Without a buffer, the listener takes from the source itself. *)
Hand(k) ==
  /\ ~closed /\ result = "none" /\ queue = <<>>
  /\ put' = put + k /\ heard' = put'
  /\ UNCHANGED <<queue, closed, result>>

Close == ~closed /\ closed' = TRUE /\ UNCHANGED <<queue, put, heard, result>>

(* The listener has everything only when the source has no more and the    *)
(* channel is empty; it may give up at any time.                           *)
Finish(r) ==
  /\ result = "none"
  /\ r = "ok" => closed /\ queue = <<>>
  /\ result' = r
  /\ UNCHANGED <<queue, put, heard, closed>>

ChannelNext ==
  \/ \E k \in 1..Depth : Put(k) \/ Take(k) \/ Hand(k)
  \/ Close
  \/ \E r \in {"ok", "failed"} : Finish(r)

ChannelSpec == ChannelInit /\ [][ChannelNext]_channel

=============================================================================
