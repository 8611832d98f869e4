----------------------------- MODULE SseStream ------------------------------
(***************************************************************************)
(* What the hub promises a client, whatever happens in it: while the       *)
(* stream is open the client is sent events in the order in which they     *)
(* were published, each at most once, and any of them may be missing.      *)
(***************************************************************************)
EXTENDS TaskEvents

VARIABLES
  air,   \* published, and neither sent nor dropped
  open,  \* the client is connected
  got    \* what it has been sent since it connected
stream == <<air, open, got>>

StreamInit == TaskInit /\ air = <<>> /\ open = FALSE /\ got = <<>>

Publishes ==
  /\ TaskPublishes
  /\ air' = Append(air, Head(todo)) \/ UNCHANGED air
  /\ UNCHANGED <<open, got>>
Sends ==
  /\ open /\ air # <<>>
  /\ got' = Append(got, Head(air)) /\ air' = Tail(air)
  /\ UNCHANGED <<task, open>>
\* Some of what is under way in a row is lost.
AirWithout(i, j) == SubSeq(air, 1, i) \o SubSeq(air, j + 1, Len(air))
Drops ==
  /\ \E i, j \in 0..Len(air) : i <= j /\ air' = AirWithout(i, j)
  /\ UNCHANGED <<task, open, got>>
Opens == ~open /\ open' = TRUE /\ UNCHANGED <<task, air, got>>
\* With the connection goes what was held for it.
Shuts ==
  /\ open' = FALSE /\ got' = <<>>
  /\ \E i \in 0..Len(air) : air' = AirWithout(0, i)
  /\ UNCHANGED task

StreamNext ==
  \/ (TaskCommits \/ TaskFails) /\ UNCHANGED stream
  \/ Publishes \/ Sends \/ Drops \/ Opens \/ Shuts
StreamSpec == StreamInit /\ [][StreamNext]_<<task, stream>>
=============================================================================
