------------------------------ MODULE StreamLog ------------------------------
(***************************************************************************)
(* What one stream of the hub promises to those who read it: a log of the  *)
(* last HistorySize events, numbered without gaps and without reuse, that  *)
(* is appended to while the stream is open, closed at the end of an        *)
(* execution, and emptied and opened again when the job is resumed.        *)
(***************************************************************************)
EXTENDS Integers, Sequences

CONSTANTS HistorySize,  \* events retained for replay
          Bodies        \* what an event may carry

VARIABLES history,      \* retained events, oldest first
          lastID,       \* id of the newest event ever published
          open

streamVars == <<history, lastID, open>>

LogInit == history = <<>> /\ lastID = 0 /\ open = TRUE

Newest(s) == IF Len(s) <= HistorySize THEN s ELSE Tail(s)

LogAppend ==
  \E b \in Bodies :
    /\ open
    /\ lastID' = lastID + 1
    /\ history' = Newest(Append(history, [id |-> lastID + 1, body |-> b]))
    /\ UNCHANGED open

LogClose == open /\ open' = FALSE /\ UNCHANGED <<history, lastID>>

LogReopen == history' = <<>> /\ open' = TRUE /\ UNCHANGED lastID

LogNext == LogAppend \/ LogClose \/ LogReopen

LogSpec == LogInit /\ [][LogNext]_streamVars
=============================================================================
