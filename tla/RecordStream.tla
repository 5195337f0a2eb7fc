---------------------------- MODULE RecordStream ----------------------------
(* What a capture promises whoever reads it: the messages that have been   *)
(* recorded, each once and in the order of their arrival, up to the point  *)
(* where the reading ends.                                                 *)
EXTENDS Naturals, Sequences

CONSTANT Payloads

VARIABLES recorded,  \* the messages in the capture
          delivered, \* those the reader has been given
          closed     \* the reading has ended

Init == recorded = <<>> /\ delivered = <<>> /\ closed = FALSE

Record(m) == recorded' = Append(recorded, m) /\ UNCHANGED <<delivered, closed>>

Deliver ==
  /\ ~closed
  /\ Len(delivered) < Len(recorded)
  /\ delivered' = Append(delivered, recorded[Len(delivered) + 1])
  /\ UNCHANGED <<recorded, closed>>

Close == ~closed /\ closed' = TRUE /\ UNCHANGED <<recorded, delivered>>

Next == Deliver \/ Close \/ \E m \in Payloads : Record(m)

Spec == Init /\ [][Next]_<<recorded, delivered, closed>>
=============================================================================
