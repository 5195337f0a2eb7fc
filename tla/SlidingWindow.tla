---------------------------- MODULE SlidingWindow ----------------------------
(* What a rolling summary promises, without ring buffer or counters: it    *)
(* remembers the last size messages, and a line it prints summarises       *)
(* exactly those (docs/replay-watch-design.md:19, 34-39).                  *)
EXTENDS Integers, Sequences, FiniteSets

CONSTANTS Messages, \* what may be pushed
          Types, Rules, NoPeer,
          NoLine    \* nothing printed yet

VARIABLES size,     \* the window's size
          total,    \* messages pushed so far
          window,   \* the last messages, oldest first
          shown     \* the line printed last

Number(s, P(_)) == Cardinality({i \in DOMAIN s : P(s[i])})

Summary(n, s) ==
  [total     |-> n,
   byType    |-> [t \in Types |-> Number(s, LAMBDA m : m.type = t)],
   malformed |-> Number(s, LAMBDA m : m.malformed),
   peers     |-> Cardinality({s[i].peer : i \in DOMAIN s} \ {NoPeer}),
   parseErrors |->
     Cardinality({x \in (DOMAIN s) \X Rules : x[2] \in s[x[1]].findings})]

Init == size \in Nat /\ total = 0 /\ window = <<>> /\ shown = NoLine

Slide(m) ==
  LET longer == Append(window, m)
  IN  window' = IF Len(longer) <= size THEN longer ELSE Tail(longer)

Push(m) ==
  /\ Slide(m)
  /\ total' = total + 1
  /\ shown' \in {shown, Summary(total', window')}
  /\ UNCHANGED size

(* Printing once more, at the end of the stream.                           *)
Show ==
  /\ total > 0
  /\ shown' = Summary(total, window)
  /\ UNCHANGED <<size, total, window>>

Next == Show \/ \E m \in Messages : Push(m)

Spec == Init /\ [][Next]_<<size, total, window, shown>>
=============================================================================
