----------------------------- MODULE MCContainer -----------------------------
(* Container with one payload per outcome of parsing; only sizes relative  *)
(* to the limit matter.                                                    *)
EXTENDS Container

Payload(kind, header, inner, frame, size) ==
  [kind |-> kind, header |-> header, inner |-> inner, frame |-> frame,
   size |-> size]

RawBad       == Payload("RawBmp",         FALSE, FALSE, FALSE, 1)
Wrapped      == Payload("OpenBmpWrapped", TRUE,  TRUE,  TRUE,  2)
WrappedEmpty == Payload("OpenBmpWrapped", TRUE,  FALSE, FALSE, 1)
BadWrapper   == Payload("OpenBmpWrapped", FALSE, FALSE, FALSE, 1)
Oversized    == Payload("Unrecognized",   FALSE, FALSE, FALSE, 3)

MCPayloads == {RawBad, Wrapped, WrappedEmpty, BadWrapper, Oversized, Empty}
=============================================================================
