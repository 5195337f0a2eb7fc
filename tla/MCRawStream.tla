---------------------------- MODULE MCRawStream ----------------------------
(* RawStream on captures of up to two frames, raw or wrongly taken for raw *)
(* although they start with the magic of a container, of which the end is  *)
(* missing or one cell is another: a length, a type or a value.            *)
EXTENDS RawStream

CONSTANT MaxSent

(* One frame of every kind of payload.                                     *)
MCSent ==
  { <<4, RouteMonitoring, 7, 0>>,
    <<4, PeerDown, 7, 3>>,
    <<7, Statistics, 7, 2, 8, 1, 5>>,
    <<7, Initiation, 2, 1, 5, 0, 0>>,
    <<6, Termination, 1, 2, 6, 9>> }

MCMagic == <<9, 9, 8>>

Capture(cells, frames, start, n) ==
  [file |-> cells, sent |-> frames, hurt |-> IF start = <<>> THEN n ELSE 1]

Cut(frames, start) ==
  LET whole == start \o FlattenSeq(frames)
  IN  {Capture(SubSeq(whole, 1, n), frames, start, n + 1) : n \in 0..Len(whole)}

Changed(frames, start) ==
  LET whole == start \o FlattenSeq(frames)
  IN  {Capture([whole EXCEPT ![x[1]] = x[2]], frames, start, x[1]) :
         x \in (DOMAIN whole) \X Cells}

MCCaptures ==
  UNION {Cut(x[1], x[2]) \cup Changed(x[1], x[2]) :
           x \in BoundedSeq(MCSent, MaxSent) \X {<<>>, MCMagic}}
=============================================================================
