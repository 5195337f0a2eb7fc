------------------------------ MODULE MCBrowser ------------------------------
(* Browser with three collectors: one of three streams, of which a filter  *)
(* hides some, one of a single stream, and an undefined one that only a    *)
(* filter brings up.                                                       *)
EXTENDS Browser

CONSTANTS a, b

Stream(hits, peer, zero) == [hits |-> hits, peer |-> peer, zero |-> zero]

MCCollectors ==
  << [hits |-> {<<a>>}, undefined |-> FALSE,
      streams |-> << Stream({<<b>>}, FALSE, TRUE),
                     Stream({<<b>>, <<b, b>>}, FALSE, FALSE),
                     Stream({<<b>>, <<b, b>>, <<b, a>>, <<a>>}, TRUE, FALSE) >>],
     [hits |-> {}, undefined |-> FALSE,
      streams |-> << Stream({<<b>>, <<b, b>>}, FALSE, TRUE) >>],
     [hits |-> {<<b>>}, undefined |-> TRUE,
      streams |-> << Stream({<<a>>, <<b>>, <<b, a>>}, FALSE, FALSE) >>] >>

MCChars == {a, b}
=============================================================================
