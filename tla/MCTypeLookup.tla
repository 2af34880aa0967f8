---------------------------- MODULE MCTypeLookup ----------------------------
(* TypeLookup for TLC: A and AAAA queries to servers that hold no, one or two
   records of a type, in any order of preference. *)
EXTENDS TypeLookup

MCZones ==
  {z \in [QTypes -> {<<>>, <<2>>, <<4, 1>>, <<3>>, <<1, 5>>}] :
     \A p, q \in QTypes : p # q => Elems(z[p]) \cap Elems(z[q]) = {}}
=============================================================================
