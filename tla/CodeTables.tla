----------------------------- MODULE CodeTables -----------------------------
(***************************************************************************)
(* The operations of resources/ as read_queries_from_files loads them: the *)
(* codes of their WHERE files in sorted file order ($CODE_n$), bits.txt,   *)
(* and whether one count file stands for several WHERE files.  `asks` is   *)
(* the code that the triples of each file amount to: bit 0 .. 3 and 6 for  *)
(* a property of ?col, 4 for sosa:hasResult, 5 for wgs84.                  *)
(***************************************************************************)
EXTENDS Naturals, Sequences

Coded(codes, bits) ==
  [n |-> Len(codes), codes |-> codes, asks |-> codes, bits |-> bits, shared |-> FALSE]

\* File i asks for something else than its $CODE_n$ says.
Asking(code, i, table) == [table EXCEPT !.asks[i] = code]

Uncoded(n) ==
  [n |-> n, codes |-> <<>>, asks |-> <<>>, bits |-> {}, shared |-> FALSE]

WithOneCount(table) == [table EXCEPT !.shared = TRUE]

\* All the operations of Datastreams.
Datastreams == Coded(<<28, 12, 16, 0, 20, 4, 24, 8>>, 2 .. 4)

FeatureOfInterestOfObservation == Coded(<<96, 32, 64, 0>>, {5, 6})

\* The item and the list of FeaturesOfInterest and of Locations.
FeaturesOfInterest == Coded(<<32, 0>>, {5})

\* 18 and 2 agree on bits 1, 5 and 6; where_5.rq asks for bits 1 and 5.
HistoricalLocationsOfLocation ==
  Asking(34, 5, Coded(<<98, 66, 32, 0, 18, 2, 96, 64>>, {1, 5, 6}))

HistoricalLocationsOfThing == Coded(<<6, 0, 2, 4>>, {1, 2})

HistoricalLocation == Coded(<<10, 0>>, {1})

HistoricalLocations == WithOneCount(HistoricalLocation)

\* So does where_7.rq here.
LocationsOfHistoricalLocation ==
  Asking(34, 7, Coded(<<98, 66, 32, 0, 96, 64, 18, 2>>, {1, 5, 6}))

LocationsOfThing == Coded(<<100, 68, 32, 0, 96, 64, 36, 4>>, {2, 5, 6})

\* Two files with code 100: the second is never hinted at, and has no wgs84.
ThingsOfLocation ==
  Asking(68, 2, Coded(<<100, 100, 32, 0, 96, 64, 36, 4>>, {2, 5, 6}))

ObservationsOfDatastream ==
  Coded(<<31, 4, 24, 8, 30, 14, 29, 13, 27, 11, 23, 15, 7, 19, 3, 21,
          5, 25, 9, 26, 10, 22, 16, 6, 28, 12, 0, 17, 1, 18, 2, 20>>, 0 .. 4)

\* 32 and 0 agree on bits 0, 1, 4 and 6; where_3.rq has sosa:hasResult, bit 4.
ObservationsOfFeature ==
  Asking(16, 10, Coded(<<83, 64, 82, 66, 81, 65, 19, 3, 67, 32, 0, 17, 1, 18, 2, 80>>,
                       {0, 1, 4, 6}))

Observation == Coded(<<19, 3, 16, 0, 17, 1, 18, 2>>, {0, 1, 4})

Observations == WithOneCount(Observation)

\* The operations with a file whose $CODE_n$ is not what it asks for.
Mislabelled ==
  {HistoricalLocationsOfLocation, LocationsOfHistoricalLocation, ThingsOfLocation,
   ObservationsOfFeature}

\* Sensors, ObservedProperties, Things and what leads to one of them.
UncodedOperations == {Uncoded(n) : n \in 1 .. 3}

Operations ==
  {Datastreams, FeatureOfInterestOfObservation, FeaturesOfInterest,
   HistoricalLocationsOfLocation, HistoricalLocationsOfThing, HistoricalLocation,
   HistoricalLocations, LocationsOfHistoricalLocation, LocationsOfThing, ThingsOfLocation,
   ObservationsOfDatastream, ObservationsOfFeature, Observation, Observations}
  \cup UncodedOperations
=============================================================================
