----------------------------- MODULE MCCorrelator ---------------------------
(***************************************************************************)
(* A GB or US number and four sources: of both countries one that guesses  *)
(* a region and one that may know two names and emails; of the US one that *)
(* dates its addresses; of GB Companies House, asked last.  Name 1 is like *)
(* 2 and 2 like 3, but 1 is not like 3; 0 is a name with nothing in it.    *)
(* Birth dates, which come from Companies House alone, and fields no list  *)
(* shows have no values.                                                   *)
(***************************************************************************)
EXTENDS Correlator

MCRegistered == {"Veriphone", "LeakSight", "Trestle", "Companies House"}

MCAsked == {"GB", "US"}

MCValues ==
  [name |-> 0..3, address |-> {11}, region |-> {12}, email |-> {31},
   dob |-> {}, carrier |-> {}, line_type |-> {}, timezone |-> {}]

MCMaxEntries == [s \in SourceNames |-> IF s = "LeakSight" THEN 2 ELSE 1]

MCSimilar == {<<"name", 1, 2>>, <<"name", 2, 1>>, <<"name", 2, 3>>,
              <<"name", 3, 2>>}

MCMessengers == {"Telegram"}

MCOtherClaims ==
  {[field |-> "email", value |-> 31, source |-> "Breach Intelligence",
    weight |-> TierWeight.Breach, age |-> 0]}
=============================================================================
