--------------------------- MODULE IdentitySources --------------------------
(***************************************************************************)
(* The identity sources (internal/sources) and which of them a number may  *)
(* be asked of.  A source is what the correlator can tell of it:           *)
(*   keyed    its DryRun refuses without the credentials it needs;         *)
(*   yields   the fields it makes claims of;                               *)
(*   several  one answer may hold several people, names or officers;       *)
(*   fails    the status its run gets when a request fails.  A source that *)
(*            drops the error answers no claims; sources.Get turns a 404   *)
(*            into ErrSkipped ("source skipped"), which the correlator     *)
(*            reads as skipped.                                            *)
(* A DryRun that refuses other countries never does so here: the selection *)
(* asks such a source about its own countries only.  The phone books' rate *)
(* limiter is new in every investigation and used once, so never waits.    *)
(***************************************************************************)
EXTENDS Naturals, Sequences

\* Weights are in fortieths: the code's 0.90, 0.75, 0.50 and 0.25.
TierWeight ==
  [Government |-> 36, Commercial |-> 30, Crowdsource |-> 20, Breach |-> 10]

Swallowed == {"no_claims"}      \* the source returns nil, nil
Returned == {"error"}           \* it returns the error
ReturnedByGet == {"error", "skipped"}

Described(tier, keyed, several, fails, yields) ==
  [tier |-> tier, keyed |-> keyed, several |-> several, fails |-> fails,
   yields |-> yields]

OpenCNAM == Described("Commercial", FALSE, FALSE, Swallowed, <<"name">>)

NumLookup == Described("Commercial", TRUE, FALSE, ReturnedByGet,
                       <<"name", "region", "carrier", "line_type">>)

Trestle == Described("Commercial", TRUE, TRUE, Swallowed, <<"name", "address">>)

LeakSight == Described("Breach", TRUE, TRUE, ReturnedByGet, <<"name", "email">>)

IPQualityScore == Described("Commercial", TRUE, FALSE, ReturnedByGet,
                            <<"name", "region", "carrier", "line_type">>)

Veriphone == Described("Commercial", TRUE, FALSE, ReturnedByGet,
                       <<"carrier", "line_type", "region">>)

AbstractAPI == Described("Commercial", TRUE, FALSE, ReturnedByGet,
                         <<"carrier", "line_type", "region", "timezone">>)

\* The caller name is asked for +1 numbers only, and only when enabled.
Twilio == Described("Commercial", TRUE, FALSE, Returned,
                    <<"carrier", "line_type", "name">>)

NeutrinoHLR == Described("Commercial", TRUE, FALSE, Returned, <<"carrier">>)

CallerKit == Described("Commercial", TRUE, TRUE, ReturnedByGet,
                       <<"name", "carrier">>)

\* Asked only once there are candidate names; one failed name is passed over.
CompaniesHouse == Described("Government", FALSE, TRUE, Swallowed,
                            <<"name", "address", "dob">>)

NigeriaPhoneBook ==
  Described("Crowdsource", FALSE, FALSE, Swallowed, <<"name">>)

PagineBianche ==
  Described("Crowdsource", FALSE, FALSE, Swallowed, <<"name", "address">>)

TeleListas ==
  Described("Crowdsource", FALSE, FALSE, Swallowed, <<"name", "address">>)

PaginasBlancas ==
  Described("Crowdsource", FALSE, FALSE, Swallowed, <<"name", "address">>)

DasTelefonbuch ==
  Described("Crowdsource", FALSE, FALSE, Swallowed, <<"name", "address">>)

\* defaultIdentitySources, by name.
SourceNames ==
  {"OpenCNAM", "NumLookup", "Trestle", "LeakSight", "IPQualityScore",
   "Companies House", "Veriphone", "AbstractAPI", "Twilio", "CallerKit",
   "Neutrino HLR", "NigeriaPhoneBook", "Pagine Bianche", "TeleListas",
   "Paginas Blancas Argentina", "Das Telefonbuch"}

Catalogue ==
  [s \in SourceNames |->
     CASE s = "OpenCNAM" -> OpenCNAM
       [] s = "NumLookup" -> NumLookup
       [] s = "Trestle" -> Trestle
       [] s = "LeakSight" -> LeakSight
       [] s = "IPQualityScore" -> IPQualityScore
       [] s = "Companies House" -> CompaniesHouse
       [] s = "Veriphone" -> Veriphone
       [] s = "AbstractAPI" -> AbstractAPI
       [] s = "Twilio" -> Twilio
       [] s = "CallerKit" -> CallerKit
       [] s = "Neutrino HLR" -> NeutrinoHLR
       [] s = "NigeriaPhoneBook" -> NigeriaPhoneBook
       [] s = "Pagine Bianche" -> PagineBianche
       [] s = "TeleListas" -> TeleListas
       [] s = "Paginas Blancas Argentina" -> PaginasBlancas
       [] s = "Das Telefonbuch" -> DasTelefonbuch]

\* The weight of a claim of field f: a guessed region counts for less.
Weight(s, f) ==
  LET tier == TierWeight[Catalogue[s].tier] IN
  CASE s = "NumLookup" /\ f = "region" -> (tier * 60) \div 100
    [] s = "IPQualityScore" /\ f = "region" -> (tier * 50) \div 100
    [] OTHER -> tier

-----------------------------------------------------------------------------
\* A number's country, as its prefix tells it; "MENA" are CallerKit's.
Countries ==
  {"IN", "US", "GB", "NG", "IT", "BR", "AR", "DE", "MENA", "other"}

Everywhere == {"OpenCNAM", "Veriphone", "AbstractAPI", "Twilio", "Neutrino HLR"}

LocalSources ==
  [IN |-> {"NumLookup", "LeakSight", "IPQualityScore"},
   US |-> {"NumLookup", "Trestle", "LeakSight", "IPQualityScore"},
   GB |-> {"NumLookup", "LeakSight"},
   NG |-> {"NigeriaPhoneBook"},
   IT |-> {"Pagine Bianche"},
   BR |-> {"TeleListas"},
   AR |-> {"Paginas Blancas Argentina"},
   DE |-> {"Das Telefonbuch"},
   MENA |-> {"CallerKit"},
   other |-> {"NumLookup", "LeakSight", "IPQualityScore"}]

DeferredSource == "Companies House"

SelectSourceNames(country, includeDeferred) ==
  Everywhere \cup LocalSources[country] \cup
    (IF country = "GB" /\ includeDeferred THEN {DeferredSource} ELSE {})

\* The fields s may make claims of, for a number of the country.
Fields(s, country) ==
  SelectSeq(Catalogue[s].yields,
            LAMBDA f : s = "Twilio" /\ f = "name" => country = "US")
=============================================================================
