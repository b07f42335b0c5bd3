----------------------------- MODULE LookupSources -----------------------------
(* What the lookup modules ask, one definition per source: the keys and the     *)
(* country it wants, the sources it feeds on, how many requests it makes, and   *)
(* what becomes of a request that fails.  A module is a set of lanes: the       *)
(* sources of a lane are asked one after the other, the lanes are goroutines.   *)
(* Lookups.tla runs a module of this catalogue.                                 *)
EXTENDS EnumeratorServices, Naturals

CONSTANTS
    MaxRequests,  \* bound on the requests of a source that makes one per page, domain or name
    AskedServices \* names of the services the enumerator and the finance batch ask

ASSUME MaxRequestsAssumption == MaxRequests \in Nat \ {0, 1}

(* A source as most of them are: asked with one request, for any number and     *)
(* without a key, and a failed request makes its status the error.              *)
(*   unmet   its status when it is not asked, "" for none                       *)
(*   fault   "report": the error is its status, and what it found is dropped    *)
(*           "hush":   it is dropped without a status                           *)
(*           "pass":   a failed request counts as one that found nothing        *)
(*           "each":   each request reports for itself, under its topic         *)
(*           "retry":  the first failure may be followed by a second request    *)
(*   after   the sources whose finds it asks about; doubtful when a find of     *)
(*           theirs may name nothing to ask about                               *)
(*   blind   it can never find anything                                         *)
Source(name) ==
    [name |-> name, needs |-> {}, region |-> "any", after |-> {}, doubtful |-> FALSE,
     unmet |-> "skipped", least |-> 1, most |-> 1, fault |-> "report", topics |-> <<>>,
     blind |-> FALSE]

Silent(name) == [Source(name) EXCEPT !.unmet = "", !.fault = "pass"]

Loop(srcs) == [lanes |-> <<srcs>>, skips |-> "never", passive |-> "skipped"]
Fork(lanes) == [lanes |-> lanes, skips |-> "never", passive |-> ""]

--------------------------------------------------------------------------------
(* modules/reverse: the unofficial pages, then the archive's copies of them.    *)
TruecallerPage == Source("Truecaller")
GoogleDork     == Source("Google")
ZabaSearch     == [Source("ZabaSearch") EXCEPT !.region = "US", !.unmet = "no results"]
OpenCNAM       == [Source("OpenCNAM") EXCEPT !.needs = {"OPENCNAM_SID"}, !.unmet = ""]
Wayback        == [Silent("Wayback") EXCEPT !.most = MaxRequests]
Reverse        == Loop(<<TruecallerPage, GoogleDork, ZabaSearch, OpenCNAM, Wayback>>)

(* modules/spam                                                                 *)
Spam == Loop(<<Source("800notes"), Source("whocalledus"), Source("spamcalls")>>)

(* modules/paste: one request per spelling and paste, a search and its poll.    *)
Psbdmp   == [Source("psbdmp") EXCEPT !.most = MaxRequests]
GitHub   == Source("github")
Reddit   == Source("reddit")
IntelX   == [Source("intelx") EXCEPT !.needs = {"INTELX_API_KEY"}, !.most = 2]
DeHashed == [Source("dehashed") EXCEPT !.needs = {"DEHASHED_EMAIL", "DEHASHED_API_KEY"}]
Paste    == [Loop(<<Psbdmp, GitHub, Reddit, IntelX, DeHashed>>) EXCEPT !.skips = "all skipped"]

(* modules/publicrecords                                                        *)
Edgar          == Source("SEC EDGAR")
OpenCorporates == [Source("OpenCorporates") EXCEPT !.needs = {"OPENCORPORATES_API_KEY"}]
CompaniesHouse == [Source("Companies House") EXCEPT
                     !.region = "GB", !.after = {"SEC EDGAR", "OpenCorporates"},
                     !.doubtful = TRUE, !.most = MaxRequests, !.fault = "pass"]
Pacer          == [Source("PACER") EXCEPT !.needs = {"PACER_USERNAME", "PACER_PASSWORD"}]
Licenses       == [Source("Licenses") EXCEPT !.region = "US", !.most = MaxRequests,
                                             !.fault = "pass"]
PropertyHints  == [Source("Property hints") EXCEPT !.needs = {"GOOGLE_CSE_API_KEY", "GOOGLE_CSE_CX"}]
PublicRecords  ==
    [Loop(<<Edgar, OpenCorporates, CompaniesHouse, Pacer, Licenses, PropertyHints>>)
        EXCEPT !.skips = "all skipped"]

(* modules/search: two engines, one goroutine each; two queries of a topic      *)
(* share its status.                                                            *)
Topics    == <<"paste_sites", "paste_sites", "documents", "classifieds", "classifieds",
               "reputation", "reputation", "court_records", "court_records">>
Queries   == SubSeq(Topics, 1, MaxRequests + 1)
Engine(name, keys) ==
    [Source(name) EXCEPT !.needs = keys, !.fault = "each", !.topics = Queries,
                         !.least = Len(Queries), !.most = Len(Queries)]
GoogleCSE == Engine("google", {"GOOGLE_CSE_API_KEY", "GOOGLE_CSE_CX"})
Bing      == Engine("bing", {"BING_SEARCH_API_KEY"})
Search    == [Fork(<< <<GoogleCSE>>, <<Bing>> >>) EXCEPT !.skips = "no key", !.passive = "skipped"]

(* modules/infrastructure: certificates feed the registrant lookups through a   *)
(* channel of one slot.                                                         *)
CrtSh         == [Silent("crt.sh") EXCEPT !.most = MaxRequests]
Rdap          == [Silent("RDAP/WHOIS") EXCEPT !.after = {"crt.sh"}, !.unmet = "no results",
                                              !.most = MaxRequests]
VirusTotal    == [Silent("VirusTotal") EXCEPT !.needs = {"VIRUSTOTAL_API_KEY"}]
MalwareBazaar == Silent("MalwareBazaar")
Infrastructure == Fork(<< <<CrtSh>>, <<Rdap>>, <<VirusTotal>>, <<MalwareBazaar>> >>)

(* modules/intelligence: the sanctions search tells whether the number was      *)
(* screened; the match with a key and the news feed tell nothing of failures.   *)
SanctionsSearch == Source("sanctions")
SanctionsMatch  == [Silent("sanctions match") EXCEPT !.needs = {"OPENSANCTIONS_API_KEY"}]
AdverseMedia    == [Silent("media") EXCEPT !.most = MaxRequests]
Intelligence    == Fork(<< <<SanctionsSearch, SanctionsMatch>>, <<AdverseMedia>> >>)

(* modules/voip and modules/carrier: enrichment of offline metadata.            *)
IPQualityScore == [Silent("ipqualityscore") EXCEPT !.needs = {"IPQS_API_KEY"}]
NumVerify      == [Silent("numverify") EXCEPT !.needs = {"NUMVERIFY_API_KEY"}]
AbstractAPI    == [Silent("abstractapi") EXCEPT !.needs = {"ABSTRACT_API_KEY"}]
Twilio         == [Silent("twilio") EXCEPT !.needs = {"TWILIO_ACCOUNT_SID", "TWILIO_AUTH_TOKEN"}]
Voip    == [Loop(<<IPQualityScore, AbstractAPI>>) EXCEPT !.passive = "success"]
Carrier == [Loop(<<NumVerify, AbstractAPI, Twilio>>) EXCEPT !.passive = ""]

(* modules/finance: Venmo when opted in, then the batch of registration checks, *)
(* for which a failure is an account not found.                                 *)
Venmo == [Source("Venmo") EXCEPT !.needs = {"PHONEACCESS_FINANCE_VENMO"}, !.unmet = "",
                                 !.fault = "hush"]
BatchServices ==
    LET asked == SelectSeq(<<"PayPal", "CashApp", "Revolut", "Monzo", "Wise", "N26", "Chime",
                             "Robinhood", "Stripe", "Square", "Klarna", "Affirm", "Afterpay",
                             "Gemini", "Nubank", "Flutterwave">>,
                           LAMBDA name : name \in AskedServices)
    IN  [i \in DOMAIN asked |-> [Source(asked[i]) EXCEPT !.fault = "pass"]]
Finance == Loop(<<Venmo>> \o BatchServices)

(* modules/truecaller and social: one lookup, whose failure is the module's.    *)
(* The clients linked for Telegram and WhatsApp answer with an error only; the  *)
(* modules are written for a client that looks up, and modelled with one.       *)
Messenger(src) == [Loop(<<src>>) EXCEPT !.skips = "or fails", !.passive = ""]
Truecaller == Messenger([Source("truecaller") EXCEPT !.needs = {"TRUECALLER_INSTALLATION_ID"},
                                                     !.unmet = "error"])
Telegram   == Messenger([Source("telegram") EXCEPT !.most = 2, !.fault = "retry"])
Signal     == Messenger(Source("signal"))
WhatsApp   == Messenger(Source("whatsapp"))

(* modules/enumerator: the services in turn, all of them but for the bound.     *)
ServiceSource(service) == [Source(service.name) EXCEPT !.blind = service.name \in NeverRegistered]
Enumerator ==
    LET asked == SelectSeq(AllServices, LAMBDA service : service.name \in AskedServices)
    IN  Loop([i \in DOMAIN asked |-> ServiceSource(asked[i])])

LookupModules ==
    {Reverse, Spam, Paste, PublicRecords, Search, Infrastructure, Intelligence, Voip, Carrier,
     Finance, Truecaller, Telegram, Signal, WhatsApp,
     Enumerator}
================================================================================
