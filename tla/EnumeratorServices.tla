--------------------------- MODULE EnumeratorServices ---------------------------
(* The services the enumerator asks, in the order it asks them                  *)
(* (modules/enumerator/enumerator.go, allServices).  A service is a name and    *)
(* the category its hit counts for; which words of an answer make it a hit is   *)
(* left open, but for the services whose check can say nothing but no.          *)
(* Three names occur twice, at two addresses: Weibo, Line and Rakuten.          *)
EXTENDS Sequences

On(category, names) == [i \in DOMAIN names |-> [name |-> names[i], category |-> category]]

\* Services whose RespCheck is the constant answer "not registered".
NeverRegistered == {"Telegram", "Skype", "eBay", "Xbox Live", "Spotify", "YouTube", "USPS"}

SocialMedia ==
    On("social", <<"Instagram", "Snapchat", "TikTok", "Twitter/X", "Pinterest", "Tumblr",
        "Reddit", "Quora", "Flickr", "VK", "Odnoklassniki", "Weibo", "Douyin">>)

Messaging ==
    On("messaging", <<"Telegram", "WhatsApp", "Signal", "Viber", "Line", "KakaoTalk", "WeChat",
        "Discord", "Skype", "Threema", "Wire">>)

FinanceBanking ==
    On("finance", <<"Venmo", "PayPal", "CashApp", "Revolut", "Monzo", "Wise", "N26", "Chime",
        "Current", "Robinhood">>) \o On("crypto", <<"Coinbase", "Binance", "Kraken",
        "Blockchain.com", "Crypto.com">>) \o On("finance", <<"Stripe", "Square">>)

ECommerce ==
    On("ecommerce", <<"Amazon", "eBay", "Shopify", "Etsy", "Alibaba", "AliExpress", "Walmart",
        "Target", "BestBuy", "Wayfair", "ASOS", "Zara", "Zalando", "JD.com">>)

TravelRideSharing ==
    On("travel", <<"Uber", "Lyft", "Bolt", "Didi", "Grab", "Airbnb", "Booking.com", "Expedia",
        "TripAdvisor", "Kayak", "Skyscanner">>)

FoodDelivery ==
    On("food", <<"DoorDash", "UberEats", "Grubhub", "Deliveroo", "Postmates", "JustEat",
        "Zomato", "Swiggy", "Instacart">>)

Dating ==
    On("dating", <<"Tinder", "Bumble", "Hinge", "OkCupid", "Match.com", "PlentyOfFish", "Badoo",
        "Grindr", "Happn", "HER", "Hily">>)

ProfessionalWork ==
    On("work", <<"LinkedIn", "GitHub", "GitLab", "Upwork", "Fiverr", "Freelancer", "Toptal",
        "Indeed", "Glassdoor", "ZipRecruiter", "AngelList", "StackOverflow">>)

Gaming ==
    On("gaming", <<"Steam", "Epic Games", "PlayStation Network", "Xbox Live", "Nintendo",
        "Riot Games", "Blizzard", "Ubisoft", "Roblox", "Minecraft">>)

CryptoWeb3 ==
    On("crypto", <<"MetaMask", "TrustWallet", "Gemini", "Kucoin", "Bitfinex", "Bitstamp", "FTX",
        "OKX", "Bybit", "Paxful", "LocalBitcoins">>)

UtilityTelecom ==
    On("utility", <<"Google Voice", "Twilio", "Burner", "TextNow", "Hushed", "Talkatone",
        "Dingtone", "2ndLine", "VirtualSIM", "MySudo", "Phoner">>)

MediaEntertainment ==
    On("social", <<"Spotify", "Netflix", "Hulu", "Disney+", "HBO Max", "YouTube", "Twitch",
        "SoundCloud", "Deezer", "Tidal", "Pandora", "Bandsintown">>)

FitnessHealth ==
    On("social", <<"Strava", "MyFitnessPal", "Fitbit", "Peloton", "Nike Run Club">>)

Education ==
    On("social", <<"Duolingo">>) \o On("work", <<"Coursera", "Udemy", "Khan Academy", "edX">>)

CloudProductivity ==
    On("work", <<"Dropbox", "Box", "OneDrive", "Mega", "Trello", "Asana", "Notion", "Slack",
        "Zoom", "Microsoft Teams">>)

GovernmentPublicServices ==
    On("government", <<"USPS", "IRS", "SSA", "DMV Online", "Healthcare.gov">>)

HomeRealEstate ==
    On("social", <<"Zillow", "Realtor.com", "Trulia", "Redfin", "Apartments.com", "Craigslist">>)

Automotive ==
    On("ecommerce", <<"CarMax", "Carvana", "AutoTrader">>)

Insurance ==
    On("finance", <<"Geico", "Progressive", "StateFarm", "Allstate", "LibertyMutual">>)

TelecomCarriers ==
    On("utility", <<"Verizon", "AT&T", "T-Mobile", "Sprint", "Mint Mobile", "Visible">>)

RetailLoyalty ==
    On("ecommerce", <<"Costco", "Walgreens", "CVS", "Kroger", "Safeway", "Whole Foods",
        "Home Depot", "Lowe's", "IKEA", "Nike", "Adidas", "Sephora", "Ulta", "Groupon",
        "LivingSocial", "Rakuten", "Honey">>) \o On("social", <<"Yelp", "Foursquare", "Nextdoor",
        "Meetup", "Eventbrite", "Ticketmaster", "StubHub", "SeatGeek">>)

NewsMedia ==
    On("social", <<"Medium", "Substack", "Patreon", "OnlyFans", "BuyMeACoffee", "Ko-fi">>)

AsianServices ==
    On("social", <<"Weibo">>) \o On("messaging", <<"QQ">>) \o On("social", <<"Baidu">>)
        \o On("ecommerce", <<"Taobao">>) \o On("social", <<"Xiaohongshu", "Zhihu", "Bilibili">>)
        \o On("messaging", <<"Line">>) \o On("social", <<"Naver", "Daum">>)
        \o On("ecommerce", <<"Rakuten", "Flipkart">>) \o On("finance", <<"Paytm", "PhonePe">>)
        \o On("travel", <<"Ola", "Oyo", "MakeMyTrip", "Goibibo">>)

EuropeanServices ==
    On("utility", <<"Vodafone", "Orange", "Deutsche Telekom", "Telefonica">>)
        \o On("ecommerce", <<"Vivino">>) \o On("finance", <<"Klarna", "Afterpay", "Affirm">>)

MiddleEastServices ==
    On("travel", <<"Careem">>) \o On("ecommerce", <<"Noon">>) \o On("food", <<"Talabat">>)

LatinAmericanServices ==
    On("ecommerce", <<"MercadoLibre">>) \o On("food", <<"Rappi", "PedidosYa", "iFood">>)
        \o On("finance", <<"Nubank", "PicPay">>) \o On("travel", <<"99", "Cabify">>)
        \o On("food", <<"Cornershop">>)

AfricanServices ==
    On("ecommerce", <<"Jumia", "Konga">>) \o On("finance", <<"Flutterwave", "Paystack", "Opay",
        "PalmPay">>) \o On("food", <<"Bolt Food">>)

AdditionalGlobalServices ==
    On("ecommerce", <<"Temu", "Shein", "Wish", "Shopee", "Lazada", "Coupang", "Vinted", "Depop",
        "Poshmark", "OfferUp", "Mercari">>) \o On("social", <<"GoFundMe", "Kickstarter",
        "Indiegogo">>)

AllServices ==
    SocialMedia \o Messaging \o FinanceBanking \o ECommerce \o TravelRideSharing \o FoodDelivery
        \o Dating \o ProfessionalWork \o Gaming \o CryptoWeb3 \o UtilityTelecom
        \o MediaEntertainment \o FitnessHealth \o Education \o CloudProductivity
        \o GovernmentPublicServices \o HomeRealEstate \o Automotive \o Insurance
        \o TelecomCarriers \o RetailLoyalty \o NewsMedia \o AsianServices \o EuropeanServices
        \o MiddleEastServices \o LatinAmericanServices \o AfricanServices
        \o AdditionalGlobalServices
================================================================================
