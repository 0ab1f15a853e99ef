----------------------------- MODULE LiveUsage ------------------------------
(***************************************************************************)
(* Usage data of one species fetched while a session runs (usage_live.py): *)
(* the index and the detail file of the Showdown statistics of a           *)
(* regulation, and, for spreads only, the battle data of a second site if  *)
(* the first has none (usage_spreads.fetch_live_spreads).  Every fetch is  *)
(* tried up to three times (fetch_json), and what a source has, or has     *)
(* not, is kept in a bounded cache per source.                             *)
(*                                                                         *)
(* The sites do not change while a session runs.  A request may fail in    *)
(* any of the ways CONSTANT Failures lists.                                *)
(***************************************************************************)
EXTENDS Naturals, Sequences, SequencesExt

CONSTANTS
    Species,
    Regulations,    \* regulation tags callers may pass
    Live,           \* those with a live tuple (live_tuple_for)
    Indexed,        \* <<species, regulation>> in the index of the first site
    HasSpreads,     \* those whose detail file has a usable spread
    HasBattles,     \* species the second site knows
    MaxAttempts,    \* _LIVE_FETCH_ATTEMPTS
    CacheMax,       \* _CACHE_MAX
    Failures

LiveAssumption ==
    /\ Live \subseteq Regulations
    /\ Indexed \subseteq Species \X Live
    /\ HasSpreads \subseteq Indexed
    /\ HasBattles \subseteq Species
    /\ MaxAttempts \in Nat \ {0}
    /\ CacheMax \in Nat \ {0}
    /\ Failures \subseteq {"transient", "invalid", "throttled", "torn"}

VARIABLES
    showdown,       \* _SHOWDOWN_CACHE: <<key, record>>, the oldest use first
    cbd,            \* _CBD_CACHE
    stage,          \* the request under way, or "idle"
    lookup,         \* the call: species, regulation and whether for spreads
    attempt,        \* failed attempts of the request
    answer,         \* what the last call returned
    recent_showdown, recent_cbd     \* (history) the keys used last

caches == <<showdown, cbd, recent_showdown, recent_cbd>>
vars == <<caches, stage, lookup, attempt, answer>>

Record == {"spreads", "no spreads", "None"}

\* What the sites have.
ShowdownTruth(key) ==
    IF key \in HasSpreads THEN "spreads"
    ELSE IF key \in Indexed THEN "no spreads" ELSE "None"
CbdTruth(s) == IF s \in HasBattles THEN "spreads" ELSE "None"

-----------------------------------------------------------------------------
(* OrderedDict as a cache.                                                 *)

KeysOf(cache) == {cache[i][1] : i \in DOMAIN cache}
Place(cache, key) == CHOOSE i \in DOMAIN cache : cache[i][1] = key
Cached(cache, key) == cache[Place(cache, key)][2]

Without(cache, key) ==
    IF key \in KeysOf(cache) THEN RemoveAt(cache, Place(cache, key)) ELSE cache
KeyWithout(keys, key) ==
    IF key \in ToSet(keys)
    THEN RemoveAt(keys, CHOOSE i \in DOMAIN keys : keys[i] = key) ELSE keys

\* _cache_get
Hit(cache, key) == Append(Without(cache, key), <<key, Cached(cache, key)>>)

\* _cache_put
Put(cache, key, record) ==
    LET c == Append(Without(cache, key), <<key, record>>)
    IN  IF Len(c) > CacheMax THEN Tail(c) ELSE c

\* The CacheMax keys used last.
Used(keys, key) ==
    LET k == Append(KeyWithout(keys, key), key)
    IN  IF Len(k) > CacheMax THEN Tail(k) ELSE k

-----------------------------------------------------------------------------
(* One lookup.                                                             *)

Key == <<lookup.species, lookup.regulation>>

Return(record) ==
    /\ answer' = record
    /\ stage' = "idle"
    /\ attempt' = 0

Request(s) == stage' = s /\ attempt' = 0 /\ UNCHANGED answer

\* fetch_live_cbd_battle, called by fetch_live_spreads without evidence.
SecondSite(s) ==
    IF s \in KeysOf(cbd)
    THEN /\ cbd' = Hit(cbd, s)
         /\ recent_cbd' = Used(recent_cbd, s)
         /\ Return(Cached(cbd, s))
    ELSE Request("cbd") /\ UNCHANGED <<cbd, recent_cbd>>

\* What the caller does with a record of the first site, None after an error.
Evidence(record, s, for_spreads) ==
    IF for_spreads /\ record # "spreads"
    THEN SecondSite(s)
    ELSE Return(record) /\ UNCHANGED <<cbd, recent_cbd>>

StoreShowdown(key, record) ==
    /\ showdown' = Put(showdown, key, record)
    /\ recent_showdown' = Used(recent_showdown, key)

\* fetch_live_showdown_detail up to its first request.  fetch_live_spreads
\* asks supports_live_usage before it.
Lookup ==
    /\ stage = "idle"
    /\ \E s \in Species, r \in Regulations, for_spreads \in BOOLEAN :
        /\ lookup' = [species |-> s, regulation |-> r, for_spreads |-> for_spreads]
        /\ \/ /\ for_spreads /\ r \notin Live
              /\ Return("None")
              /\ UNCHANGED caches
           \/ /\ ~(for_spreads /\ r \notin Live)
              /\ <<s, r>> \in KeysOf(showdown)
              /\ showdown' = Hit(showdown, <<s, r>>)
              /\ recent_showdown' = Used(recent_showdown, <<s, r>>)
              /\ Evidence(Cached(showdown, <<s, r>>), s, for_spreads)
           \/ /\ ~for_spreads /\ r \notin Live
              /\ <<s, r>> \notin KeysOf(showdown)
              /\ StoreShowdown(<<s, r>>, "None")
              /\ Return("None")
              /\ UNCHANGED <<cbd, recent_cbd>>
           \/ /\ r \in Live
              /\ <<s, r>> \notin KeysOf(showdown)
              /\ Request("index")
              /\ UNCHANGED caches

\* The sites answer: the payload, or HTTP 404 if they do not have the file.
IndexAnswers ==
    /\ stage = "index"
    /\ IF Key \in Indexed
       THEN Request("detail") /\ UNCHANGED <<caches, lookup>>
       ELSE /\ StoreShowdown(Key, "None")
            /\ Evidence("None", lookup.species, lookup.for_spreads)
            /\ UNCHANGED lookup

DetailAnswers ==
    /\ stage = "detail"
    /\ StoreShowdown(Key, ShowdownTruth(Key))
    /\ Evidence(ShowdownTruth(Key), lookup.species, lookup.for_spreads)
    /\ UNCHANGED lookup

CbdAnswers ==
    /\ stage = "cbd"
    /\ cbd' = Put(cbd, lookup.species, CbdTruth(lookup.species))
    /\ recent_cbd' = Used(recent_cbd, lookup.species)
    /\ Return(CbdTruth(lookup.species))
    /\ UNCHANGED <<showdown, recent_showdown, lookup>>

\* except LiveFetchError: the call goes on without a record and caches none.
\* (for mutation) the failure is remembered as a miss
GiveUp_Cached ==
    \/ /\ stage \in {"index", "detail"}
       /\ StoreShowdown(Key, "None")
       /\ Evidence("None", lookup.species, lookup.for_spreads)
       /\ UNCHANGED lookup
    \/ /\ stage = "cbd"
       /\ Return("None")
       /\ UNCHANGED <<caches, lookup>>

GiveUp ==
    \/ /\ stage \in {"index", "detail"}
       /\ Evidence("None", lookup.species, lookup.for_spreads)
       /\ UNCHANGED <<showdown, recent_showdown, lookup>>
    \/ /\ stage = "cbd"
       /\ Return("None")
       /\ UNCHANGED <<caches, lookup>>

\* URLError, TimeoutError, OSError or HTTP 5xx: try again, then LiveFetchError.
Transient ==
    /\ stage # "idle" /\ "transient" \in Failures
    /\ IF attempt + 1 < MaxAttempts
       THEN attempt' = attempt + 1 /\ UNCHANGED <<caches, stage, lookup, answer>>
       ELSE GiveUp

\* A body that is no JSON: LiveFetchError at once.
Invalid ==
    /\ stage # "idle" /\ "invalid" \in Failures
    /\ GiveUp

\* HTTP 429 and every other 4xx: fetch_json returns None.
Throttled ==
    /\ stage # "idle" /\ "throttled" \in Failures
    /\ \/ /\ stage \in {"index", "detail"}
          /\ StoreShowdown(Key, "None")
          /\ Evidence("None", lookup.species, lookup.for_spreads)
       \/ /\ stage = "cbd"
          /\ cbd' = Put(cbd, lookup.species, "None")
          /\ recent_cbd' = Used(recent_cbd, lookup.species)
          /\ Return("None")
          /\ UNCHANGED <<showdown, recent_showdown>>
    /\ UNCHANGED lookup

\* The connection ends inside the body: http.client.IncompleteRead is no
\* OSError, so no handler of fetch_json or of its callers takes it.
Torn ==
    /\ stage # "idle" /\ "torn" \in Failures
    /\ Return("raised")
    /\ UNCHANGED <<caches, lookup>>

\* fetch_live_spreads.cache_clear
Clear ==
    /\ stage = "idle"
    /\ showdown' = <<>> /\ cbd' = <<>>
    /\ recent_showdown' = <<>> /\ recent_cbd' = <<>>
    /\ UNCHANGED <<stage, lookup, attempt, answer>>

Init ==
    /\ showdown = <<>> /\ cbd = <<>>
    /\ recent_showdown = <<>> /\ recent_cbd = <<>>
    /\ stage = "idle"
    /\ lookup \in [species : Species, regulation : Regulations, for_spreads : {FALSE}]
    /\ attempt = 0
    /\ answer = "None"

Fetch ==
    \/ IndexAnswers \/ DetailAnswers \/ CbdAnswers
    \/ Transient \/ Invalid \/ Throttled \/ Torn

Next == Lookup \/ Clear \/ Fetch

\* Every request ends in time: urlopen has a timeout of 30 seconds.
Spec == Init /\ [][Next]_vars /\ WF_vars(Fetch)

-----------------------------------------------------------------------------
(* Properties                                                              *)

\* Type invariant, with the bounds of the caches and of the attempts.
TypeOK ==
    /\ stage \in {"idle", "index", "detail", "cbd"}
    /\ attempt \in 0 .. MaxAttempts - 1
    /\ answer \in Record \cup {"raised"}
    /\ Len(showdown) <= CacheMax /\ Len(cbd) <= CacheMax
    /\ \A i \in DOMAIN showdown :
          showdown[i] \in (Species \X Regulations) \X Record
    /\ \A i \in DOMAIN cbd : cbd[i] \in Species \X Record

\* A cached record is what the site has: a failure that passes is never
\* remembered as a miss for the rest of the session.
CacheIsTruth ==
    /\ \A i \in DOMAIN showdown : showdown[i][2] = ShowdownTruth(showdown[i][1])
    /\ \A i \in DOMAIN cbd : cbd[i][2] = CbdTruth(cbd[i][1])

\* The caches hold the keys used last, so a key in constant use is fetched
\* once, however many others are looked up in between.
RecentlyUsedStay ==
    /\ KeysOf(showdown) = {recent_showdown[i] : i \in DOMAIN recent_showdown}
    /\ KeysOf(cbd) = {recent_cbd[i] : i \in DOMAIN recent_cbd}

\* Spreads come from the regulation that was asked for or, only if it has
\* none or could not be reached, from the second site's current one.
NoForeignSpreads ==
    stage = "idle" /\ answer = "spreads" =>
        \/ Key \in HasSpreads
        \/ lookup.for_spreads /\ lookup.regulation \in Live
           /\ lookup.species \in HasBattles

\* Every lookup returns, with at most MaxAttempts attempts per request.
LookupsEnd == stage # "idle" ~> stage = "idle"

\* LiveFetchError stands for every "transport / malformed-body failure", and
\* the lookups turn it into None: no lookup raises.
LookupsDoNotRaise == answer # "raised"
=============================================================================
