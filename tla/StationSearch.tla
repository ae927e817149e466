---------------------------- MODULE StationSearch ----------------------------
(***************************************************************************)
(* The public search for stations and its cache in Redis                   *)
(* (stations/cache.py, stations/routes.py), beside the edits of            *)
(* StationEdits.  All searches here ask the same question: keys of others  *)
(* differ by a digest and do not meet.                                     *)
(*                                                                         *)
(* An edition says which version of each row an answer is made from.  A    *)
(* station or point that an answer leaves out, because it is closed, is    *)
(* left out according to some version of its row as well.                  *)
(***************************************************************************)
EXTENDS StationEdits, FiniteSets

CONSTANTS
    Searches,   \* requests under way at once; each serves one search after another
    NoKey       \* stands for cache_key = None

ASSUME KeyAssumption == NoKey \notin Nat

VARIABLES
    cacheVersion,   \* chargemate:stations:search:version in Redis
    entries,        \* the cached answers
    restarted,      \* whether Redis has lost its memory
    step,           \* how far a search has come
    key,            \* the version in its cache key
    found,          \* the edition of what it has read so far
    published,      \* history: the edition that the last invalidation announced
    floor           \* history: what had been announced when a search began

cacheVars == <<cacheVersion, entries, restarted, published>>
searchVars == <<step, key, found, floor>>
vars == <<stationVars, editVars, cacheVars, searchVars>>

Edition == [Rows -> Nat]
NotOlder(a, b) == \A x \in Rows : b[x] <= a[x]

TypeOK ==
    /\ EditsTypeOK
    /\ cacheVersion \in Nat
    /\ entries \subseteq [version : Nat, edition : Edition]
    /\ restarted \in BOOLEAN
    /\ step \in [Searches -> {"idle", "keyed", "missed", "stations_read", "loaded", "answered"}]
    /\ key \in [Searches -> Nat \union {NoKey}]
    /\ found \in [Searches -> Edition]
    /\ published \in Edition
    /\ floor \in [Searches -> Edition]

Init ==
    /\ EditsInit
    /\ cacheVersion = 0
    /\ entries = {}
    /\ restarted = FALSE
    /\ step = [r \in Searches |-> "idle"]
    /\ key = [r \in Searches |-> NoKey]
    /\ found = [r \in Searches |-> rowVersion]
    /\ published = rowVersion
    /\ floor = [r \in Searches |-> rowVersion]

Proceed(r, from, to) ==
    /\ step[r] = from
    /\ step' = [step EXCEPT ![r] = to]

-----------------------------------------------------------------------------
(* After an edit: invalidate_station_searches.  A failure is only logged,  *)
(* and an operator's request that dies here never gets to it.              *)

Finish(q) ==
    /\ phase[q] = "committed"
    /\ Reach(q, "done")
    /\ UNCHANGED <<stationVars, rowVersion, charging, lockedBy, form, searchVars, restarted, entries>>

Invalidate(q) ==
    /\ Finish(q)
    /\ cacheVersion' = cacheVersion + 1
    /\ published' = rowVersion

InvalidationFails(q) ==
    /\ Finish(q)
    /\ UNCHANGED <<cacheVersion, published>>

-----------------------------------------------------------------------------
(* A search: list_charging_stations.                                       *)

\* get_cached_station_search reads the version that its key will carry ...
ReadVersion(r) ==
    /\ step[r] \in {"idle", "answered"}
    /\ step' = [step EXCEPT ![r] = "keyed"]
    /\ key' = [key EXCEPT ![r] = cacheVersion]
    /\ floor' = [floor EXCEPT ![r] = published]
    /\ UNCHANGED <<stationVars, editVars, cacheVars, found>>

\* ... then the entry, which is the answer if there is one.
Hit(r) ==
    /\ Proceed(r, "keyed", "answered")
    /\ \E e \in entries : e.version = key[r] /\ found' = [found EXCEPT ![r] = e.edition]
    /\ key' = [key EXCEPT ![r] = NoKey]
    /\ UNCHANGED <<stationVars, editVars, cacheVars, floor>>

Miss(r) ==
    /\ Proceed(r, "keyed", "missed")
    /\ \A e \in entries : e.version # key[r]
    /\ UNCHANGED <<stationVars, editVars, cacheVars, key, found, floor>>

\* A search that Redis fails is answered from the database and not stored.
ReadFails(r) ==
    /\ Proceed(r, "keyed", "missed")
    /\ key' = [key EXCEPT ![r] = NoKey]
    /\ UNCHANGED <<stationVars, editVars, cacheVars, found, floor>>

ReadRows(r, rows) ==
    /\ found' = [found EXCEPT ![r] = [x \in Rows |-> IF x \in rows THEN rowVersion[x] ELSE @[x]]]
    /\ UNCHANGED <<stationVars, editVars, cacheVars, key, floor>>

\* find_public_stations: stations, and by a second statement their points.
QueryStations(r) == Proceed(r, "missed", "stations_read") /\ ReadRows(r, Sites)
LoadPoints(r) == Proceed(r, "stations_read", "loaded") /\ ReadRows(r, Points)

\* Fault: an answer without a key is stored as well.
StoresAlways(r) == TRUE

HasKey(r) == key[r] # NoKey

\* Fault: the answer is stored under the version there is by then.
KeyWhenStored(r) == cacheVersion

\* store_station_search: under the version read before the rows were.
StorageKey(r) == key[r]

Store(r) ==
    /\ Proceed(r, "loaded", "answered")
    /\ HasKey(r)
    /\ key' = [key EXCEPT ![r] = NoKey]
    /\ entries' = {e \in entries : e.version # StorageKey(r)}
                    \union {[version |-> StorageKey(r), edition |-> found[r]]}
    /\ UNCHANGED <<stationVars, editVars, found, floor, cacheVersion, restarted, published>>

\* There is no key, or Redis fails.
StoreFails(r) ==
    /\ Proceed(r, "loaded", "answered")
    /\ key' = [key EXCEPT ![r] = NoKey]
    /\ UNCHANGED <<stationVars, editVars, cacheVars, found, floor>>

-----------------------------------------------------------------------------
(* Redis.                                                                  *)

\* Fault: entries live until their version is superseded.
ExpireSuperseded(e) ==
    /\ e \in entries
    /\ e.version # cacheVersion
    /\ entries' = entries \ {e}
    /\ UNCHANGED <<stationVars, editVars, searchVars, cacheVersion, restarted, published>>

\* The lifetime that setex gave an entry is over.
Expire(e) ==
    /\ e \in entries
    /\ entries' = entries \ {e}
    /\ UNCHANGED <<stationVars, editVars, searchVars, cacheVersion, restarted, published>>

\* Redis restarts with nothing: versions are counted, and keys used, once more.
RestartRedis ==
    /\ ~ restarted
    /\ restarted' = TRUE
    /\ cacheVersion' = 0
    /\ entries' = {}
    /\ UNCHANGED <<stationVars, editVars, searchVars, published>>

-----------------------------------------------------------------------------

SearchStep(r) ==
    \/ ReadVersion(r) \/ Hit(r) \/ Miss(r) \/ ReadFails(r)
    \/ QueryStations(r) \/ LoadPoints(r) \/ Store(r) \/ StoreFails(r)

Next ==
    \/ EditStep /\ UNCHANGED <<cacheVars, searchVars>>
    \/ \E q \in Edits : Invalidate(q) \/ InvalidationFails(q)
    \/ \E r \in Searches : SearchStep(r)
    \/ \E e \in entries : Expire(e)
    \/ RestartRedis

Spec == Init /\ [][Next]_vars

\* Redis removes what has expired, whatever its version.
FairSpec ==
    /\ Spec
    /\ \A n \in 0 .. Cardinality(Edits) :
         WF_vars(\E e \in entries : e.version = n /\ Expire(e))

-----------------------------------------------------------------------------

\* What has been announced is seen: a search that begins after an edit was
\* committed and its invalidation succeeded is not answered with older rows,
\* cached or not, as long as Redis keeps its memory.
\* (invalidate_station_searches against get_cached_station_search)
SearchesSeePublishedEdits ==
    \A r \in Searches :
        step[r] = "answered" /\ ~ restarted => NotOlder(found[r], floor[r])

\* After a failed invalidation, or a restart that makes old keys current again,
\* no outdated answer stays for good: once edits end, so do they.
\* (DEFAULT_CACHE_TTL_SECONDS)
OutdatedAnswersVanish == <>[](\A e \in entries : e.edition = rowVersion)

=============================================================================
