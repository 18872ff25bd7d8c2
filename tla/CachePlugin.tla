---------------------------- MODULE CachePlugin ----------------------------
(***************************************************************************)
(* Plugins/Client/Cache.js, and the part of Client.rpc() in which its two  *)
(* callbacks are called: afterJSONEncode() decides whether the request is  *)
(* sent, afterJSONDecode() stores the result or replaces it by the cached  *)
(* one.  Between the two rpc() awaits other plugins and, on a miss, the    *)
(* network, so the callbacks of overlapping calls interleave, and the      *)
(* cache a call finds in the second is not the one it saw in the first.    *)
(* The calls are those of cached functions, and none is a notification:    *)
(* the callbacks return at once for the others.                            *)
(***************************************************************************)
EXTENDS Naturals, FiniteSets

CONSTANTS
    Calls,              \* invocations of Client.rpc(); also the result each one fetches
    Keys,               \* cache keys: function name and parameters
    nMaxEntries,        \* constructor parameter
    Duration,           \* nFunctionCacheDurationSeconds of every function
    FreezesStored,      \* TRUE: bDeepFreeze without bReturnDeepCopy; FALSE: no bDeepFreeze
    MayRemove,          \* whether the user may call clear() and deleteKeys()
    MaxConcurrent,      \* how many calls the user has going at a time
    MaxTime,            \* bound: the last value of the clock
    NULL, UNDEFINED,    \* the JavaScript values
    NONE                \* no entry, no key, no response yet

ASSUME NumbersOK ==
    /\ nMaxEntries \in Nat \ {0} /\ Duration \in Nat \ {0}
    /\ MaxConcurrent \in Nat /\ MaxTime \in Nat

ASSUME FiniteOK == IsFiniteSet(Calls) /\ IsFiniteSet(Keys)

ASSUME DistinctOK ==
    /\ NONE \notin Keys
    /\ \A x \in {NULL, UNDEFINED, NONE, "error"} : x \notin Calls
    /\ NULL # UNDEFINED /\ {NULL, UNDEFINED} \cap {NONE, "error"} = {} /\ NONE # "error"

VARIABLES
    mapCache,       \* this.mapCache: an entry or NONE for each key
    now,            \* Date.now()
    stage,          \* where each call stands
    key,            \* getCacheKey() of each call
    encodedAt,      \* when afterJSONEncode() looked for the call's key
    response,       \* outgoingRequest.responseObject: a result or "error"
    outcome         \* the value the call resolved with, or "error" if it rejected

vars == <<mapCache, now, stage, key, encodedAt, response, outcome>>

Values == Calls \union {NULL, UNDEFINED}
Entries == [value : Values, expiresAt : Nat]

TypeOK ==
    /\ mapCache \in [Keys -> Entries \union {NONE}]
    /\ now \in Nat
    /\ stage \in [Calls -> {"idle", "requesting", "decoding", "settled"}]
    /\ key \in [Calls -> Keys \union {NONE}]
    /\ encodedAt \in [Calls -> Nat]
    /\ response \in [Calls -> Calls \union {NULL, "error", NONE}]
    /\ outcome \in [Calls -> Values \union {"error", NONE}]
    /\ \A c \in Calls : stage[c] # "idle" => key[c] \in Keys

Init ==
    /\ mapCache = [k \in Keys |-> NONE]
    /\ now = 0
    /\ stage = [c \in Calls |-> "idle"]
    /\ key = [c \in Calls |-> NONE]
    /\ encodedAt = [c \in Calls |-> 0]
    /\ response = [c \in Calls |-> NONE]
    /\ outcome = [c \in Calls |-> NONE]

-----------------------------------------------------------------------------

Has(k) == mapCache[k] # NONE
CachedKeys == {k \in Keys : Has(k)}
Size == Cardinality(CachedKeys)
InFlight == {c \in Calls : stage[c] \in {"requesting", "decoding"}}

Cleared == [k \in Keys |-> NONE]

(* Mutant: any entry there is makes a hit. *)
FreshNever(k) == Has(k)

(* !_isCacheEntryExpired() *)
Fresh(k) == Has(k) /\ now <= mapCache[k].expiresAt

(* Mutant: the limit is looked at only by calls that miss. *)
OverfullOnMissOnly(k) == ~Has(k) /\ Size >= nMaxEntries

(* The condition of afterJSONEncode() under which it clears the cache. *)
Overfull(k) ==
    \/ Has(k) /\ Size > nMaxEntries
    \/ ~Has(k) /\ Size >= nMaxEntries

(* Mutant: the response made up for a hit has no result. *)
MakeUpResponseEmpty(c) == response' = [response EXCEPT ![c] = UNDEFINED]

(* The response of a hit, with a null result. *)
MakeUpResponse(c) == response' = [response EXCEPT ![c] = NULL]

(* afterJSONEncode() for a call with key k.  On a hit makeRequest() is not *)
(* called.                                                                 *)
Encode(c, k) ==
    /\ stage[c] = "idle"
    /\ Cardinality(InFlight) < MaxConcurrent
    /\ key' = [key EXCEPT ![c] = k]
    /\ encodedAt' = [encodedAt EXCEPT ![c] = now]
    /\ \/ /\ Overfull(k)
          /\ mapCache' = Cleared
          /\ stage' = [stage EXCEPT ![c] = "requesting"]
          /\ UNCHANGED response
       \/ /\ ~Overfull(k) /\ ~Fresh(k)
          /\ mapCache' = [mapCache EXCEPT ![k] = NONE]
          /\ stage' = [stage EXCEPT ![c] = "requesting"]
          /\ UNCHANGED response
       \/ /\ ~Overfull(k) /\ Fresh(k)
          /\ MakeUpResponse(c)
          /\ stage' = [stage EXCEPT ![c] = "decoding"]
          /\ UNCHANGED mapCache
    /\ UNCHANGED <<now, outcome>>

(* makeRequest() or fetch(): the server's result or error. *)
Respond(c) ==
    /\ stage[c] = "requesting"
    /\ stage' = [stage EXCEPT ![c] = "decoding"]
    /\ \E r \in {c, "error"} : response' = [response EXCEPT ![c] = r]
    /\ UNCHANGED <<mapCache, now, key, encodedAt, outcome>>

(* makeRequest() or fetch() throws: the decode callbacks are not called. *)
FailRequest(c) ==
    /\ stage[c] = "requesting"
    /\ stage' = [stage EXCEPT ![c] = "settled"]
    /\ outcome' = [outcome EXCEPT ![c] = "error"]
    /\ UNCHANGED <<mapCache, now, key, encodedAt, response>>

Settle(c, value) ==
    /\ stage' = [stage EXCEPT ![c] = "settled"]
    /\ outcome' = [outcome EXCEPT ![c] = value]
    /\ UNCHANGED <<now, key, encodedAt, response>>

Store(c, value) ==
    mapCache' = [mapCache EXCEPT ![key[c]] = [value |-> value, expiresAt |-> now + Duration]]

(* afterJSONDecode() with the key in the cache: the cached value replaces  *)
(* the result.  An error stays one.                                        *)
DecodeCached(c) ==
    /\ stage[c] = "decoding" /\ Has(key[c])
    /\ Settle(c, IF response[c] = "error" THEN "error" ELSE mapCache[key[c]].value)
    /\ UNCHANGED mapCache

(* Mutant: the null made up for a hit is stored in every mode. *)
DecodeUncachedStoresNull(c) ==
    /\ stage[c] = "decoding" /\ ~Has(key[c])
    /\ IF response[c] = "error"
         THEN Settle(c, "error") /\ UNCHANGED mapCache
         ELSE Settle(c, response[c]) /\ Store(c, response[c])

(* afterJSONDecode() with the key not in the cache: the result is stored,  *)
(* also that of a call whose hit has gone.  What an error response has as  *)
(* its result is undefined: it is stored when the stored object is frozen; *)
(* otherwise _deepCopy() throws on it, as _deepFreeze() does on null.      *)
DecodeUncached(c) ==
    /\ stage[c] = "decoding" /\ ~Has(key[c])
    /\ \/ response[c] \in Calls /\ Settle(c, response[c]) /\ Store(c, response[c])
       \/ response[c] = NULL /\ ~FreezesStored /\ Settle(c, NULL) /\ Store(c, NULL)
       \/ response[c] = "error" /\ FreezesStored /\ Settle(c, "error") /\ Store(c, UNDEFINED)
       \/ /\ response[c] = IF FreezesStored THEN NULL ELSE "error"
          /\ Settle(c, "error")
          /\ UNCHANGED mapCache

(* clear(), dispose() *)
Clear ==
    /\ MayRemove
    /\ mapCache' = Cleared
    /\ UNCHANGED <<now, stage, key, encodedAt, response, outcome>>

(* deleteKeys([k]) *)
DeleteKey(k) ==
    /\ MayRemove
    /\ mapCache' = [mapCache EXCEPT ![k] = NONE]
    /\ UNCHANGED <<now, stage, key, encodedAt, response, outcome>>

(* Bound: MaxTime. *)
Tick ==
    /\ now < MaxTime
    /\ now' = now + 1
    /\ UNCHANGED <<mapCache, stage, key, encodedAt, response, outcome>>

Next ==
    \/ \E c \in Calls :
         \/ \E k \in Keys : Encode(c, k)
         \/ Respond(c)
         \/ FailRequest(c)
         \/ DecodeCached(c)
         \/ DecodeUncached(c)
    \/ \E k \in Keys : DeleteKey(k)
    \/ Clear
    \/ Tick

Spec == Init /\ [][Next]_vars

-----------------------------------------------------------------------------

(* An entry a call finds in afterJSONDecode() had not expired when the     *)
(* call was made, though afterJSONDecode() does not look at expiresAt and  *)
(* the entry may be another than the one afterJSONEncode() saw.            *)
NotExpiredBeforeCall ==
    \A c \in InFlight : Has(key[c]) => mapCache[key[c]].expiresAt >= encodedAt[c]

(* The cache outgrows nMaxEntries by no more than the calls under way: the *)
(* limit is looked at in afterJSONEncode() and the entry is added in       *)
(* afterJSONDecode(), after an await, without a second look.               *)
OvershootBounded == Size + Cardinality(InFlight) <= nMaxEntries + MaxConcurrent

(* responseObject.result *)
Result(r) == IF r = "error" THEN UNDEFINED ELSE r

(* The value is the result of a response to a call with key k.  The        *)
(* undefined one of an error counts only where the stored object is        *)
(* frozen, the null made up for a hit only where it is not.                *)
IsResultFor(k, value) ==
    /\ \E c \in Calls : key[c] = k /\ response[c] # NONE /\ value = Result(response[c])
    /\ value = UNDEFINED => FreezesStored
    /\ value = NULL => ~FreezesStored

(* A call resolves only with the result of a call with its own key, through *)
(* however many entries it went: stored, cleared, stored again by a call   *)
(* whose hit had gone.                                                     *)
Genuine ==
    \A c \in Calls : outcome[c] \notin {"error", NONE} => IsResultFor(key[c], outcome[c])

(* "It will be populated from the cache during the afterJSONDecode step"   *)
(* (Cache.js:58): a call that skipped its request does not resolve with    *)
(* the null made up for it.                                                *)
HitIsPopulated == \A c \in Calls : outcome[c] # NULL

=============================================================================
