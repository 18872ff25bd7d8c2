------------------------- MODULE CachePlugin_proofs -------------------------
(***************************************************************************)
(* Proofs about CachePlugin, for any calls, keys, limits and durations.    *)
(***************************************************************************)
EXTENDS CachePlugin, FiniteSetTheorems, TLAPS

(* Every step of the cache preserves the types. *)
LEMMA TypeStep == TypeOK /\ [Next]_vars => TypeOK'
<1> SUFFICES ASSUME TypeOK, [Next]_vars PROVE TypeOK'
  OBVIOUS
<1> USE NumbersOK, DistinctOK
<1>1. ASSUME NEW c \in Calls, NEW k \in Keys, Encode(c, k) PROVE TypeOK'
  BY <1>1 DEF TypeOK, Encode, MakeUpResponse, Cleared
<1>2. ASSUME NEW c \in Calls, Respond(c) \/ FailRequest(c) PROVE TypeOK'
  BY <1>2 DEF TypeOK, Respond, FailRequest
<1>3. ASSUME NEW c \in Calls, DecodeCached(c) PROVE TypeOK'
  <2>1. key[c] \in Keys
    BY <1>3 DEF TypeOK, DecodeCached
  <2>2. mapCache[key[c]].value \in Values
    BY <1>3, <2>1 DEF TypeOK, DecodeCached, Has, Entries
  <2> QED BY <1>3, <2>2 DEF TypeOK, DecodeCached, Settle
<1>4. ASSUME NEW c \in Calls, DecodeUncached(c) PROVE TypeOK'
  <2>1. key[c] \in Keys /\ now + Duration \in Nat
    BY <1>4 DEF TypeOK, DecodeUncached
  <2>2. PICK value \in Values \union {"error"} :
          Settle(c, value)
    BY <1>4 DEF DecodeUncached, Values
  <2>3. mapCache' \in [Keys -> Entries \union {NONE}]
    <3>1. CASE UNCHANGED mapCache
      BY <3>1 DEF TypeOK
    <3>2. ASSUME NEW v \in Values, Store(c, v)
          PROVE  mapCache' \in [Keys -> Entries \union {NONE}]
      BY <2>1, <3>2 DEF TypeOK, Store, Entries
    <3>3. \/ UNCHANGED mapCache
          \/ \E v \in Values : Store(c, v)
      BY <1>4 DEF DecodeUncached, Values
    <3> QED BY <3>1, <3>2, <3>3
  <2> QED BY <2>1, <2>2, <2>3 DEF TypeOK, Settle
<1>5. ASSUME NEW k \in Keys, DeleteKey(k) PROVE TypeOK'
  BY <1>5 DEF TypeOK, DeleteKey
<1>6. CASE Clear
  BY <1>6 DEF TypeOK, Clear, Cleared
<1>7. CASE Tick
  BY <1>7 DEF TypeOK, Tick
<1>8. CASE UNCHANGED vars
  BY <1>8 DEF TypeOK, vars
<1> QED BY <1>1, <1>2, <1>3, <1>4, <1>5, <1>6, <1>7, <1>8 DEF Next

(* The cache, the clock and the calls keep their types. *)
THEOREM TypeCorrect == Spec => []TypeOK
<1>1. Init => TypeOK
  BY NumbersOK DEF Init, TypeOK
<1> QED BY <1>1, TypeStep, PTL DEF Spec

-----------------------------------------------------------------------------
(* No call looked for its key in the future: with that, an entry stored    *)
(* now outlives the moment any call under way was made.                    *)
EncodedInPast == \A c \in Calls : encodedAt[c] <= now

AgeInv == EncodedInPast /\ NotExpiredBeforeCall

(* afterJSONDecode() may give a call an entry stored by another one, after *)
(* an expiry nobody noticed; that entry was still good when the call was   *)
(* made.                                                                   *)
THEOREM EntriesOutliveCalls == Spec => []NotExpiredBeforeCall
<1>1. Init => AgeInv
  BY DEF Init, AgeInv, EncodedInPast, NotExpiredBeforeCall, InFlight
<1>2. TypeOK /\ TypeOK' /\ AgeInv /\ [Next]_vars => AgeInv'
  <2> SUFFICES ASSUME TypeOK, TypeOK', AgeInv, [Next]_vars PROVE AgeInv'
    OBVIOUS
  <2> USE NumbersOK, DistinctOK DEF AgeInv, EncodedInPast, NotExpiredBeforeCall, InFlight, Has
  <2>1. ASSUME NEW c \in Calls, NEW k \in Keys, Encode(c, k) PROVE AgeInv'
    <3>1. \A x \in Keys : mapCache'[x] # NONE => mapCache'[x] = mapCache[x]
      BY <2>1 DEF Encode, Cleared, TypeOK
    <3>2. stage'[c] = "decoding" => mapCache[k].expiresAt >= now
      BY <2>1 DEF Encode, Fresh, TypeOK, Entries
    <3>3. mapCache'[k] # NONE => mapCache'[k].expiresAt >= now
      BY <2>1, <3>1, <3>2 DEF Encode, Cleared, TypeOK
    <3>4. key'[c] = k /\ encodedAt'[c] = now /\ now' = now
      BY <2>1 DEF Encode, TypeOK
    <3>5. \A d \in Calls \ {c} : /\ key'[d] = key[d] /\ encodedAt'[d] = encodedAt[d]
                                 /\ stage'[d] = stage[d]
      BY <2>1 DEF Encode, TypeOK
    <3>6. \A d \in Calls : encodedAt'[d] <= now'
      BY <3>4, <3>5 DEF TypeOK
    <3>7. ASSUME NEW d \in InFlight', mapCache'[key'[d]] # NONE
          PROVE  mapCache'[key'[d]].expiresAt >= encodedAt'[d]
      <4>1. CASE d = c
        BY <3>3, <3>4, <3>7, <4>1
      <4>2. CASE d # c
        <5>1. d \in Calls \ {c} /\ d \in InFlight /\ key[d] \in Keys
          BY <3>5, <3>7, <4>2 DEF TypeOK
        <5> QED BY <3>1, <3>5, <3>7, <5>1
      <4> QED BY <4>1, <4>2
    <3> QED BY <3>6, <3>7
  <2>2. ASSUME NEW c \in Calls, Respond(c) \/ FailRequest(c) \/ DecodeCached(c)
        PROVE  AgeInv'
    BY <2>2 DEF Respond, FailRequest, DecodeCached, Settle, TypeOK
  <2>3. ASSUME NEW c \in Calls, NEW value, Settle(c, value), UNCHANGED mapCache
        PROVE  AgeInv'
    BY <2>3 DEF Settle, TypeOK
  <2>4. ASSUME NEW c \in Calls, NEW v, NEW value, Settle(c, v), Store(c, value)
        PROVE  AgeInv'
    <3>1. \A k \in Keys : mapCache'[k] = mapCache[k]
                          \/ mapCache'[k].expiresAt = now + Duration
      BY <2>4 DEF Store, TypeOK
    <3>2. \A d \in Calls : now + Duration >= encodedAt[d]
      BY DEF TypeOK
    <3>3. \A d \in InFlight' : d \in InFlight /\ key[d] \in Keys
      BY <2>4 DEF Settle, TypeOK
    <3> QED BY <2>4, <3>1, <3>2, <3>3 DEF Settle
  <2>5. ASSUME NEW c \in Calls, DecodeUncached(c) PROVE AgeInv'
    BY <2>3, <2>4, <2>5 DEF DecodeUncached
  <2>6. ASSUME NEW k \in Keys, DeleteKey(k) PROVE AgeInv'
    BY <2>6 DEF DeleteKey, TypeOK
  <2>7. CASE Clear
    BY <2>7 DEF Clear, Cleared, TypeOK
  <2>8. CASE Tick
    BY <2>8 DEF Tick, TypeOK
  <2>9. CASE UNCHANGED vars
    BY <2>9 DEF vars
  <2> QED BY <2>1, <2>2, <2>5, <2>6, <2>7, <2>8, <2>9 DEF Next
<1> QED BY <1>1, <1>2, TypeCorrect, PTL DEF Spec, AgeInv

-----------------------------------------------------------------------------
(* The sizes are numbers, and grow by at most one per added element. *)
LEMMA SizesAreNumbers ==
    ASSUME TypeOK
    PROVE  /\ IsFiniteSet(CachedKeys) /\ Size \in Nat
           /\ IsFiniteSet(InFlight) /\ Cardinality(InFlight) \in Nat
<1>1. CachedKeys \in SUBSET Keys /\ InFlight \in SUBSET Calls
  BY DEF CachedKeys, InFlight
<1>2. IsFiniteSet(CachedKeys) /\ IsFiniteSet(InFlight)
  BY <1>1, FiniteOK, FS_Subset
<1> QED BY <1>2, FS_CardinalityType DEF Size

(* A step that adds nothing to the cache and ends, or begins, no call.     *)
LEMMA ShrinkKeepsBound ==
    ASSUME TypeOK, TypeOK', OvershootBounded, UNCHANGED stage,
           \A k \in Keys : mapCache'[k] # NONE => mapCache[k] # NONE
    PROVE  OvershootBounded'
<1>1. CachedKeys' \in SUBSET CachedKeys /\ InFlight' = InFlight
  BY DEF CachedKeys, Has, InFlight
<1>2. Size' <= Size
  BY <1>1, SizesAreNumbers, FS_Subset DEF Size
<1>3. Size' \in Nat
  <2>1. IsFiniteSet(CachedKeys')
    BY <1>1, SizesAreNumbers, FS_Subset
  <2> QED BY <2>1, FS_CardinalityType DEF Size
<1> QED BY <1>1, <1>2, <1>3, SizesAreNumbers, NumbersOK DEF OvershootBounded

(* afterJSONEncode() leaves at most nMaxEntries entries behind. *)
LEMMA EncodeKeepsBound ==
    ASSUME TypeOK, TypeOK', NEW c \in Calls, NEW k \in Keys, Encode(c, k)
    PROVE  OvershootBounded'
<1>1. InFlight' = InFlight \union {c} /\ c \notin InFlight
  BY DEF Encode, InFlight, TypeOK
<1>2. Cardinality(InFlight') <= MaxConcurrent /\ Cardinality(InFlight') \in Nat
  <2>1. IsFiniteSet(InFlight) /\ Cardinality(InFlight) \in Nat
    BY SizesAreNumbers
  <2>2. Cardinality(InFlight') = Cardinality(InFlight) + 1
    BY <1>1, <2>1, FS_AddElement
  <2>3. Cardinality(InFlight) < MaxConcurrent
    BY DEF Encode
  <2> QED BY <2>1, <2>2, <2>3, NumbersOK
<1>3. CASE Overfull(k) /\ mapCache' = Cleared
  <2>1. CachedKeys' = {}
    BY <1>3 DEF CachedKeys, Has, Cleared
  <2>2. Size' = 0
    BY <2>1, FS_EmptySet DEF Size
  <2> QED BY <1>2, <2>2, NumbersOK DEF OvershootBounded
<1>4. CASE ~Overfull(k) /\ CachedKeys' \in SUBSET CachedKeys
  <2>1. Size <= nMaxEntries
    BY <1>4, SizesAreNumbers, NumbersOK DEF Overfull
  <2>2. Size' <= Size /\ Size' \in Nat
    <3>1. IsFiniteSet(CachedKeys') /\ Cardinality(CachedKeys') <= Cardinality(CachedKeys)
      BY <1>4, SizesAreNumbers, FS_Subset
    <3> QED BY <3>1, FS_CardinalityType DEF Size
  <2> QED BY <1>2, <2>1, <2>2, SizesAreNumbers, NumbersOK DEF OvershootBounded
<1>5. ~Overfull(k) => CachedKeys' \in SUBSET CachedKeys
  BY DistinctOK DEF Encode, CachedKeys, Has, TypeOK
<1> QED BY <1>3, <1>4, <1>5 DEF Encode

(* The end of a call frees the place its entry takes. *)
LEMMA SettleKeepsBound ==
    ASSUME TypeOK, TypeOK', OvershootBounded, NEW c \in InFlight,
           stage' = [stage EXCEPT ![c] = "settled"],
           NEW k, CachedKeys' \in SUBSET (CachedKeys \union {k})
    PROVE  OvershootBounded'
<1>1. InFlight' = InFlight \ {c}
  BY DEF InFlight, TypeOK
<1>2. Cardinality(InFlight') = Cardinality(InFlight) - 1
  BY <1>1, SizesAreNumbers, FS_RemoveElement
<1>3. IsFiniteSet(CachedKeys \union {k}) /\ Cardinality(CachedKeys \union {k}) <= Size + 1
  <2>1. IsFiniteSet(CachedKeys) /\ Size \in Nat
    BY SizesAreNumbers
  <2>2. IsFiniteSet(CachedKeys \union {k})
    BY <2>1, FS_AddElement
  <2>3. Cardinality(CachedKeys \union {k}) \in {Size, Size + 1}
    BY <2>1, FS_AddElement DEF Size
  <2> QED BY <2>1, <2>2, <2>3
<1>4. IsFiniteSet(CachedKeys') /\ Size' <= Cardinality(CachedKeys \union {k})
  BY <1>3, FS_Subset DEF Size
<1>5. Size' \in Nat /\ Cardinality(CachedKeys \union {k}) \in Nat
  BY <1>3, <1>4, FS_CardinalityType DEF Size
<1> QED BY <1>2, <1>3, <1>4, <1>5, SizesAreNumbers, NumbersOK DEF OvershootBounded

(* The limit is checked before an await and the entry added after it, so   *)
(* the cache can outgrow nMaxEntries, but only by as many entries as calls *)
(* were under way.                                                         *)
THEOREM OvershootIsBounded == Spec => []OvershootBounded
<1>1. Init => OvershootBounded
  <2> SUFFICES ASSUME Init PROVE OvershootBounded
    OBVIOUS
  <2>1. CachedKeys = {} /\ InFlight = {}
    BY DEF Init, CachedKeys, Has, InFlight
  <2> QED BY <2>1, FS_EmptySet, NumbersOK DEF OvershootBounded, Size
<1>2. TypeOK /\ TypeOK' /\ OvershootBounded /\ [Next]_vars => OvershootBounded'
  <2> SUFFICES ASSUME TypeOK, TypeOK', OvershootBounded, [Next]_vars
               PROVE  OvershootBounded'
    OBVIOUS
  <2>1. ASSUME NEW c \in Calls, NEW k \in Keys, Encode(c, k) PROVE OvershootBounded'
    BY <2>1, EncodeKeepsBound
  <2>2. ASSUME NEW c \in Calls, Respond(c) PROVE OvershootBounded'
    <3>1. InFlight' = InFlight /\ CachedKeys' = CachedKeys
      BY <2>2 DEF Respond, InFlight, CachedKeys, Has, TypeOK
    <3> QED BY <3>1 DEF OvershootBounded, Size
  <2>3. ASSUME NEW c \in Calls, FailRequest(c) \/ DecodeCached(c) \/ DecodeUncached(c)
        PROVE  OvershootBounded'
    <3>1. c \in InFlight /\ stage' = [stage EXCEPT ![c] = "settled"]
      BY <2>3 DEF FailRequest, DecodeCached, DecodeUncached, Settle, InFlight
    <3>2. CASE UNCHANGED mapCache
      <4>1. CachedKeys' \in SUBSET (CachedKeys \union {key[c]})
        BY <3>2 DEF CachedKeys, Has
      <4> QED BY <3>1, <4>1, SettleKeepsBound
    <3>3. ASSUME NEW v, Store(c, v) PROVE OvershootBounded'
      <4>1. CachedKeys' \in SUBSET (CachedKeys \union {key[c]})
        BY <3>3 DEF CachedKeys, Has, Store, TypeOK
      <4> QED BY <3>1, <4>1, SettleKeepsBound
    <3> QED BY <2>3, <3>2, <3>3 DEF FailRequest, DecodeCached, DecodeUncached
  <2>4. ASSUME NEW k \in Keys, DeleteKey(k) PROVE OvershootBounded'
    BY <2>4, ShrinkKeepsBound DEF DeleteKey, TypeOK
  <2>5. CASE Clear
    BY <2>5, ShrinkKeepsBound DEF Clear, Cleared
  <2>6. CASE Tick \/ UNCHANGED vars
    BY <2>6, ShrinkKeepsBound DEF Tick, vars
  <2> QED BY <2>1, <2>2, <2>3, <2>4, <2>5, <2>6 DEF Next
<1> QED BY <1>1, <1>2, TypeCorrect, PTL DEF Spec

-----------------------------------------------------------------------------
(* A call has a response from when it is answered, by a hit or by the      *)
(* server, and keeps it; entries hold only results for their keys.         *)
ResultInv ==
    /\ \A c \in Calls :
         /\ stage[c] = "decoding" => response[c] # NONE
         /\ stage[c] \in {"idle", "requesting"} => response[c] = NONE /\ outcome[c] = NONE
    /\ \A k \in Keys : Has(k) => IsResultFor(k, mapCache[k].value)
    /\ Genuine

(* A result for a key stays one, as nobody's key or response is taken back. *)
LEMMA ResultsStay ==
    ASSUME NEW k, NEW value, IsResultFor(k, value),
           \A c \in Calls : response[c] # NONE => key'[c] = key[c] /\ response'[c] = response[c]
    PROVE  IsResultFor(k, value)'
BY DEF IsResultFor, Result

(* Every value a call resolves with is the result of a response to a call  *)
(* with the same key, for any number of calls, keys and entries, and       *)
(* whenever entries are cleared, deleted or expire.                        *)
THEOREM ResultsAreGenuine == Spec => []Genuine
<1>1. Init => ResultInv
  BY DistinctOK DEF Init, ResultInv, Genuine, Has
<1>2. TypeOK /\ ResultInv /\ [Next]_vars => ResultInv'
  <2> SUFFICES ASSUME TypeOK, ResultInv, [Next]_vars PROVE ResultInv'
    OBVIOUS
  <2> USE DistinctOK DEF Has
  <2>1. \A c \in Calls : response[c] # NONE => key'[c] = key[c] /\ response'[c] = response[c]
    BY DEF TypeOK, ResultInv, Next, Encode, MakeUpResponse, Respond, FailRequest, DecodeCached,
       DecodeUncached, Settle, DeleteKey, Clear, Tick, vars
  <2>2. ASSUME NEW k, NEW value, IsResultFor(k, value) PROVE IsResultFor(k, value)'
    BY <2>1, <2>2, ResultsStay
  <2>3. ASSUME NEW c \in Calls, NEW k \in Keys, Encode(c, k) PROVE ResultInv'
    <3>1. \A x \in Keys : mapCache'[x] # NONE => mapCache'[x] = mapCache[x]
      BY <2>3 DEF Encode, Cleared, TypeOK
    <3>2. ASSUME NEW x \in Keys, mapCache'[x] # NONE PROVE IsResultFor(x, mapCache[x].value)'
      BY <2>2, <3>1, <3>2 DEF ResultInv
    <3>3. Genuine'
      BY <2>2, <2>3 DEF Encode, ResultInv, Genuine, TypeOK
    <3>4. \A d \in Calls :
            /\ stage'[d] = "decoding" => response'[d] # NONE
            /\ stage'[d] \in {"idle", "requesting"} => response'[d] = NONE /\ outcome'[d] = NONE
      BY <2>3 DEF Encode, MakeUpResponse, ResultInv, TypeOK
    <3> QED BY <3>1, <3>2, <3>3, <3>4 DEF ResultInv
  <2>4. ASSUME NEW c \in Calls, Respond(c) PROVE ResultInv'
    BY <2>2, <2>4 DEF Respond, ResultInv, Genuine, TypeOK
  <2>5. ASSUME NEW c \in Calls, FailRequest(c) PROVE ResultInv'
    BY <2>2, <2>5 DEF FailRequest, ResultInv, Genuine, TypeOK
  <2>6. ASSUME NEW c \in Calls, DecodeCached(c) PROVE ResultInv'
    <3>1. IsResultFor(key[c], mapCache[key[c]].value)
      BY <2>6 DEF DecodeCached, ResultInv, TypeOK
    <3> QED BY <2>2, <2>6, <3>1 DEF DecodeCached, Settle, ResultInv, Genuine, TypeOK
  <2>7. ASSUME NEW c \in Calls, DecodeUncached(c) PROVE ResultInv'
    <3>1. ASSUME NEW v, v \in {"error"} \/ IsResultFor(key[c], v), v # NONE, Settle(c, v)
          PROVE  /\ Genuine'
                 /\ \A d \in Calls :
                      /\ stage'[d] = "decoding" => response'[d] # NONE
                      /\ stage'[d] \in {"idle", "requesting"} => response'[d] = NONE /\ outcome'[d] = NONE
      <4>1. /\ UNCHANGED <<key, response>>
            /\ stage' = [stage EXCEPT ![c] = "settled"]
            /\ outcome' = [outcome EXCEPT ![c] = v]
        BY <3>1 DEF Settle
      <4>2. ASSUME NEW d \in Calls, outcome'[d] \notin {"error", NONE}
            PROVE  IsResultFor(key[d], outcome[d])'
        <5>1. CASE d = c
          <6>1. outcome'[d] = v /\ key'[d] = key[c] /\ IsResultFor(key[c], v)'
            BY <2>2, <3>1, <4>1, <4>2, <5>1 DEF TypeOK
          <6> QED BY <5>1, <6>1 DEF IsResultFor
        <5>2. CASE d # c
          <6>1. outcome'[d] = outcome[d] /\ key'[d] = key[d]
            BY <4>1, <5>2 DEF TypeOK
          <6>2. IsResultFor(key[d], outcome[d])
            BY <4>2, <6>1 DEF ResultInv, Genuine
          <6> QED BY <2>1, <6>1, <6>2 DEF IsResultFor, Result
        <5> QED BY <5>1, <5>2
      <4>3. Genuine'
        BY <4>2 DEF Genuine
      <4>4. ASSUME NEW d \in Calls
            PROVE  /\ stage'[d] = "decoding" => response'[d] # NONE
                   /\ stage'[d] \in {"idle", "requesting"}
                        => response'[d] = NONE /\ outcome'[d] = NONE
        <5>1. CASE d = c
          BY <4>1, <5>1 DEF TypeOK
        <5>2. CASE d # c
          BY <4>1, <5>2 DEF ResultInv, TypeOK
        <5> QED BY <5>1, <5>2
      <4> QED BY <4>3, <4>4
    <3>2. ASSUME NEW v, IsResultFor(key[c], v), Store(c, v)
          PROVE  \A k \in Keys : mapCache'[k] # NONE => IsResultFor(k, mapCache[k].value)'
      <4>1. key'[c] = key[c] /\ mapCache'[key[c]].value = v /\ key[c] \in Keys
        BY <2>7, <3>2 DEF DecodeUncached, Settle, Store, TypeOK
      <4>2. IsResultFor(key[c], v)'
        BY <2>1, <3>2, <4>1 DEF IsResultFor, Result
      <4>3. ASSUME NEW k \in Keys \ {key[c]}, mapCache'[k] # NONE
            PROVE  IsResultFor(k, mapCache[k].value)'
        <5>1. mapCache'[k] = mapCache[k]
          BY <3>2, <4>1, <4>3 DEF Store, TypeOK
        <5> QED BY <2>1, <4>3, <5>1 DEF ResultInv, IsResultFor, Result
      <4>4. IsResultFor(key[c], mapCache[key[c]].value)'
        BY <4>1, <4>2 DEF IsResultFor
      <4>5. ASSUME NEW k \in Keys, k = key[c] PROVE IsResultFor(k, mapCache[k].value)'
        BY <4>1, <4>4, <4>5 DEF IsResultFor
      <4> QED BY <4>3, <4>5
    <3>3. CASE response[c] \in Calls /\ Settle(c, response[c]) /\ Store(c, response[c])
      <4>1. IsResultFor(key[c], response[c])
        BY <3>3 DEF IsResultFor, Result
      <4> QED BY <3>1, <3>2, <3>3, <4>1 DEF ResultInv
    <3>4. CASE response[c] = NULL /\ ~FreezesStored /\ Settle(c, NULL) /\ Store(c, NULL)
      <4>1. IsResultFor(key[c], NULL)
        BY <3>4 DEF IsResultFor, Result
      <4> QED BY <3>1, <3>2, <3>4, <4>1 DEF ResultInv
    <3>5. CASE response[c] = "error" /\ FreezesStored /\ Settle(c, "error") /\ Store(c, UNDEFINED)
      <4>1. IsResultFor(key[c], UNDEFINED)
        BY <3>5 DEF IsResultFor, Result
      <4> QED BY <3>1, <3>2, <3>5, <4>1 DEF ResultInv
    <3>6. CASE Settle(c, "error") /\ UNCHANGED mapCache
      BY <2>2, <3>1, <3>6 DEF ResultInv
    <3> QED BY <2>7, <3>3, <3>4, <3>5, <3>6 DEF DecodeUncached
  <2>8. CASE (\E k \in Keys : DeleteKey(k)) \/ Clear \/ Tick
    BY <2>2, <2>8 DEF DeleteKey, Clear, Cleared, Tick, ResultInv, Genuine, TypeOK
  <2>9. CASE UNCHANGED vars
    BY <2>2, <2>9 DEF vars, ResultInv, Genuine, TypeOK
  <2> QED BY <2>3, <2>4, <2>5, <2>6, <2>7, <2>8, <2>9 DEF Next
<1> QED BY <1>1, <1>2, TypeCorrect, PTL DEF Spec, ResultInv

=============================================================================
