---------------------------- MODULE JWTKeyManager ----------------------------
(***************************************************************************)
(* The keys that sign tokens. A rotation moves the current key to previous  *)
(* and makes a new one, for the HMAC algorithms only; every method but      *)
(* refreshToken holds the mutex throughout. Keys are numbers in the order   *)
(* they are made, 0 an empty string.                                       *)
(***************************************************************************)
EXTENDS Naturals, FiniteSets

CONSTANTS
    enableRotation,
    keyFiles,        \* both key files of an RSA or EC configuration exist
    MaxKeys,         \* bound: keys made
    Lifetime         \* bound and unit: steps of time a token lives

ASSUME KeyAssumption ==
    /\ enableRotation \in BOOLEAN /\ keyFiles \in BOOLEAN
    /\ MaxKeys \in Nat /\ Lifetime \in Nat \ {0}

VARIABLES
    hmac,         \* whether config_.algorithm is one of HS256, HS384, HS512
    initialized,
    currentKey, previousKey,  \* current and previous secret, or private and public key
    currentId, previousId,    \* key identifiers
    tokens,       \* tokens that were handed out: their key, and time left
    refresh,      \* a token between the two halves of refreshToken, or none
    made          \* keys made so far

jvars == <<hmac, initialized, currentKey, previousKey, currentId, previousId, tokens, refresh, made>>

JInit ==
    /\ hmac \in BOOLEAN /\ initialized = FALSE
    /\ currentKey = 0 /\ previousKey = 0 /\ currentId = 0 /\ previousId = 0
    /\ tokens = {} /\ refresh = {} /\ made = 0

(* HMAC without a secret makes a random key, whatever file is named; the    *)
(* other algorithms need their files, as making a pair is not implemented.  *)
JInitialize ==
    /\ made < MaxKeys /\ ~initialized
    /\ hmac \/ keyFiles
    /\ currentKey' = made + 1 /\ currentId' = made + 1
    /\ made' = made + 1 /\ initialized' = TRUE
    /\ UNCHANGED <<hmac, previousKey, previousId, tokens, refresh>>

(* An empty key does not sign with RSA or EC, and does with HMAC.          *)
CanSign == initialized /\ (hmac \/ currentKey # 0)

generateToken ==
    /\ CanSign
    /\ tokens' = tokens \union {[key |-> currentKey, left |-> Lifetime]}
    /\ UNCHANGED <<hmac, initialized, currentKey, previousKey, currentId, previousId, refresh, made>>

(* verifyToken turns every failure into false, so the branch with the       *)
(* previous key, which an exception would reach, is taken only for a token  *)
(* that does not decode.                                                   *)
verifyToken(t, key) == (hmac \/ key # 0) /\ t.key = key /\ t.left > 0

validateToken(t) == initialized /\ verifyToken(t, currentKey)

(* refreshToken validates, lets the mutex go, and generates.               *)
RefreshValidates(t) ==
    /\ refresh = {} /\ t \in tokens /\ validateToken(t)
    /\ refresh' = {t}
    /\ UNCHANGED <<hmac, initialized, currentKey, previousKey, currentId, previousId, tokens, made>>

RefreshGenerates ==
    /\ refresh # {} /\ refresh' = {}
    /\ tokens' = IF CanSign THEN tokens \union {[key |-> currentKey, left |-> Lifetime]} ELSE tokens
    /\ UNCHANGED <<hmac, initialized, currentKey, previousKey, currentId, previousId, made>>

(* A rotation of an RSA or EC key moves it away and then fails: the manager *)
(* stays initialized without a key.                                        *)
rotateKeys ==
    /\ enableRotation /\ made < MaxKeys
    /\ previousKey' = currentKey /\ previousId' = currentId
    /\ IF hmac
       THEN currentKey' = made + 1 /\ currentId' = made + 1 /\ made' = made + 1
       ELSE currentKey' = 0 /\ UNCHANGED <<currentId, made>>
    /\ UNCHANGED <<hmac, initialized, tokens, refresh>>

cleanupKeys ==
    /\ currentKey' = 0 /\ previousKey' = 0
    /\ UNCHANGED <<hmac, initialized, currentId, previousId, tokens, refresh, made>>

(* The keys getJWKS publishes: none for HMAC, the previous one in a day of  *)
(* grace after the rotation.                                               *)
getJWKS(inGrace) ==
    IF ~initialized \/ hmac THEN {}
    ELSE ({currentKey} \union (IF enableRotation /\ inGrace THEN {previousKey} ELSE {})) \ {0}

TokenAges ==
    /\ tokens # {}
    /\ tokens' = {[t EXCEPT !.left = IF @ > 0 THEN @ - 1 ELSE 0] : t \in tokens}
    /\ UNCHANGED <<hmac, initialized, currentKey, previousKey, currentId, previousId, refresh, made>>

JNext ==
    \/ JInitialize \/ generateToken \/ RefreshGenerates \/ rotateKeys \/ cleanupKeys \/ TokenAges
    \/ \E t \in tokens : RefreshValidates(t)

(* A token that has time left validates after one rotation: the previous    *)
(* key is kept for that, and its public half published for a day of grace.  *)
PreviousKeyAccepted ==
    \A t \in tokens :
        initialized /\ hmac /\ t.left > 0 /\ t.key # 0 /\ t.key = previousKey => validateToken(t)
=============================================================================
