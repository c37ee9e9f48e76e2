--------------------------- MODULE Services_proofs ---------------------------
(***************************************************************************)
(* The services around a session, for every size of their rings and grids  *)
(* and every rate of their clocks: connection tokens, interest management, *)
(* the rings of the lag compensator, of the inputs and of the snapshots,   *)
(* the client's clock, the synchronisation of time and the rate limits.    *)
(*                                                                         *)
(* Each section proves an inductive invariant of one component from the    *)
(* component's own specification; the last one takes the results to the    *)
(* specification that the run checks.                                      *)
(***************************************************************************)
EXTENDS MCServices, FiniteSetTheorems, SequenceTheorems, NaturalsInduction,
        WellFoundedInduction, TLAPS

-----------------------------------------------------------------------------
(* Arithmetic.                                                             *)

\* A product grows with its factor.
LEMMA ProductMonotone ==
  ASSUME NEW a \in Int, NEW b \in Int, NEW s \in Nat, a <= b
  PROVE  s * a <= s * b
OBVIOUS

\* A coordinate of a point within a distance is within that distance.
LEMMA SquareBound ==
  ASSUME NEW a \in Int, NEW b \in Int, NEW r \in Nat, a * a + b * b <= r * r
  PROVE  a <= r /\ -r <= a
<1>0. b * b >= 0
  OBVIOUS
<1>1. ASSUME a > r PROVE FALSE
  <2>1. a * a >= a * (r + 1) /\ (r + 1) * a >= (r + 1) * (r + 1)
    BY <1>1
  <2>2. a * (r + 1) = (r + 1) * a
    OBVIOUS
  <2>3. (r + 1) * (r + 1) = r * r + 2 * r + 1
    OBVIOUS
  <2>4. a * a \in Int /\ b * b \in Int /\ r * r \in Int /\ a * (r + 1) \in Int
        /\ (r + 1) * a \in Int /\ (r + 1) * (r + 1) \in Int
    OBVIOUS
  <2> QED BY <2>1, <2>2, <2>3, <2>4, <1>0
<1>2. ASSUME a < -r PROVE FALSE
  BY <1>2, <1>0, SMTT(30)
<1> QED BY <1>1, <1>2

\* Quotients keep an order.
LEMMA DivMonotone ==
  ASSUME NEW s \in Nat \ {0}, NEW x \in Int, NEW y \in Int, x <= y
  PROVE  /\ x \div s \in Int /\ y \div s \in Int
         /\ x \div s <= y \div s
<1> DEFINE q == x \div s
           u == y \div s
<1>1. q \in Int /\ u \in Int
  OBVIOUS
<1>2. s * q <= x /\ x < s * (q + 1) /\ s * u <= y /\ y < s * (u + 1)
  OBVIOUS
<1> HIDE DEF q, u
<1>3. ASSUME u + 1 <= q PROVE FALSE
  <2>1. s * (u + 1) <= s * q
    BY <1>1, <1>3, ProductMonotone
  <2> QED BY <1>1, <1>2, <2>1
<1> QED BY <1>1, <1>3 DEF q, u

\* Quotient and remainder.
LEMMA DivFacts ==
  ASSUME NEW b \in Nat \ {0}, NEW a \in Int
  PROVE  /\ a \div b \in Int /\ a % b \in 0 .. b - 1
         /\ a = b * (a \div b) + (a % b)
         /\ b * (a \div b) <= a /\ a < b * (a \div b) + b
OBVIOUS

\* A set of natural numbers that is not empty has a least member.
LEMMA LeastMember ==
  ASSUME NEW T, T \subseteq Nat, T # {}
  PROVE  \E x \in T : \A y \in T : x <= y
<1> DEFINE R == OpToRel(<, Nat)
<1>1. IsWellFoundedOn(R, Nat)
  BY NatLessThanWellFounded
<1>2. \E x \in T : \A y \in T : ~ (<<y, x>> \in R)
  <2> HIDE DEF R
  <2> QED BY <1>1, WFMin
<1>3. PICK x \in T : \A y \in T : ~ (<<y, x>> \in R)
  BY <1>2
<1>4. \A y \in T : ~ (y < x)
  BY <1>3 DEF OpToRel
<1>5. \A y \in T : x \in Nat /\ y \in Nat
  OBVIOUS
<1> HIDE DEF R
<1>6. \A y \in T : x <= y
  BY <1>4, <1>5
<1> QED
  BY <1>6

\* The remainder is the one number below the modulus that differs by a multiple of it.
LEMMA ModUnique ==
  ASSUME NEW R \in Nat \ {0}, NEW q \in Int, NEW r \in 0 .. R - 1
  PROVE  (R * q + r) % R = r
OBVIOUS

\* Adding multiples of the modulus does not change a remainder.
LEMMA ModWhole ==
  ASSUME NEW R \in Nat \ {0}, NEW a \in Int
  PROVE  \E q \in Int, r \in 0 .. R - 1 : a = R * q + r /\ a % R = r
<1>1. /\ a = R * (a \div R) + (a % R) /\ a \div R \in Int
      /\ a % R \in 0 .. R - 1
  OBVIOUS
<1> QED BY <1>1

\* Moving on by one slot in a ring.
LEMMA ModNext ==
  ASSUME NEW R \in Nat \ {0}, NEW a \in Int
  PROVE  ((a % R) + 1) % R = (a + 1) % R
<1>1. PICK q \in Int, r \in 0 .. R - 1 : a = R * q + r /\ a % R = r
  BY ModWhole
<1>3. CASE r + 1 < R
  <2>1. r + 1 \in 0 .. R - 1 /\ a + 1 = R * q + (r + 1)
    BY <1>1, <1>3
  <2>2. (a + 1) % R = r + 1
    BY <2>1, ModUnique
  <2>3. (r + 1) % R = r + 1
    BY <2>1
  <2> QED BY <2>2, <2>3, <1>1
<1>4. CASE r + 1 = R
  <2>1. a + 1 = R * (q + 1) + 0 /\ r + 1 = R * 1 + 0
    BY <1>1, <1>4
  <2>2. (R * (q + 1) + 0) % R = 0 /\ (R * 1 + 0) % R = 0
    BY ModUnique
  <2> QED BY <2>1, <2>2, <1>1
<1> QED BY <1>1, <1>3, <1>4

\* Going back by d slots in a ring of R.
LEMMA ModBack ==
  ASSUME NEW R \in Nat \ {0}, NEW a \in Int, NEW d \in 0 .. R
  PROVE  ((a % R) + R - d) % R = (a - d) % R
<1>1. PICK q \in Int, r \in 0 .. R - 1 : a = R * q + r /\ a % R = r
  BY ModWhole
<1>3. CASE r >= d
  <2>1. r - d \in 0 .. R - 1 /\ a - d = R * q + (r - d) /\ r + R - d = R * 1 + (r - d)
    BY <1>1, <1>3
  <2>2. (R * q + (r - d)) % R = r - d /\ (R * 1 + (r - d)) % R = r - d
    BY <2>1, ModUnique
  <2> QED BY <2>1, <2>2, <1>1
<1>4. CASE r < d
  <2>1. r + R - d \in 0 .. R - 1 /\ a - d = R * (q - 1) + (r + R - d)
    BY <1>1, <1>4
  <2>a. PICK u \in Int, s \in 0 .. R - 1 : u = q - 1 /\ s = r + R - d
    BY <2>1
  <2>2. (R * u + s) % R = s
    BY ModUnique
  <2>3. (r + R - d) % R = r + R - d
    BY <2>1
  <2> QED BY <2>1, <2>a, <2>2, <2>3, <1>1
<1> QED BY <1>1, <1>3, <1>4

\* Numbers that share a slot are equal or a ring apart.
LEMMA ModApart ==
  ASSUME NEW R \in Nat \ {0}, NEW a \in Int, NEW b \in Int, a % R = b % R,
         a - b < R, b - a < R
  PROVE  a = b
<1>1. PICK q \in Int, r \in 0 .. R - 1 : a = R * q + r /\ a % R = r
  BY ModWhole
<1>2. PICK u \in Int, s \in 0 .. R - 1 : b = R * u + s /\ b % R = s
  BY ModWhole
<1>3. a - b = R * (q - u)
  BY <1>1, <1>2
<1>4. ASSUME q - u >= 1 PROVE FALSE
  BY <1>3, <1>4
<1>5. ASSUME q - u <= -1 PROVE FALSE
  BY <1>3, <1>5
<1>6. q = u
  BY <1>4, <1>5
<1> QED BY <1>1, <1>2, <1>6

\* The slot of a number does not change when it is cut to a multiple of the ring.
LEMMA ModOfMod ==
  ASSUME NEW R \in Nat \ {0}, NEW M \in Nat \ {0}, M % R = 0, NEW a \in Int
  PROVE  (a % M) % R = a % R
<1>1. PICK q \in Int, r \in 0 .. M - 1 : a = M * q + r /\ a % M = r
  BY ModWhole
<1>2. PICK u \in Int, s \in 0 .. R - 1 : r = R * u + s /\ r % R = s
  <2>1. r \in Int
    OBVIOUS
  <2> QED BY <2>1, ModWhole
<1>3. PICK k \in Int : M = R * k
  <2>0. M \in Int
    OBVIOUS
  <2>1. PICK k \in Int, z \in 0 .. R - 1 : M = R * k + z /\ M % R = z
    BY <2>0, ModWhole
  <2> QED BY <2>1
<1>4. M * q = R * (k * q) /\ k * q \in Int
  BY <1>3
<1>5. a = R * (k * q + u) + s
  BY <1>1, <1>2, <1>4
<1>6. (R * (k * q + u) + s) % R = s
  BY <1>4, ModUnique
<1> QED BY <1>1, <1>2, <1>5, <1>6

\* The difference of two wrapped numbers, wrapped.
LEMMA ModMinus ==
  ASSUME NEW M \in Nat \ {0}, NEW a \in Int, NEW b \in Int
  PROVE  ((a % M) - (b % M)) % M = (a - b) % M
<1>1. PICK q \in Int, r \in 0 .. M - 1 : a = M * q + r /\ a % M = r
  BY ModWhole
<1>2. PICK u \in Int, s \in 0 .. M - 1 : b = M * u + s /\ b % M = s
  BY ModWhole
<1>3. r - s \in Int
  OBVIOUS
<1>4. PICK v \in Int, z \in 0 .. M - 1 : r - s = M * v + z /\ (r - s) % M = z
  BY <1>3, ModWhole
<1>5. a - b = M * (q - u + v) + z
  BY <1>1, <1>2, <1>4
<1>6. PICK w \in Int : w = q - u + v
  OBVIOUS
<1>7. (M * w + z) % M = z
  BY ModUnique
<1> QED BY <1>1, <1>2, <1>4, <1>5, <1>6, <1>7

-----------------------------------------------------------------------------
(* ConnectionToken.                                                        *)

\* The widths hold what is stored: no expiry is cut to the 16 bits of its field,
\* and the times of the run and the ends of its tokens fit the 32 bits of theirs.
TokFits == TokMaxExpiry < TokExpiryMod /\ TokMaxTime + TokMaxExpiry < TokTimeMod

\* A token holds its expiry as it was asked for and, while the machine that issued
\* it runs, the time of the steady clock at which it was issued.
TokHonest ==
  \A t \in tok_tokens :
    /\ t.boots <= tok_boots /\ t.at <= tok_wall
    /\ t.expiry = t.lasts
    /\ t.boots = tok_boots => tok_booted <= t.at /\ t.issued = t.at - tok_booted

TokInv == ConnectionTokenInv /\ TokHonest

\* A number below the modulus is its own remainder.
LEMMA TokSmallMod ==
  ASSUME NEW M \in Nat \ {0}, NEW a \in Nat, a < M
  PROVE  a % M = a
OBVIOUS

\* SteadyNow is the time since the boot: it does not wrap in the run.
LEMMA SteadyNowExact ==
  ASSUME TokFits, TokTypeOK
  PROVE  /\ SteadyNow = tok_wall - tok_booted
         /\ SteadyNow \in 0 .. TokTimeMod - 1
<1> DEFINE d == tok_wall - tok_booted
<1>1. d \in Nat /\ d < TokTimeMod
  BY TokAssumption DEF TokTypeOK, TokFits
<1>2. TokTimeMod \in Nat \ {0}
  BY TokAssumption
<1> HIDE DEF d
<1>3. d % TokTimeMod = d
  BY <1>1, <1>2, TokSmallMod
<1> QED BY <1>1, <1>2, <1>3 DEF SteadyNow, d

\* A token that generate() makes has the fields of its type, and the expiry it was
\* asked for.
LEMMA GeneratedToken ==
  ASSUME TokFits, TokTypeOK, NEW e \in 1 .. TokMaxExpiry
  PROVE  /\ generate(tok_secret, e, SteadyNow) \in Token
         /\ generate(tok_secret, e, SteadyNow).expiry = e
<1>1. e \in Nat /\ e < TokExpiryMod /\ TokExpiryMod \in Nat \ {0}
  BY TokAssumption DEF TokFits
<1>2. e % TokExpiryMod = e
  BY <1>1, TokSmallMod
<1>3. SteadyNow \in 0 .. TokTimeMod - 1
  BY SteadyNowExact
<1> DEFINE now == SteadyNow
<1> HIDE DEF now
<1>4. now \in 0 .. TokTimeMod - 1
  BY <1>3 DEF now
<1>5. generate(tok_secret, e, now) =
        [issued |-> now, expiry |-> e, hmac |-> tok_secret,
         at |-> tok_wall, lasts |-> e, boots |-> tok_boots]
  BY <1>2 DEF generate
<1>6. generate(tok_secret, e, now) \in Token
  BY <1>5, <1>4, <1>1, TokAssumption DEF Token, TokTypeOK
<1> QED BY <1>5, <1>6 DEF now

\* Before the first token there is nothing to be honest about.
LEMMA TokInitInv == ConnectionTokenInit => TokInv
<1>1. Cardinality({}) = 0
  BY FS_EmptySet
<1> SUFFICES ASSUME ConnectionTokenInit PROVE TokInv
  OBVIOUS
<1>2. tok_connected \in BOOLEAN
  BY Zenon DEF ConnectionTokenInit
<1>3. TokTypeOK
  BY <1>1, <1>2, TokAssumption DEF ConnectionTokenInit, TokTypeOK
<1> QED BY <1>3 DEF ConnectionTokenInit, TokInv, ConnectionTokenInv, TokValidity, TokHonest

\* validate() accepts a token of this boot exactly while it is in time.
LEMMA ValidateExact ==
  ASSUME TokFits, TokInv, NEW t \in tok_tokens, t.boots = tok_boots, NEW s
  PROVE  validate(t, s, SteadyNow) <=> t.hmac = s /\ tok_wall - t.at <= t.lasts
<1>1. SteadyNow = tok_wall - tok_booted
  BY SteadyNowExact DEF TokInv, ConnectionTokenInv
<1>2. t \in Token
  BY DEF TokInv, ConnectionTokenInv, TokTypeOK
<1>3. t.at \in 0 .. TokMaxTime /\ t.lasts \in 1 .. TokMaxExpiry
  BY <1>2 DEF Token
<1>4. /\ t.at <= tok_wall /\ t.expiry = t.lasts
      /\ tok_booted <= t.at /\ t.issued = t.at - tok_booted
  BY DEF TokInv, TokHonest
<1>5. tok_wall \in Nat /\ tok_booted \in 0 .. tok_wall
  BY TokAssumption DEF TokInv, ConnectionTokenInv, TokTypeOK
<1>6. t.issued + t.expiry \in Nat /\ t.issued + t.expiry < TokTimeMod
  BY <1>3, <1>4, <1>5, TokAssumption DEF TokFits
<1>7. TokTimeMod \in Nat \ {0}
  BY TokAssumption
<1>8. (t.issued + t.expiry) % TokTimeMod = t.issued + t.expiry
  BY <1>6, <1>7, TokSmallMod
<1> QED BY <1>1, <1>3, <1>4, <1>5, <1>8, TokAssumption DEF validate

\* Generating, validating, passing time and rebooting keep the invariant.
LEMMA TokStepInv == TokFits /\ TokInv /\ [ConnectionTokenNext]_tok_vars => TokInv'
<1> SUFFICES ASSUME TokFits, TokInv, [ConnectionTokenNext]_tok_vars PROVE TokInv'
  OBVIOUS
<1> USE TokAssumption
<1>a. TokTypeOK /\ TokValidity /\ TokHonest
  BY DEF TokInv, ConnectionTokenInv
<1>b. SUFFICES TokTypeOK' /\ TokValidity' /\ TokHonest'
  BY DEF TokInv, ConnectionTokenInv
<1>1. ASSUME NEW e \in 1 .. TokMaxExpiry, generate_connection_token(e)
      PROVE  TokTypeOK' /\ TokValidity' /\ TokHonest'
  <2> DEFINE g == generate(tok_secret, e, SteadyNow)
  <2>1. g \in Token /\ g.expiry = e
    BY <1>a, GeneratedToken
  <2>2. /\ g.at = tok_wall /\ g.lasts = e /\ g.boots = tok_boots
        /\ g.issued = tok_wall - tok_booted
    BY <1>a, SteadyNowExact DEF generate
  <2>3. /\ tok_tokens' = tok_tokens \cup {g}
        /\ UNCHANGED <<tok_wall, tok_booted, tok_boots, tok_secret, tok_client,
                       tok_connected, tok_last>>
    BY <1>1 DEF generate_connection_token
  <2> HIDE DEF g
  <2>4. TokTypeOK'
    BY <1>a, <2>1, <2>3 DEF TokTypeOK
  <2>5. TokValidity'
    BY <1>a, <2>3 DEF TokValidity, TokInTime
  <2>6. TokHonest'
    BY <1>a, <2>1, <2>2, <2>3 DEF TokHonest, TokTypeOK
  <2> QED BY <2>4, <2>5, <2>6
<1>2. ASSUME NEW t \in tok_tokens, set_connection_token(t)
      PROVE  TokTypeOK' /\ TokValidity' /\ TokHonest'
  <2>a. Cardinality({t}) = 1
    BY FS_Singleton
  <2>1. Cardinality({t}) <= 1
    BY <2>a
  <2>2. TokTypeOK'
    BY <1>a, <1>2, <2>1 DEF TokTypeOK, set_connection_token
  <2> QED BY <1>a, <1>2, <2>2 DEF TokValidity, TokInTime, TokHonest, set_connection_token
<1>3. CASE tok_ConnectRequest
  <2>1. PICK t \in tok_client :
          /\ tok_connected' = validate(t, tok_secret, SteadyNow)
          /\ tok_last' = {[token |-> t, secret |-> tok_secret, time |-> tok_wall,
                           boots |-> tok_boots,
                           accepted |-> validate(t, tok_secret, SteadyNow)]}
          /\ UNCHANGED <<tok_wall, tok_booted, tok_boots, tok_secret, tok_tokens, tok_client>>
    BY <1>3 DEF tok_ConnectRequest
  <2>2. t \in tok_tokens
    BY <1>a DEF TokTypeOK
  <2> DEFINE v == validate(t, tok_secret, SteadyNow)
             q == [token |-> t, secret |-> tok_secret, time |-> tok_wall,
                   boots |-> tok_boots, accepted |-> v]
  <2>3. v \in BOOLEAN
    BY DEF validate
  <2>4. t.boots = tok_boots => (v <=> t.hmac = tok_secret /\ tok_wall - t.at <= t.lasts)
    BY <2>2, ValidateExact
  <2> HIDE DEF v
  <2>5. /\ q.token = t /\ q.secret = tok_secret /\ q.time = tok_wall
        /\ q.boots = tok_boots /\ q.accepted = v
    OBVIOUS
  <2>6. tok_last' = {q}
    BY <2>1 DEF v
  <2>7. tok_connected' = v
    BY <2>1 DEF v
  <2> HIDE DEF q
  <2>8. TokTypeOK'
    BY <1>a, <2>1, <2>2, <2>3, <2>5, <2>6, <2>7 DEF TokTypeOK
  <2>9. TokValidity'
    BY <2>4, <2>5, <2>6 DEF TokValidity, TokInTime
  <2>10. TokHonest'
    BY <1>a, <2>1 DEF TokHonest
  <2> QED BY <2>8, <2>9, <2>10
<1>4. CASE tok_disconnect
  BY <1>a, <1>4 DEF tok_disconnect, TokTypeOK, TokValidity, TokInTime, TokHonest
<1>5. ASSUME NEW s \in TokSecrets, tok_start_server(s)
      PROVE  TokTypeOK' /\ TokValidity' /\ TokHonest'
  BY <1>a, <1>5 DEF tok_start_server, TokTypeOK, TokValidity, TokInTime, TokHonest
<1>6. CASE tok_boot
  <2>c. tok_connected' \in BOOLEAN
    BY <1>6, Zenon DEF tok_boot
  <2>a. TokTypeOK'
    BY <1>a, <1>6, <2>c DEF tok_boot, TokTypeOK
  <2>b. TokValidity'
    BY <1>a, <1>6 DEF tok_boot, TokValidity, TokInTime
  <2>1. TokTypeOK' /\ TokValidity'
    BY <2>a, <2>b
  <2>2. \A t \in tok_tokens : t.boots \in Nat
    BY <1>a DEF TokTypeOK, Token
  <2>3. TokHonest'
    BY <1>a, <1>6, <2>2 DEF tok_boot, TokHonest, TokTypeOK
  <2> QED BY <2>1, <2>3
<1>7. CASE tok_tick
  <2>1. \A t \in tok_tokens : t.at \in Nat
    BY <1>a DEF TokTypeOK, Token
  <2>2. TokTypeOK'
    BY <1>a, <1>7 DEF tok_tick, TokTypeOK
  <2>3. TokValidity'
    BY <1>a, <1>7 DEF tok_tick, TokValidity, TokInTime
  <2>4. TokHonest'
    BY <1>a, <1>7, <2>1 DEF tok_tick, TokHonest, TokTypeOK
  <2> QED BY <2>2, <2>3, <2>4
<1>8. CASE UNCHANGED tok_vars
  BY <1>a, <1>8 DEF tok_vars, TokTypeOK, TokValidity, TokInTime, TokHonest
<1> QED BY <1>1, <1>2, <1>3, <1>4, <1>5, <1>6, <1>7, <1>8 DEF ConnectionTokenNext

\* A token is accepted exactly while it is in time, however often it is presented
\* and whoever presents it, as long as the machine that issued it runs.
THEOREM ConnectionTokenInvHolds ==
  ASSUME TokFits
  PROVE  ConnectionTokenSpec => []ConnectionTokenInv
<1>1. TokInv /\ [ConnectionTokenNext]_tok_vars => TokInv'
  BY TokStepInv
<1>2. TokInv => ConnectionTokenInv
  BY DEF TokInv
<1> QED BY <1>1, <1>2, TokInitInv, PTL DEF ConnectionTokenSpec

-----------------------------------------------------------------------------
(* SpatialInterest.                                                        *)

\* A list in which nothing is twice.
NoTwins(s) == \A i, j \in DOMAIN s : s[i] = s[j] => i = j

\* RemoveFirst takes e out of a list that holds it once and keeps the others.
LEMMA RemoveFirstFacts ==
  ASSUME NEW S, NEW s \in Seq(S), NEW e, NoTwins(s)
  PROVE  LET r == RemoveFirst(s, e) IN
         /\ r \in Seq(S)
         /\ NoTwins(r)
         /\ \A i \in DOMAIN r : r[i] # e /\ \E j \in DOMAIN s : r[i] = s[j]
         /\ \A j \in DOMAIN s : s[j] # e => \E i \in DOMAIN r : r[i] = s[j]
         /\ (s # << >> /\ s # <<e>>) => r # << >>
<1> DEFINE r == RemoveFirst(s, e)
<1>0. DOMAIN s = 1 .. Len(s) /\ Len(s) \in Nat
  OBVIOUS
<1>1. CASE ~ \E i \in 1 .. Len(s) : s[i] = e
  <2>1. r = s
    BY <1>1 DEF RemoveFirst
  <2> HIDE DEF r
  <2>2. \A i \in DOMAIN s : s[i] # e
    BY <1>0, <1>1
  <2> QED BY <2>1, <2>2 DEF r
<1>2. CASE \E i \in 1 .. Len(s) : s[i] = e
  <2>1. PICK k \in 1 .. Len(s) : s[k] = e
    BY <1>2
  <2>2. {i \in 1 .. Len(s) : s[i] = e} = {k}
    BY <2>1, <1>0 DEF NoTwins
  <2>3. Min({k}) = k
    BY <2>1 DEF Min
  <2>4. SelectInSeq(s, LAMBDA v : v = e) = k
    BY <2>2, <2>3 DEF SelectInSeq
  <2>5. r = SubSeq(s, 1, k - 1) \o SubSeq(s, k + 1, Len(s))
    BY <1>2, <2>4 DEF RemoveFirst, RemoveAt
  <2> HIDE DEF r
  <2> DEFINE a == SubSeq(s, 1, k - 1)
             b == SubSeq(s, k + 1, Len(s))
  <2>6. /\ a \in Seq(S) /\ Len(a) = k - 1
        /\ \A i \in 1 .. k - 1 : a[i] = s[i]
    BY <2>1
  <2>7. /\ b \in Seq(S) /\ Len(b) = Len(s) - k
        /\ \A i \in 1 .. Len(s) - k : b[i] = s[k + i]
    BY <2>1
  <2> HIDE DEF a, b
  <2>8. r = a \o b
    BY <2>5 DEF a, b
  <2>9. /\ r \in Seq(S) /\ Len(r) = Len(s) - 1
        /\ \A i \in 1 .. Len(s) - 1 : r[i] = IF i < k THEN s[i] ELSE s[i + 1]
    <3>1. /\ r \in Seq(S) /\ Len(r) = Len(a) + Len(b)
          /\ \A i \in 1 .. Len(a) + Len(b) :
               r[i] = IF i <= Len(a) THEN a[i] ELSE b[i - Len(a)]
      BY <2>6, <2>7, <2>8, ConcatProperties
    <3>a. ASSUME NEW i \in 1 .. Len(s) - 1
          PROVE  r[i] = IF i <= k - 1 THEN a[i] ELSE b[i - (k - 1)]
      <4>1. i \in 1 .. Len(a) + Len(b)
        BY <2>1, <2>6, <2>7, <1>0
      <4>2. r[i] = IF i <= Len(a) THEN a[i] ELSE b[i - Len(a)]
        BY <3>1, <4>1
      <4> QED BY <4>2, <2>6
    <3>2. ASSUME NEW i \in 1 .. Len(s) - 1, i < k PROVE r[i] = s[i]
      <4>1. i \in 1 .. k - 1
        BY <3>2, <2>1, <1>0
      <4>2. r[i] = a[i]
        BY <3>a, <4>1
      <4> QED BY <4>1, <4>2, <2>6
    <3>3. ASSUME NEW i \in 1 .. Len(s) - 1, i >= k PROVE r[i] = s[i + 1]
      <4>1. r[i] = b[i - (k - 1)]
        <5>1. ~(i <= k - 1)
          BY <3>3, <2>1, <1>0
        <5> QED BY <3>a, <5>1
      <4> PICK j \in Int : j = i - (k - 1)
        BY <2>1
      <4>2. j \in 1 .. Len(s) - k /\ k + j = i + 1
        BY <2>1, <3>3, <1>0
      <4> QED BY <4>1, <4>2, <2>7
    <3> QED BY <2>1, <2>6, <2>7, <3>1, <3>2, <3>3, <1>0
  <2>10. DOMAIN r = 1 .. Len(s) - 1
    BY <2>9
  <2>11. NoTwins(r)
    <3> SUFFICES ASSUME NEW i \in DOMAIN r, NEW j \in DOMAIN r, r[i] = r[j] PROVE i = j
      BY DEF NoTwins
    <3>1. PICK p \in Int : p = IF i < k THEN i ELSE i + 1
      BY <2>10
    <3>2. PICK q \in Int : q = IF j < k THEN j ELSE j + 1
      BY <2>10
    <3>3. p \in DOMAIN s /\ r[i] = s[p]
      BY <3>1, <2>1, <2>9, <2>10, <1>0
    <3>4. q \in DOMAIN s /\ r[j] = s[q]
      BY <3>2, <2>1, <2>9, <2>10, <1>0
    <3>5. p = q
      BY <3>3, <3>4 DEF NoTwins
    <3> QED BY <3>1, <3>2, <3>5, <2>1, <2>10
  <2>12. \A i \in DOMAIN r : r[i] # e /\ \E j \in DOMAIN s : r[i] = s[j]
    <3> SUFFICES ASSUME NEW i \in DOMAIN r
                 PROVE  r[i] # e /\ \E j \in DOMAIN s : r[i] = s[j]
      OBVIOUS
    <3> PICK j \in Int : j = IF i < k THEN i ELSE i + 1
      BY <2>10
    <3>1. j \in DOMAIN s /\ j # k /\ r[i] = s[j]
      BY <2>1, <2>9, <2>10, <1>0
    <3> QED BY <3>1, <2>1, <1>0 DEF NoTwins
  <2>13. \A j \in DOMAIN s : s[j] # e => \E i \in DOMAIN r : r[i] = s[j]
    <3> SUFFICES ASSUME NEW j \in DOMAIN s, s[j] # e
                 PROVE  \E i \in DOMAIN r : r[i] = s[j]
      OBVIOUS
    <3> PICK i \in Int : i = IF j < k THEN j ELSE j - 1
      BY <1>0
    <3>1. i \in DOMAIN r /\ r[i] = s[j]
      BY <2>1, <2>9, <2>10, <1>0
    <3> QED BY <3>1
  <2>14. (s # << >> /\ s # <<e>>) => r # << >>
    <3> SUFFICES ASSUME s # << >>, r = << >> PROVE s = <<e>>
      OBVIOUS
    <3>1. Len(s) = 1
      BY <2>9, <1>0
    <3> QED BY <3>1, <2>1
  <2> QED BY <2>9, <2>11, <2>12, <2>13, <2>14 DEF r
<1> QED BY <1>1, <1>2

\* What is kept of a grid: lists without twins in cells that are not empty.
SpGrid(cells) ==
  /\ DOMAIN cells \subseteq Int \X Int
  /\ \A c \in DOMAIN cells :
       cells[c] \in Seq(SpEntities) /\ cells[c] # << >> /\ NoTwins(cells[c])

\* Entity e is listed in cell c.
SpIn(cells, c, e) == c \in DOMAIN cells /\ \E i \in DOMAIN cells[c] : cells[c][i] = e

\* Adding to a cell lists the entity there and changes no other listing.
LEMMA AddToCell ==
  ASSUME NEW cells, SpGrid(cells), NEW c \in Int \X Int, NEW e \in SpEntities,
         ~SpIn(cells, c, e)
  PROVE  /\ SpGrid(add_to_cell(cells, c, e))
         /\ \A d, f : SpIn(add_to_cell(cells, c, e), d, f) <=>
                        SpIn(cells, d, f) \/ (d = c /\ f = e)
<1> DEFINE new == add_to_cell(cells, c, e)
<1>1. /\ DOMAIN new = DOMAIN cells \cup {c}
      /\ \A d \in DOMAIN cells : d # c => new[d] = cells[d]
  BY DEF add_to_cell
<1>2. CASE c \in DOMAIN cells
  <2>1. new[c] = Append(cells[c], e)
    BY <1>2 DEF add_to_cell
  <2> DEFINE s == cells[c]
             t == new[c]
  <2>2. s \in Seq(SpEntities) /\ NoTwins(s) /\ \A i \in DOMAIN s : s[i] # e
    BY <1>2 DEF SpGrid, SpIn
  <2>3. t = Append(s, e)
    BY <2>1
  <2> HIDE DEF new, s, t
  <2>4. /\ t \in Seq(SpEntities) /\ t # << >>
        /\ DOMAIN s = 1 .. Len(s) /\ Len(s) \in Nat
        /\ DOMAIN t = 1 .. Len(s) + 1 /\ t[Len(s) + 1] = e
        /\ \A i \in 1 .. Len(s) : t[i] = s[i]
    BY <2>2, <2>3
  <2>5. NoTwins(t)
    BY <2>2, <2>4 DEF NoTwins
  <2>6. \A f : (\E i \in DOMAIN t : t[i] = f) <=> (\E i \in DOMAIN s : s[i] = f) \/ f = e
    BY <2>4
  <2>7. SpGrid(new)
    BY <1>1, <2>4, <2>5 DEF SpGrid, t
  <2> QED BY <1>1, <1>2, <2>6, <2>7 DEF SpIn, new, s, t
<1>3. CASE c \notin DOMAIN cells
  <2>1. new[c] = <<e>>
    BY <1>3 DEF add_to_cell
  <2> HIDE DEF new
  <2>2. <<e>> \in Seq(SpEntities) /\ <<e>> # << >> /\ NoTwins(<<e>>)
    BY DEF NoTwins
  <2>3. DOMAIN <<e>> = {1} /\ <<e>>[1] = e
    OBVIOUS
  <2>4. SpGrid(new)
    BY <1>1, <2>1, <2>2 DEF SpGrid
  <2> QED BY <1>1, <1>3, <2>1, <2>3, <2>4 DEF SpIn, new
<1> QED BY <1>2, <1>3

\* Removing from a cell takes the entity out of that list alone.
LEMMA RemoveFromCell ==
  ASSUME NEW cells, SpGrid(cells), NEW c, NEW e
  PROVE  /\ SpGrid(remove_from_cell(cells, c, e))
         /\ \A d, f : SpIn(remove_from_cell(cells, c, e), d, f) <=>
                        SpIn(cells, d, f) /\ ~(d = c /\ f = e)
<1> DEFINE new == remove_from_cell(cells, c, e)
<1>1. CASE c \notin DOMAIN cells
  BY <1>1 DEF remove_from_cell, SpIn
<1>2. CASE c \in DOMAIN cells /\ cells[c] = <<e>>
  <2>1. new = [k \in DOMAIN cells \ {c} |-> cells[k]]
    BY <1>2 DEF remove_from_cell, SpKeep
  <2>2. DOMAIN <<e>> = {1} /\ <<e>>[1] = e
    OBVIOUS
  <2> HIDE DEF new
  <2>3. DOMAIN new = DOMAIN cells \ {c} /\ \A k \in DOMAIN new : new[k] = cells[k]
    BY <2>1
  <2>4. SpGrid(new)
    BY <2>3 DEF SpGrid
  <2> QED BY <1>2, <2>2, <2>3, <2>4 DEF SpIn, new
<1>3. CASE c \in DOMAIN cells /\ cells[c] # <<e>>
  <2>1. new = [cells EXCEPT ![c] = RemoveFirst(cells[c], e)]
    BY <1>3 DEF remove_from_cell
  <2> DEFINE s == cells[c]
             t == RemoveFirst(s, e)
  <2>2. s \in Seq(SpEntities) /\ NoTwins(s) /\ s # << >> /\ s # <<e>>
    BY <1>3 DEF SpGrid
  <2> HIDE DEF new, s
  <2>3. /\ t \in Seq(SpEntities)
        /\ NoTwins(t)
        /\ \A i \in DOMAIN t : t[i] # e /\ \E j \in DOMAIN s : t[i] = s[j]
        /\ \A j \in DOMAIN s : s[j] # e => \E i \in DOMAIN t : t[i] = s[j]
        /\ (s # << >> /\ s # <<e>>) => t # << >>
    BY <2>2, RemoveFirstFacts
  <2> HIDE DEF t
  <2>4. /\ DOMAIN new = DOMAIN cells /\ new[c] = t
        /\ \A k \in DOMAIN cells : k # c => new[k] = cells[k]
    BY <2>1, <1>3 DEF t, s
  <2>5. SpGrid(new)
    BY <2>2, <2>3, <2>4 DEF SpGrid
  <2> QED BY <1>3, <2>3, <2>4, <2>5 DEF SpIn, new, s
<1> QED BY <1>1, <1>2, <1>3

\* Every entity knows the cell of its position.
SpPlaced ==
  \A e \in DOMAIN sp_entities : sp_entities[e].cell = world_to_cell(sp_entities[e].pos)

\* A cell lists exactly the entities that are in it.
SpListed ==
  \A c, e : SpIn(sp_cells, c, e) <=> e \in DOMAIN sp_entities /\ sp_entities[e].cell = c

SpOneClient == sp_client = {} \/ \E c : sp_client = {c}

SpInv == SpTypeOK /\ SpOneClient /\ SpPlaced /\ SpGrid(sp_cells) /\ SpListed

\* The grid starts empty.
LEMMA SpInitInv == SpatialInterestInit => SpInv
<1> SUFFICES ASSUME SpatialInterestInit PROVE SpInv
  OBVIOUS
<1>1. DOMAIN << >> = {}
  OBVIOUS
<1>2. Cardinality({}) = 0
  BY FS_EmptySet
<1>3. DOMAIN sp_entities = {} /\ DOMAIN sp_cells = {} /\ sp_client = {}
  BY <1>1 DEF SpatialInterestInit
<1>4. SpTypeOK
  BY <1>2, <1>3, SpAssumption DEF SpatialInterestInit, SpTypeOK
<1> QED BY <1>3, <1>4 DEF SpInv, SpOneClient, SpPlaced, SpGrid, SpListed, SpIn

\* Cells are pairs of integers.
LEMMA CellTyped ==
  ASSUME SpTypeOK, NEW p \in SpPoints
  PROVE  world_to_cell(p) \in Int \X Int
BY SpAssumption DEF SpTypeOK, world_to_cell

\* At most one client.
LEMMA OneClientTyped ==
  ASSUME NEW c
  PROVE  Cardinality({c}) <= 1 /\ Cardinality({}) <= 1
<1>1. Cardinality({c}) = 1 /\ Cardinality({}) = 0
  BY FS_Singleton, FS_EmptySet
<1> QED BY <1>1

\* What leaves the state as it is keeps the invariant.
LEMMA SpStutter == SpInv /\ UNCHANGED sp_vars => SpInv'
<1> SUFFICES ASSUME SpInv, UNCHANGED sp_vars PROVE SpInv'
  OBVIOUS
<1>1. \A p : world_to_cell(p)' = world_to_cell(p)
  BY DEF world_to_cell, sp_vars
<1>2. SpTypeOK' /\ SpOneClient'
  BY DEF SpInv, SpTypeOK, SpOneClient, sp_vars
<1>3. SpPlaced'
  BY <1>1 DEF SpInv, SpPlaced, sp_vars
<1>4. SpGrid(sp_cells)' /\ SpListed'
  BY DEF SpInv, SpGrid, SpListed, SpIn, sp_vars
<1> QED BY <1>2, <1>3, <1>4 DEF SpInv

\* What changes of the entities and the grid when one entity gets a cell, a position
\* and a radius: it is listed in its new cell alone.
LEMMA SpPlace ==
  ASSUME SpInv, NEW e \in SpEntities, NEW n \in SpEntry, NEW ents, NEW cells,
         n.cell = world_to_cell(n.pos),
         DOMAIN ents = DOMAIN sp_entities \cup {e}, ents[e] = n,
         \A k \in DOMAIN sp_entities : k # e => ents[k] = sp_entities[k],
         SpGrid(cells),
         \A d, f : SpIn(cells, d, f) <=>
                     (SpIn(sp_cells, d, f) /\ f # e) \/ (d = n.cell /\ f = e),
         sp_entities' = ents, sp_cells' = cells,
         UNCHANGED <<sp_cell_size, sp_default, sp_cap, sp_client>>
  PROVE  SpInv'
<1>1. \A p : world_to_cell(p)' = world_to_cell(p)
  BY DEF world_to_cell
<1>2. SpTypeOK'
  BY DEF SpInv, SpTypeOK, SpGrid
<1>3. SpOneClient'
  BY DEF SpInv, SpOneClient
<1>4. SpPlaced'
  BY <1>1 DEF SpInv, SpPlaced
<1>5. SpGrid(sp_cells)'
  BY DEF SpGrid
<1>6. SpListed'
  <2> SUFFICES ASSUME NEW d, NEW f
               PROVE  SpIn(cells, d, f) <=> f \in DOMAIN ents /\ ents[f].cell = d
    BY DEF SpListed, SpIn
  <2>1. SpIn(sp_cells, d, f) <=> f \in DOMAIN sp_entities /\ sp_entities[f].cell = d
    BY DEF SpInv, SpListed
  <2> QED BY <2>1
<1> QED BY <1>2, <1>3, <1>4, <1>5, <1>6 DEF SpInv

\* update_entity: the entity leaves the list of its old cell for that of the new one.
LEMMA SpMovedInv ==
  ASSUME SpInv, NEW e \in DOMAIN sp_entities, NEW p \in SpPoints, SpMoved(e, p),
         UNCHANGED <<sp_cell_size, sp_default, sp_cap, sp_client>>
  PROVE  SpInv'
<1> DEFINE old == sp_entities[e]
           cell == world_to_cell(p)
           new == [old EXCEPT !.pos = p, !.cell = cell]
<1>0. e \in SpEntities /\ old \in SpEntry /\ cell \in Int \X Int
  BY CellTyped DEF SpInv, SpTypeOK
<1>1. CASE old.pos = p
  <2>1. UNCHANGED sp_vars
    BY <1>1 DEF SpMoved, sp_vars
  <2> QED BY <2>1, SpStutter
<1>2. CASE old.pos # p
  <2>1. /\ sp_entities' = [sp_entities EXCEPT ![e] = new]
        /\ sp_cells' = IF old.cell = cell THEN sp_cells
                       ELSE add_to_cell(remove_from_cell(sp_cells, old.cell, e), cell, e)
    BY <1>2 DEF SpMoved
  <2> HIDE DEF cell, old
  <2>2. new \in SpEntry /\ new.cell = cell /\ new.pos = p
    BY <1>0 DEF SpEntry
  <2> HIDE DEF new
  <2>3. PICK ents : ents = [sp_entities EXCEPT ![e] = new]
    OBVIOUS
  <2>4. /\ DOMAIN ents = DOMAIN sp_entities \cup {e} /\ ents[e] = new
        /\ \A k \in DOMAIN sp_entities : k # e => ents[k] = sp_entities[k]
    BY <2>3
  <2>5. \A d : SpIn(sp_cells, d, e) <=> d = old.cell
    BY DEF SpInv, SpListed, old
  <2>6. PICK cells : /\ cells = sp_cells' /\ SpGrid(cells)
                     /\ \A d, f : SpIn(cells, d, f) <=>
                          (SpIn(sp_cells, d, f) /\ f # e) \/ (d = cell /\ f = e)
    <3>1. CASE old.cell = cell
      <4>1. sp_cells' = sp_cells
        BY <2>1, <3>1
      <4>2. SpGrid(sp_cells)
        BY DEF SpInv
      <4>3. \A d, f : SpIn(sp_cells, d, f) <=>
                        (SpIn(sp_cells, d, f) /\ f # e) \/ (d = cell /\ f = e)
        BY <2>5, <3>1
      <4>4. PICK cells : cells = sp_cells
        OBVIOUS
      <4> QED BY <4>1, <4>2, <4>3, <4>4
    <3>2. CASE old.cell # cell
      <4>1. PICK mid : mid = remove_from_cell(sp_cells, old.cell, e)
        OBVIOUS
      <4>2. SpGrid(sp_cells)
        BY DEF SpInv
      <4>3. /\ SpGrid(mid)
            /\ \A d, f : SpIn(mid, d, f) <=> SpIn(sp_cells, d, f) /\ ~(d = old.cell /\ f = e)
        BY <4>1, <4>2, RemoveFromCell
      <4>4. ~SpIn(mid, cell, e)
        BY <4>3, <2>5, <3>2
      <4>5. PICK cells : cells = add_to_cell(mid, cell, e)
        OBVIOUS
      <4>6. /\ SpGrid(cells)
            /\ \A d, f : SpIn(cells, d, f) <=> SpIn(mid, d, f) \/ (d = cell /\ f = e)
        BY <4>3, <4>4, <4>5, <1>0, AddToCell
      <4>7. \A d, f : SpIn(cells, d, f) <=>
                        (SpIn(sp_cells, d, f) /\ f # e) \/ (d = cell /\ f = e)
        BY <4>3, <4>6, <2>5
      <4>8. cells = sp_cells'
        BY <2>1, <3>2, <4>1, <4>5
      <4> QED BY <4>6, <4>7, <4>8
    <3> QED BY <3>1, <3>2
  <2>7. new.cell = world_to_cell(new.pos)
    BY <2>2 DEF cell
  <2>8. \A d, f : SpIn(cells, d, f) <=>
                    (SpIn(sp_cells, d, f) /\ f # e) \/ (d = new.cell /\ f = e)
    BY <2>2, <2>6
  <2>9. sp_entities' = ents /\ sp_cells' = cells
    BY <2>1, <2>3, <2>6
  <2> QED BY <1>0, <2>2, <2>4, <2>6, <2>7, <2>8, <2>9, SpPlace
<1> QED BY <1>1, <1>2

\* A new entity is listed in the cell of its position.
LEMMA SpRegisteredInv ==
  ASSUME SpInv, NEW e \in SpEntities, NEW p \in SpPoints, e \notin DOMAIN sp_entities,
         register_entity(e, p)
  PROVE  SpInv'
<1> DEFINE cell == world_to_cell(p)
           new == [pos |-> p, cell |-> cell, radius |-> 0]
<1>0. cell \in Int \X Int
  BY CellTyped DEF SpInv
<1>1. /\ sp_entities' = [k \in DOMAIN sp_entities \cup {e} |->
                           IF k = e THEN new ELSE sp_entities[k]]
      /\ sp_cells' = add_to_cell(sp_cells, cell, e)
      /\ UNCHANGED <<sp_cell_size, sp_default, sp_cap, sp_client>>
  BY DEF register_entity
<1> HIDE DEF cell
<1>2. new \in SpEntry /\ new.cell = cell /\ new.pos = p
  BY <1>0, SpAssumption DEF SpEntry
<1> HIDE DEF new
<1>3. PICK ents : ents = [k \in DOMAIN sp_entities \cup {e} |->
                            IF k = e THEN new ELSE sp_entities[k]]
  OBVIOUS
<1>4. /\ DOMAIN ents = DOMAIN sp_entities \cup {e} /\ ents[e] = new
      /\ \A k \in DOMAIN sp_entities : k # e => ents[k] = sp_entities[k]
  BY <1>3
<1>5. \A d : ~SpIn(sp_cells, d, e)
  BY DEF SpInv, SpListed
<1>6. PICK cells : cells = add_to_cell(sp_cells, cell, e)
  OBVIOUS
<1>7. SpGrid(sp_cells)
  BY DEF SpInv
<1>8. /\ SpGrid(cells)
      /\ \A d, f : SpIn(cells, d, f) <=> SpIn(sp_cells, d, f) \/ (d = cell /\ f = e)
  BY <1>0, <1>5, <1>6, <1>7, AddToCell
<1>9. \A d, f : SpIn(cells, d, f) <=>
                  (SpIn(sp_cells, d, f) /\ f # e) \/ (d = new.cell /\ f = e)
  BY <1>2, <1>5, <1>8
<1>10. new.cell = world_to_cell(new.pos)
  BY <1>2 DEF cell
<1>11. sp_entities' = ents /\ sp_cells' = cells
  BY <1>1, <1>3, <1>6
<1> QED BY <1>1, <1>2, <1>4, <1>8, <1>9, <1>10, <1>11, SpPlace

\* An entity that is removed leaves the list of its cell.
LEMMA SpRemovedInv ==
  ASSUME SpInv, NEW e \in SpEntities, remove_entity(e)
  PROVE  SpInv'
<1>1. /\ e \in DOMAIN sp_entities
      /\ sp_cells' = remove_from_cell(sp_cells, sp_entities[e].cell, e)
      /\ sp_entities' = [k \in DOMAIN sp_entities \ {e} |-> sp_entities[k]]
      /\ UNCHANGED <<sp_cell_size, sp_default, sp_cap, sp_client>>
  BY DEF remove_entity, SpKeep
<1>2. PICK old : old = sp_entities[e].cell
  OBVIOUS
<1>3. PICK cells : cells = remove_from_cell(sp_cells, old, e)
  OBVIOUS
<1>4. SpGrid(sp_cells)
  BY DEF SpInv
<1>5. /\ SpGrid(cells)
      /\ \A d, f : SpIn(cells, d, f) <=> SpIn(sp_cells, d, f) /\ ~(d = old /\ f = e)
  BY <1>3, <1>4, RemoveFromCell
<1>6. PICK ents : ents = [k \in DOMAIN sp_entities \ {e} |-> sp_entities[k]]
  OBVIOUS
<1>7. /\ DOMAIN ents = DOMAIN sp_entities \ {e}
      /\ \A k \in DOMAIN ents : ents[k] = sp_entities[k]
  BY <1>6
<1>8. sp_entities' = ents /\ sp_cells' = cells
  BY <1>1, <1>2, <1>3, <1>6
<1>9. \A p : world_to_cell(p)' = world_to_cell(p)
  BY <1>1 DEF world_to_cell
<1>10. SpTypeOK'
  BY <1>1, <1>5, <1>7, <1>8 DEF SpInv, SpTypeOK, SpGrid
<1>11. SpOneClient'
  BY <1>1 DEF SpInv, SpOneClient
<1>12. SpPlaced'
  BY <1>7, <1>8, <1>9 DEF SpInv, SpPlaced
<1>13. SpGrid(sp_cells)'
  BY <1>5, <1>8 DEF SpGrid
<1>14. SpListed'
  <2> SUFFICES ASSUME NEW d, NEW f
               PROVE  SpIn(cells, d, f) <=> f \in DOMAIN ents /\ ents[f].cell = d
    BY <1>8 DEF SpListed, SpIn
  <2>1. SpIn(sp_cells, d, f) <=> f \in DOMAIN sp_entities /\ sp_entities[f].cell = d
    BY DEF SpInv, SpListed
  <2> QED BY <2>1, <1>2, <1>5, <1>7
<1> QED BY <1>10, <1>11, <1>12, <1>13, <1>14 DEF SpInv

\* A radius does not move an entity.
LEMMA SpRadiusInv ==
  ASSUME SpInv, NEW e \in SpEntities, NEW r \in SpRadii, set_entity_relevancy_radius(e, r)
  PROVE  SpInv'
<1> DEFINE old == sp_entities[e]
           new == [old EXCEPT !.radius = r]
<1>1. /\ e \in DOMAIN sp_entities
      /\ sp_entities' = [sp_entities EXCEPT ![e] = new]
      /\ UNCHANGED <<sp_cell_size, sp_default, sp_cap, sp_client, sp_cells>>
  BY DEF set_entity_relevancy_radius
<1>2. old \in SpEntry
  BY <1>1 DEF SpInv, SpTypeOK
<1>3. old.cell = world_to_cell(old.pos)
  BY <1>1 DEF SpInv, SpPlaced
<1> HIDE DEF old
<1>4. new \in SpEntry /\ new.cell = old.cell /\ new.pos = old.pos
  BY <1>2 DEF SpEntry
<1> HIDE DEF new
<1>5. PICK ents : ents = [sp_entities EXCEPT ![e] = new]
  OBVIOUS
<1>6. /\ DOMAIN ents = DOMAIN sp_entities \cup {e} /\ ents[e] = new
      /\ \A k \in DOMAIN sp_entities : k # e => ents[k] = sp_entities[k]
  BY <1>1, <1>5
<1>7. \A d : SpIn(sp_cells, d, e) <=> d = old.cell
  BY <1>1 DEF SpInv, SpListed, old
<1>8. PICK cells : cells = sp_cells
  OBVIOUS
<1>9. SpGrid(cells)
  BY <1>8 DEF SpInv
<1>10. \A d, f : SpIn(cells, d, f) <=>
                   (SpIn(sp_cells, d, f) /\ f # e) \/ (d = new.cell /\ f = e)
  BY <1>4, <1>7, <1>8
<1>11. new.cell = world_to_cell(new.pos)
  BY <1>3, <1>4
<1>12. sp_entities' = ents /\ sp_cells' = cells
  BY <1>1, <1>5, <1>8
<1> QED BY <1>1, <1>4, <1>6, <1>9, <1>10, <1>11, <1>12, SpPlace

\* What only concerns the client and the parameters of the queries.
LEMMA SpParametersInv ==
  ASSUME SpInv, SpTypeOK', SpOneClient', UNCHANGED <<sp_cell_size, sp_entities, sp_cells>>
  PROVE  SpInv'
<1>1. \A p : world_to_cell(p)' = world_to_cell(p)
  BY DEF world_to_cell
<1>2. SpPlaced'
  BY <1>1 DEF SpInv, SpPlaced
<1>3. SpGrid(sp_cells)' /\ SpListed'
  BY DEF SpInv, SpGrid, SpListed, SpIn
<1> QED BY <1>2, <1>3 DEF SpInv

\* The client's entry is replaced by one of its type.
LEMMA SpClientInv ==
  ASSUME SpInv,
         sp_client' = {} \/ \E c \in [pos : SpPoints, radius : SpRadii] : sp_client' = {c},
         UNCHANGED <<sp_cell_size, sp_default, sp_cap, sp_entities, sp_cells>>
  PROVE  SpInv'
<1>1. SpOneClient'
  BY DEF SpOneClient
<1>2. /\ sp_client' \subseteq [pos : SpPoints, radius : SpRadii]
      /\ Cardinality(sp_client') <= 1
  BY OneClientTyped
<1>3. SpTypeOK'
  BY <1>2 DEF SpInv, SpTypeOK
<1> QED BY <1>1, <1>3, SpParametersInv

\* Every step of the interest manager keeps the invariant.
LEMMA SpStepInv == SpDisciplined /\ SpInv /\ [SpatialInterestNext]_sp_vars => SpInv'
<1> SUFFICES ASSUME SpDisciplined, SpInv, [SpatialInterestNext]_sp_vars PROVE SpInv'
  OBVIOUS
<1> DEFINE Client == [pos : SpPoints, radius : SpRadii]
<1>0. sp_client = {} \/ \E c \in Client : sp_client = {c}
  BY DEF SpInv, SpTypeOK, SpOneClient
<1>1. ASSUME NEW e \in SpEntities, NEW p \in SpPoints, register_entity(e, p)
      PROVE  SpInv'
  <2>1. CASE e \notin DOMAIN sp_entities
    BY <1>1, <2>1, SpRegisteredInv
  <2>2. CASE e \in DOMAIN sp_entities
    <3>1. SpMoved(e, p) /\ UNCHANGED <<sp_cell_size, sp_default, sp_cap, sp_client>>
      BY <1>1, <2>2 DEF register_entity
    <3> QED BY <2>2, <3>1, SpMovedInv
  <2> QED BY <2>1, <2>2
<1>2. ASSUME NEW e \in SpEntities, NEW p \in SpPoints, update_entity(e, p)
      PROVE  SpInv'
  <2>1. /\ e \in DOMAIN sp_entities
        /\ SpMoved(e, p) /\ UNCHANGED <<sp_cell_size, sp_default, sp_cap, sp_client>>
    BY <1>2 DEF update_entity
  <2> QED BY <2>1, SpMovedInv
<1>3. ASSUME NEW e \in SpEntities, remove_entity(e) PROVE SpInv'
  BY <1>3, SpRemovedInv
<1>4. ASSUME NEW e \in SpEntities, NEW r \in SpRadii, set_entity_relevancy_radius(e, r)
      PROVE  SpInv'
  BY <1>4, SpRadiusInv
<1>5. ASSUME NEW p \in SpPoints, register_client(p) PROVE SpInv'
  <2>1. /\ sp_client' = IF sp_client = {} THEN {[pos |-> p, radius |-> 0]}
                        ELSE {[c EXCEPT !.pos = p] : c \in sp_client}
        /\ UNCHANGED <<sp_cell_size, sp_default, sp_cap, sp_entities, sp_cells>>
    BY <1>5 DEF register_client
  <2>2. CASE sp_client = {}
    <3>1. [pos |-> p, radius |-> 0] \in Client
      BY SpAssumption
    <3> QED BY <2>1, <2>2, <3>1, SpClientInv
  <2>3. ASSUME NEW c \in Client, sp_client = {c} PROVE SpInv'
    <3>1. sp_client' = {[c EXCEPT !.pos = p]}
      BY <2>1, <2>3
    <3>2. [c EXCEPT !.pos = p] \in Client
      OBVIOUS
    <3> QED BY <2>1, <3>1, <3>2, SpClientInv
  <2> QED BY <1>0, <2>2, <2>3
<1>6. CASE remove_client
  BY <1>6, SpClientInv DEF remove_client
<1>7. ASSUME NEW r \in SpRadii, set_client_view_radius(r) PROVE SpInv'
  <2>1. /\ sp_client' = {[c EXCEPT !.radius = r] : c \in sp_client}
        /\ UNCHANGED <<sp_cell_size, sp_default, sp_cap, sp_entities, sp_cells>>
    BY <1>7 DEF set_client_view_radius
  <2>2. CASE sp_client = {}
    BY <2>1, <2>2, SpClientInv
  <2>3. ASSUME NEW c \in Client, sp_client = {c} PROVE SpInv'
    <3>1. sp_client' = {[c EXCEPT !.radius = r]}
      BY <2>1, <2>3
    <3>2. [c EXCEPT !.radius = r] \in Client
      OBVIOUS
    <3> QED BY <2>1, <3>1, <3>2, SpClientInv
  <2> QED BY <1>0, <2>2, <2>3
<1>8. ASSUME NEW s \in SpCellSizes, set_cell_size(s) PROVE SpInv'
  <2>1. /\ sp_entities = << >> /\ sp_cell_size' = s
        /\ UNCHANGED <<sp_default, sp_cap, sp_entities, sp_client, sp_cells>>
    BY <1>8 DEF set_cell_size
  <2>2. DOMAIN << >> = {}
    OBVIOUS
  <2>3. SpTypeOK' /\ SpOneClient'
    BY <2>1 DEF SpInv, SpTypeOK, SpOneClient
  <2>4. SpPlaced'
    BY <2>1, <2>2 DEF SpPlaced
  <2>5. SpGrid(sp_cells)' /\ SpListed'
    BY <2>1 DEF SpInv, SpGrid, SpListed, SpIn
  <2> QED BY <2>3, <2>4, <2>5 DEF SpInv
<1>9. ASSUME NEW r \in SpDefaults, set_default_relevancy_radius(r) PROVE SpInv'
  <2>1. SpTypeOK' /\ SpOneClient' /\ UNCHANGED <<sp_cell_size, sp_entities, sp_cells>>
    BY <1>9 DEF set_default_relevancy_radius, SpInv, SpTypeOK, SpOneClient
  <2> QED BY <2>1, SpParametersInv
<1>10. ASSUME NEW n \in SpCaps, set_max_entities_per_client(n) PROVE SpInv'
  <2>1. SpTypeOK' /\ SpOneClient' /\ UNCHANGED <<sp_cell_size, sp_entities, sp_cells>>
    BY <1>10 DEF set_max_entities_per_client, SpInv, SpTypeOK, SpOneClient
  <2> QED BY <2>1, SpParametersInv
<1>11. CASE sp_clear
  <2>a. DOMAIN << >> = {}
    OBVIOUS
  <2>b. Cardinality({}) <= 1
    BY OneClientTyped
  <2>1. DOMAIN << >> = {} /\ Cardinality({}) <= 1
    BY <2>a, <2>b
  <2>2. /\ DOMAIN sp_entities' = {} /\ DOMAIN sp_cells' = {} /\ sp_client' = {}
        /\ UNCHANGED <<sp_cell_size, sp_default, sp_cap>>
    BY <1>11, <2>1 DEF sp_clear
  <2>3. SpTypeOK'
    BY <2>1, <2>2 DEF SpInv, SpTypeOK
  <2>4. SpOneClient' /\ SpPlaced'
    BY <2>2 DEF SpOneClient, SpPlaced
  <2>5. SpGrid(sp_cells)' /\ SpListed'
    BY <2>2 DEF SpGrid, SpListed, SpIn
  <2> QED BY <2>3, <2>4, <2>5 DEF SpInv
<1>12. CASE UNCHANGED sp_vars
  BY <1>12, SpStutter
<1> QED BY <1>1, <1>2, <1>3, <1>4, <1>5, <1>6, <1>7, <1>8, <1>9, <1>10, <1>11, <1>12
        DEF SpatialInterestNext

\* The cells around a sphere hold the cell of every point in it.
LEMMA InSphereInCells ==
  ASSUME SpTypeOK, NEW p \in SpPoints, NEW q \in SpPoints, NEW r \in Nat,
         DistSq(q, p) <= r * r
  PROVE  world_to_cell(q) \in CellsAround(p, r)
<1>1. /\ sp_cell_size \in Nat \ {0}
      /\ p[1] \in Int /\ p[2] \in Int /\ q[1] \in Int /\ q[2] \in Int
  BY SpAssumption DEF SpTypeOK
<1>2. PICK a \in Int, b \in Int : a = q[1] - p[1] /\ b = q[2] - p[2]
  BY <1>1
<1>3. a * a + b * b <= r * r
  BY <1>1, <1>2 DEF DistSq
<1>4. a * a \in Int /\ b * b \in Int
  BY <1>2
<1>5. b * b + a * a <= r * r
  BY <1>3, <1>4
<1>6. a <= r /\ -r <= a /\ b <= r /\ -r <= b
  BY <1>2, <1>3, <1>5, SquareBound
<1>7. /\ p[1] - r <= q[1] /\ q[1] <= p[1] + r
      /\ p[2] - r <= q[2] /\ q[2] <= p[2] + r
  BY <1>1, <1>2, <1>6
<1>8. /\ p[1] - r \in Int /\ p[1] + r \in Int /\ p[2] - r \in Int /\ p[2] + r \in Int
  BY <1>1
<1> DEFINE low == world_to_cell(<<p[1] - r, p[2] - r>>)
           high == world_to_cell(<<p[1] + r, p[2] + r>>)
           cell == world_to_cell(q)
<1>9. /\ low[1] <= cell[1] /\ cell[1] <= high[1]
      /\ low[1] \in Int /\ cell[1] \in Int /\ high[1] \in Int
  <2>1. /\ low[1] = (p[1] - r) \div sp_cell_size /\ high[1] = (p[1] + r) \div sp_cell_size
        /\ cell[1] = q[1] \div sp_cell_size
    BY DEF world_to_cell
  <2> QED BY <2>1, <1>1, <1>7, <1>8, DivMonotone
<1>10. /\ low[2] <= cell[2] /\ cell[2] <= high[2]
       /\ low[2] \in Int /\ cell[2] \in Int /\ high[2] \in Int
  <2>1. /\ low[2] = (p[2] - r) \div sp_cell_size /\ high[2] = (p[2] + r) \div sp_cell_size
        /\ cell[2] = q[2] \div sp_cell_size
    BY DEF world_to_cell
  <2> QED BY <2>1, <1>1, <1>7, <1>8, DivMonotone
<1>11. cell = <<cell[1], cell[2]>>
  BY DEF world_to_cell
<1>12. CellsAround(p, r) = (low[1] .. high[1]) \X (low[2] .. high[2])
  BY DEF CellsAround
<1> HIDE DEF low, high, cell
<1>13. cell[1] \in low[1] .. high[1] /\ cell[2] \in low[2] .. high[2]
  BY <1>9, <1>10
<1> QED BY <1>11, <1>12, <1>13 DEF cell

\* The invariant implies what the run checks.
LEMMA SpInvSound == SpInv => SpatialInterestInv
<1> SUFFICES ASSUME SpInv PROVE SpatialInterestInv
  OBVIOUS
<1>1. \A c \in DOMAIN sp_cells : \A i \in DOMAIN sp_cells[c] :
        /\ sp_cells[c][i] \in DOMAIN sp_entities
        /\ sp_entities[sp_cells[c][i]].cell = c
  BY DEF SpInv, SpListed, SpIn
<1>2. \A e \in DOMAIN sp_entities : SpIn(sp_cells, sp_entities[e].cell, e)
  BY DEF SpInv, SpListed
<1>3. SpIndex
  BY <1>1, <1>2 DEF SpInv, SpIndex, SpPlaced, SpGrid, NoTwins, SpIn
<1>4. SpQueryComplete
  <2> SUFFICES ASSUME NEW p \in SpPoints, NEW r \in SpRadii \ {0}
               PROVE  query_sphere(p, r) =
                        {e \in DOMAIN sp_entities : DistSq(sp_entities[e].pos, p) <= r * r}
    BY DEF SpQueryComplete
  <2>1. ASSUME NEW e \in DOMAIN sp_entities, DistSq(sp_entities[e].pos, p) <= r * r
        PROVE  \E c \in CellsAround(p, r) \cap DOMAIN sp_cells : e \in Range(sp_cells[c])
    <3>1. sp_entities[e].pos \in SpPoints
      BY DEF SpInv, SpTypeOK, SpEntry
    <3>2. sp_entities[e].cell = world_to_cell(sp_entities[e].pos)
      BY DEF SpInv, SpPlaced
    <3>3. r \in Nat /\ SpTypeOK
      BY SpAssumption DEF SpInv
    <3>4. sp_entities[e].cell \in CellsAround(p, r)
      BY <2>1, <3>1, <3>2, <3>3, InSphereInCells
    <3> QED BY <1>2, <3>4 DEF SpIn, Range
  <2> QED BY <2>1 DEF query_sphere
<1> QED BY <1>3, <1>4 DEF SpatialInterestInv, SpInv

\* The grid follows the entities through every registration, move and removal, and a
\* query through it finds what a look at every entity would find, as long as the cell
\* size is only set while there are no entities.
THEOREM SpatialInterestInvHolds ==
  ASSUME SpDisciplined
  PROVE  SpatialInterestSpec => []SpatialInterestInv
<1>1. SpInv /\ [SpatialInterestNext]_sp_vars => SpInv'
  BY SpStepInv
<1> QED BY <1>1, SpInitInv, SpInvSound, PTL DEF SpatialInterestSpec

-----------------------------------------------------------------------------
(* LagCompensator.                                                         *)

\* The snapshot of a tick: its id, the state of its time for each entity it holds, and
\* every entity that had just changed.
LagHonest(slot, past, s) ==
  /\ slot.id = LagWire(s)
  /\ \A e \in LagEntities :
       /\ slot.entities[e] \in {past[s][e], LagAbsent}
       /\ past[s][e] = s => slot.entities[e] = s

\* The slot that is d ticks behind the newest.
LagBehind(head, d) == (head + LagRing - d) % LagRing

\* The ring holds the ticks since the last one without clients, back from the head.
LagRinged ==
  /\ lag_count = LagRing \/ lag_count >= lag_server - lag_idle
  /\ \A s \in LagTicks :
       lag_idle < s /\ s <= lag_server /\ lag_server - s < LagRing =>
         LagHonest(lag_snapshots[LagBehind(lag_head, lag_server - s)], lag_past, s)

\* A state is never newer than the tick it is the state of.
LagOrdered == \A s \in LagTicks, e \in LagEntities : lag_past[s][e] <= s

LagInv == LagTypeOK /\ LagOrdered /\ LagRinged

\* Going back in the ring, without the remainder.
LEMMA LagBehindIs ==
  ASSUME NEW h \in LagSlots, NEW d \in LagSlots
  PROVE  LagBehind(h, d) = IF h >= d THEN h - d ELSE h + LagRing - d
<1>0. LagRing \in Nat \ {0}
  BY LagAssumption
<1>1. PICK R \in Nat \ {0} : R = LagRing
  BY <1>0
<1>2. h \in 0 .. R - 1 /\ d \in 0 .. R - 1
  BY <1>1 DEF LagSlots
<1>3. CASE h >= d
  <2>1. R * 1 + (h - d) = h + R - d /\ h - d \in 0 .. R - 1
    BY <1>2, <1>3
  <2>2. (R * 1 + (h - d)) % R = h - d
    BY <2>1, ModUnique
  <2> QED BY <2>1, <2>2, <1>1, <1>3 DEF LagBehind
<1>4. CASE h < d
  <2>1. h + R - d \in 0 .. R - 1
    BY <1>2, <1>4
  <2>2. (h + R - d) % R = h + R - d
    BY <2>1
  <2> QED BY <2>2, <1>1, <1>2, <1>4 DEF LagBehind
<1> QED BY <1>2, <1>3, <1>4

\* The next slot of the ring.
LEMMA LagNextSlot ==
  ASSUME NEW h \in LagSlots
  PROVE  (h + 1) % LagRing = IF h + 1 = LagRing THEN 0 ELSE h + 1
<1>0. LagRing \in Nat \ {0}
  BY LagAssumption
<1>1. CASE h + 1 = LagRing
  BY <1>0, <1>1
<1>2. CASE h + 1 # LagRing
  <2>1. h + 1 \in 0 .. LagRing - 1
    BY <1>0, <1>2 DEF LagSlots
  <2> QED BY <1>0, <1>2, <2>1
<1> QED BY <1>1, <1>2

\* The history starts empty.
LEMMA LagInitInv == LagInit => LagInv
<1> SUFFICES ASSUME LagInit PROVE LagInv
  OBVIOUS
<1>0. LagRing \in Nat \ {0} /\ LagTickMod \in Nat \ {0} /\ LagMaxTick \in Nat
  BY LagAssumption
<1>1. LagTypeOK
  BY <1>0 DEF LagInit, LagTypeOK, LagSlots, LagTicks
<1>2. LagRinged /\ LagOrdered
  BY <1>0 DEF LagInit, LagRinged, LagOrdered, LagTicks
<1> QED BY <1>1, <1>2 DEF LagInv

\* What a tick does to the states of the past: it adds its own.
LEMMA LagPastStep ==
  ASSUME LagTypeOK, LagOrdered, NEW changed \in SUBSET LagEntities, LagGameTick(changed),
         NEW n \in Int, n = lag_server + 1
  PROVE  /\ lag_server \in LagTicks /\ n \in LagTicks /\ lag_server' = n
         /\ lag_past' \in [LagTicks -> [LagEntities -> LagTicks]]
         /\ LagOrdered'
         /\ \A s \in LagTicks : s # n => lag_past'[s] = lag_past[s]
         /\ \A e \in LagEntities : lag_past'[n][e] = n => e \in changed
<1>0. LagMaxTick \in Nat
  BY LagAssumption
<1>1. /\ lag_server \in LagTicks /\ n \in LagTicks /\ lag_server < n
      /\ lag_server' = n
  BY <1>0 DEF LagTypeOK, LagTicks, LagGameTick
<1> DEFINE now == [e \in LagEntities |-> IF e \in changed THEN n ELSE lag_past[lag_server][e]]
<1>2. lag_past \in [LagTicks -> [LagEntities -> LagTicks]]
  BY DEF LagTypeOK
<1>3. now \in [LagEntities -> LagTicks]
  BY <1>1, <1>2
<1>4. lag_past' = [lag_past EXCEPT ![n] = now]
  BY DEF LagGameTick
<1>5. \A e \in LagEntities : now[e] <= n /\ (now[e] = n => e \in changed)
  BY <1>0, <1>1, <1>2 DEF LagOrdered, LagTicks
<1> HIDE DEF now
<1>6. /\ lag_past' \in [LagTicks -> [LagEntities -> LagTicks]]
      /\ lag_past'[n] = now
      /\ \A s \in LagTicks : s # n => lag_past'[s] = lag_past[s]
  BY <1>1, <1>2, <1>3, <1>4
<1>7. LagOrdered'
  BY <1>5, <1>6 DEF LagOrdered
<1> QED BY <1>1, <1>5, <1>6, <1>7

\* A tick that is stored keeps the invariant.
LEMMA LagStoreKeeps ==
  ASSUME LagInv, NEW changed \in SUBSET LagEntities, NEW full \in BOOLEAN,
         lag_store(changed, full)
  PROVE  LagInv'
<1>0. LagRing \in Nat \ {0} /\ LagTickMod \in Nat \ {0} /\ LagMaxTick \in Nat
  BY LagAssumption
<1>1. /\ LagTypeOK /\ LagOrdered
      /\ lag_head \in LagSlots /\ lag_count \in 0 .. LagRing
      /\ lag_server \in 0 .. LagMaxTick /\ lag_idle \in 0 .. lag_server
      /\ lag_snapshots \in [LagSlots -> [id : 0 .. LagTickMod - 1,
                                        entities : [LagEntities -> LagTicks \cup {LagAbsent}]]]
  BY DEF LagInv, LagTypeOK, LagTicks
<1>2. PICK n \in Int : n = lag_server + 1
  BY <1>1
<1>3. PICK head : head = (lag_head + 1) % LagRing
  OBVIOUS
<1> DEFINE new == [id |-> LagWire(n), entities |-> LagStored(changed, full)]
<1>4. /\ LagGameTick(changed) /\ lag_idle' = lag_idle /\ lag_head' = head
      /\ lag_snapshots' = [lag_snapshots EXCEPT ![head] = new]
      /\ lag_count' = IF lag_count < LagRing THEN lag_count + 1 ELSE lag_count
  BY <1>2, <1>3 DEF lag_store
<1>5. /\ lag_server \in LagTicks /\ n \in LagTicks /\ lag_server' = n
      /\ lag_past' \in [LagTicks -> [LagEntities -> LagTicks]]
      /\ LagOrdered'
      /\ \A s \in LagTicks : s # n => lag_past'[s] = lag_past[s]
      /\ \A e \in LagEntities : lag_past'[n][e] = n => e \in changed
  BY <1>1, <1>2, <1>4, LagPastStep
<1>6. head = (IF lag_head + 1 = LagRing THEN 0 ELSE lag_head + 1) /\ head \in LagSlots
  BY <1>0, <1>1, <1>3, LagNextSlot DEF LagSlots
<1>7. LagWire(n) \in 0 .. LagTickMod - 1
  BY <1>0 DEF LagWire
<1>8. /\ LagStored(changed, full) \in [LagEntities -> LagTicks \cup {LagAbsent}]
      /\ \A e \in LagEntities :
           /\ LagStored(changed, full)[e] \in {lag_past'[n][e], LagAbsent}
           /\ lag_past'[n][e] = n => LagStored(changed, full)[e] = n
  BY <1>2, <1>5 DEF LagStored
<1>9. /\ new \in [id : 0 .. LagTickMod - 1, entities : [LagEntities -> LagTicks \cup {LagAbsent}]]
      /\ LagHonest(new, lag_past', n)
  BY <1>7, <1>8 DEF LagHonest
<1> HIDE DEF new
<1>10. /\ lag_snapshots' \in [LagSlots -> [id : 0 .. LagTickMod - 1,
                                         entities : [LagEntities -> LagTicks \cup {LagAbsent}]]]
       /\ lag_snapshots'[head] = new
       /\ \A i \in LagSlots : i # head => lag_snapshots'[i] = lag_snapshots[i]
  BY <1>1, <1>4, <1>6, <1>9
<1>11. LagTypeOK'
  <2>1. lag_count' \in 0 .. LagRing /\ lag_idle' \in 0 .. lag_server'
    BY <1>0, <1>1, <1>2, <1>4, <1>5
  <2> QED BY <2>1, <1>4, <1>5, <1>6, <1>10 DEF LagTypeOK
<1>12. lag_count' = LagRing \/ lag_count' >= lag_server' - lag_idle'
  <2>1. lag_count = LagRing \/ lag_count >= lag_server - lag_idle
    BY DEF LagInv, LagRinged
  <2> QED BY <2>1, <1>0, <1>1, <1>2, <1>4, <1>5
<1>13. ASSUME NEW s \in LagTicks, lag_idle' < s, s <= lag_server', lag_server' - s < LagRing
       PROVE  LagHonest(lag_snapshots'[LagBehind(lag_head', lag_server' - s)], lag_past', s)
  <2>1. s \in Int /\ lag_idle < s /\ s <= n /\ n - s < LagRing
    BY <1>0, <1>4, <1>5, <1>13 DEF LagTicks
  <2>2. n - s \in LagSlots
    BY <1>0, <2>1 DEF LagSlots
  <2>3. LagBehind(head, n - s) = IF head >= n - s THEN head - (n - s) ELSE head + LagRing - (n - s)
    BY <1>6, <2>2, LagBehindIs
  <2>4. CASE s = n
    <3>1. LagBehind(head, n - s) = head
      BY <2>3, <2>4, <1>6 DEF LagSlots
    <3> QED BY <3>1, <2>4, <1>4, <1>5, <1>9, <1>10
  <2>5. CASE s # n
    <3>1. s <= lag_server /\ lag_server - s < LagRing /\ lag_server - s \in LagSlots
      BY <1>0, <1>1, <1>2, <2>1, <2>5 DEF LagSlots
    <3>2. LagBehind(lag_head, lag_server - s) =
            IF lag_head >= lag_server - s THEN lag_head - (lag_server - s)
            ELSE lag_head + LagRing - (lag_server - s)
      BY <1>1, <3>1, LagBehindIs
    <3>a. PICK R \in Nat, h \in Nat, d \in Nat :
            R = LagRing /\ h = lag_head /\ d = lag_server - s /\ h <= R - 1 /\ d <= R - 1
      <4>1. LagRing \in Nat /\ lag_head \in Nat /\ lag_head <= LagRing - 1
        BY <1>0, <1>1 DEF LagSlots
      <4>2. lag_server - s \in Nat /\ lag_server - s <= LagRing - 1
        BY <1>0, <3>1 DEF LagSlots
      <4> QED BY <4>1, <4>2
    <3>b. n - s = d + 1
      BY <1>1, <1>2, <2>1, <3>a
    <3>c. head = (IF h + 1 = R THEN 0 ELSE h + 1) /\ d + 1 <= R - 1
      BY <1>6, <2>2, <3>a, <3>b DEF LagSlots
    <3>d. LagBehind(head, n - s) = IF head >= d + 1 THEN head - (d + 1) ELSE head + R - (d + 1)
      BY <2>3, <3>a, <3>b
    <3>e. LagBehind(lag_head, lag_server - s) = IF h >= d THEN h - d ELSE h + R - d
      BY <3>2, <3>a
    <3>3. LagBehind(head, n - s) = LagBehind(lag_head, lag_server - s)
      BY <3>c, <3>d, <3>e
    <3>4. LagBehind(head, n - s) \in LagSlots /\ LagBehind(head, n - s) # head
      BY <1>0, <1>1, <1>2, <1>6, <2>1, <2>2, <2>3, <2>5 DEF LagSlots
    <3>5. LagHonest(lag_snapshots[LagBehind(lag_head, lag_server - s)], lag_past, s)
      BY <1>1, <2>1, <3>1 DEF LagInv, LagRinged
    <3>6. lag_past'[s] = lag_past[s]
      BY <1>5, <2>5
    <3> QED BY <1>4, <1>5, <1>10, <3>3, <3>4, <3>5, <3>6 DEF LagHonest
  <2> QED BY <2>4, <2>5
<1>14. LagRinged'
  BY <1>12, <1>13 DEF LagRinged
<1> QED BY <1>5, <1>11, <1>14 DEF LagInv

\* So does one without clients: no tick is left whose snapshot is looked for.
LEMMA LagIdleKeeps ==
  ASSUME LagInv, NEW changed \in SUBSET LagEntities, lag_idle_tick(changed)
  PROVE  LagInv'
<1>0. LagRing \in Nat \ {0} /\ LagMaxTick \in Nat
  BY LagAssumption
<1>1. /\ LagTypeOK /\ LagOrdered /\ lag_count \in 0 .. LagRing
      /\ lag_server \in 0 .. LagMaxTick
  BY DEF LagInv, LagTypeOK, LagTicks
<1>2. PICK n \in Int : n = lag_server + 1
  BY <1>1
<1>3. /\ LagGameTick(changed) /\ lag_idle' = n
      /\ UNCHANGED <<lag_snapshots, lag_head, lag_count>>
  BY <1>2 DEF lag_idle_tick
<1>4. /\ n \in LagTicks /\ lag_server' = n
      /\ lag_past' \in [LagTicks -> [LagEntities -> LagTicks]]
      /\ LagOrdered'
  BY <1>1, <1>2, <1>3, LagPastStep
<1>5. n \in 0 .. n
  BY <1>1, <1>2
<1>6. LagTypeOK'
  BY <1>1, <1>3, <1>4, <1>5 DEF LagTypeOK
<1>7. LagRinged'
  <2>1. lag_count' >= lag_server' - lag_idle'
    BY <1>0, <1>1, <1>3, <1>4
  <2>2. \A s \in LagTicks : ~(lag_idle' < s /\ s <= lag_server')
    BY <1>0, <1>3, <1>4 DEF LagTicks
  <2> QED BY <2>1, <2>2 DEF LagRinged
<1> QED BY <1>4, <1>6, <1>7 DEF LagInv

\* Every step of the compensator's history keeps the invariant.
LEMMA LagStepInv == LagInv /\ [LagNext]_lag_vars => LagInv'
<1> SUFFICES ASSUME LagInv, [LagNext]_lag_vars PROVE LagInv'
  OBVIOUS
<1>1. CASE UNCHANGED lag_vars
  BY <1>1 DEF lag_vars, LagInv, LagTypeOK, LagOrdered, LagRinged
<1>2. CASE LagNext
  BY <1>2, LagStoreKeeps, LagIdleKeeps DEF LagNext
<1> QED BY <1>1, <1>2

\* The offset of a round trip in ticks is a natural number.
LEMMA TickOffsetNat ==
  ASSUME NEW rtt \in LagRtts PROVE TickOffset(rtt) \in Nat
<1>1. rtt + LagInterval \in Nat /\ 2 * LagInterval \in Nat \ {0}
  BY LagAssumption
<1> DEFINE a == rtt + LagInterval
           b == 2 * LagInterval
<1> HIDE DEF a, b
<1>2. a \in Nat /\ b \in Nat \ {0}
  BY <1>1 DEF a, b
<1>3. a \div b \in Nat
  BY <1>2
<1> QED BY <1>3 DEF a, b, TickOffset

\* The distance between the newest id and the one of a tick that is asked for.
LagGap(M, server, t, off) == ((server % M) - ((t % M) - off)) % M

\* It is the distance between the two ticks, whatever has wrapped.
LEMMA LagDelta ==
  ASSUME NEW M \in Nat \ {0}, NEW server \in Int, NEW t \in Int, NEW off \in Int,
         NEW d \in 0 .. M - 1, server - (t - off) = d
  PROVE  LagGap(M, server, t, off) = d
<1>1. PICK q \in Int, r \in 0 .. M - 1 : server = M * q + r /\ server % M = r
  BY ModWhole
<1>2. PICK u \in Int, v \in 0 .. M - 1 : t = M * u + v /\ t % M = v
  BY ModWhole
<1>3. PICK k \in Int : k = u - q
  OBVIOUS
<1>4. M * k = M * u - M * q
  BY <1>3
<1>5. r - (v - off) = M * k + d
  BY <1>1, <1>2, <1>4
<1>6. (M * k + d) % M = d
  BY ModUnique
<1> QED BY <1>1, <1>2, <1>5, <1>6 DEF LagGap

\* The invariant implies that a rewind finds the state asked for.
LEMMA LagInvSound == LagInv => LagRewinds
<1> SUFFICES ASSUME LagInv, NEW t \in 1 .. lag_server, NEW rtt \in LagRtts,
                    NEW seen, seen = t - TickOffset(rtt),
                    NEW w, w = get_rewind_tick(LagWire(t), rtt),
                    TickOffset(rtt) <= LagWire(t),
                    seen > lag_idle, seen > lag_server - LagTickMod
             PROVE  /\ seen > lag_server - LagRing => HistoryHas(w)
                    /\ HistoryHas(w) =>
                         \A e \in LagEntities :
                           /\ HistoryState(w, e) \in {lag_past[seen][e], LagAbsent}
                           /\ lag_past[seen][e] = seen => HistoryState(w, e) = seen
  BY DEF LagRewinds
<1>0. /\ LagRing \in Nat \ {0} /\ LagTickMod \in Nat \ {0} /\ LagMaxTick \in Nat
      /\ LagRing < LagTickMod
  BY LagAssumption
<1>1. /\ lag_server \in 0 .. LagMaxTick /\ lag_idle \in 0 .. lag_server
      /\ lag_count \in 0 .. LagRing /\ lag_head \in LagSlots
  BY DEF LagInv, LagTypeOK, LagTicks
<1>2. PICK off \in Nat : off = TickOffset(rtt)
  BY TickOffsetNat
<1>3. seen \in Int /\ seen = t - off /\ seen \in 1 .. lag_server /\ seen \in LagTicks
  BY <1>0, <1>1, <1>2 DEF LagTicks
<1>4. LagWire(t) \in Int /\ w = (t % LagTickMod) - off
  BY <1>0, <1>1, <1>2 DEF LagWire, get_rewind_tick
<1>5. /\ lag_count = LagRing \/ lag_count >= lag_server - lag_idle
      /\ \A s \in LagTicks :
           lag_idle < s /\ s <= lag_server /\ lag_server - s < LagRing =>
             LagHonest(lag_snapshots[LagBehind(lag_head, lag_server - s)], lag_past, s)
  BY DEF LagInv, LagRinged
<1>6. lag_snapshots[lag_head].id = lag_server % LagTickMod
  <2>1. lag_server \in LagTicks /\ lag_idle < lag_server /\ lag_server - lag_server = 0
    BY <1>0, <1>1, <1>3 DEF LagTicks
  <2>2. LagHonest(lag_snapshots[LagBehind(lag_head, 0)], lag_past, lag_server)
    BY <2>1, <1>0, <1>1, <1>5
  <2>3. 0 \in LagSlots
    BY <1>0 DEF LagSlots
  <2>4. LagBehind(lag_head, 0) = lag_head
    BY <2>3, <1>1, LagBehindIs DEF LagSlots
  <2> QED BY <2>2, <2>4 DEF LagHonest, LagWire
<1>7. PICK d \in 0 .. LagTickMod - 1 : d = lag_server - seen
  BY <1>0, <1>1, <1>3
<1>8. HistoryDelta(w) = d
  <2>1. lag_server \in Int /\ t \in Int /\ off \in Int /\ lag_server - (t - off) = d
    BY <1>0, <1>1, <1>2, <1>3, <1>7
  <2>2. LagGap(LagTickMod, lag_server, t, off) = d
    <3>1. LagTickMod \in Nat \ {0} /\ d \in 0 .. LagTickMod - 1
      BY <1>0, <1>7
    <3> QED BY <2>1, <3>1, <1>2, LagDelta
  <2> QED BY <2>2, <1>4, <1>6 DEF HistoryDelta, LagGap
<1>9. HistoryHas(w) <=> lag_count > 0 /\ d < lag_count
  BY <1>8 DEF HistoryHas
<1>10. seen > lag_server - LagRing => HistoryHas(w)
  BY <1>0, <1>1, <1>3, <1>5, <1>7, <1>9
<1>11. ASSUME HistoryHas(w), NEW e \in LagEntities
       PROVE  /\ HistoryState(w, e) \in {lag_past[seen][e], LagAbsent}
              /\ lag_past[seen][e] = seen => HistoryState(w, e) = seen
  <2>1. d < LagRing
    BY <1>0, <1>1, <1>7, <1>9, <1>11
  <2>2. LagHonest(lag_snapshots[LagBehind(lag_head, lag_server - seen)], lag_past, seen)
    BY <2>1, <1>3, <1>5, <1>7
  <2>3. HistoryState(w, e) = lag_snapshots[LagBehind(lag_head, d)].entities[e]
    BY <1>8 DEF HistoryState, HistorySlot, LagBehind
  <2> QED BY <1>7, <2>2, <2>3 DEF LagHonest
<1> QED BY <1>10, <1>11

\* Lag compensation looks at the state that the client saw when it acted, for every
\* length of the ring and width of the ids, also when they wrap: while the ring holds
\* the tick it is found, with the states of that tick for what was stored of it.
THEOREM LagRewindsHolds ==
  LagSpec => [](LagTypeOK /\ LagRewinds)
<1>1. LagInv /\ [LagNext]_lag_vars => LagInv'
  BY LagStepInv
<1>2. LagInv => LagTypeOK /\ LagRewinds
  BY LagInvSound DEF LagInv
<1> QED BY <1>1, <1>2, LagInitInv, PTL DEF LagSpec

-----------------------------------------------------------------------------
(* InputBuffer.                                                            *)

\* The ticks that can be asked for or be on their way are close to each other: no two
\* share a slot, and the wrapped comparison of two of them is the right one.
IbFits ==
  /\ IbLead <= IbRing /\ IbDelay <= IbRing
  /\ IbLead + IbDelay <= IbTickMod \div 2

\* The client is at most IbLead ticks ahead; an input arrives within IbDelay ticks.
IbWindow ==
  /\ ib_pruned <= ib_tick /\ ib_tick <= ib_pruned + IbLead
  /\ \A t \in ib_flight : t <= ib_tick /\ ib_tick - t < IbDelay
  /\ \A t \in ib_stored : ib_pruned < t /\ t <= ib_tick

\* What a slot holds was sent not long before the last tick that was pruned.
IbHonest(b) ==
  \A i \in IbSlots :
    b[i].tick # 0 =>
      /\ b[i].input \in IbFirst .. IbMaxTick
      /\ b[i].tick = IbWire(b[i].input)
      /\ ib_pruned - IbDelay < b[i].input /\ b[i].input <= ib_tick

IbInv == IbTypeOK /\ IbWindow /\ (ib_buffer # IbNoBuffer => IbHonest(ib_buffer)) /\ IbKept

\* What the assumptions say of the ring.
LEMMA IbConstants ==
  /\ IbTickMod \in Nat \ {0} /\ IbRing \in Nat \ {0} /\ IbTickMod % IbRing = 0
  /\ IbTickMod = 2 * (IbTickMod \div 2) /\ IbTickMod \div 2 \in Nat
  /\ IbDelay \in Nat /\ IbLead \in Nat
  /\ IbMaxTick \in Nat /\ IbFirst \in 0 .. IbMaxTick
BY IbAssumption

\* The slot of a tick and its value on the wire.
LEMMA IbSlotFacts ==
  ASSUME NEW t \in Nat
  PROVE  /\ IbWire(t) \in 0 .. IbTickMod - 1
         /\ IbWire(t) % IbRing \in IbSlots
         /\ IbWire(t) % IbRing = t % IbRing
<1>1. IbWire(t) \in 0 .. IbTickMod - 1
  BY IbConstants DEF IbWire
<1>2. PICK w \in 0 .. IbTickMod - 1 : w = IbWire(t)
  BY <1>1
<1>3. w % IbRing \in 0 .. IbRing - 1
  BY IbConstants
<1>4. t \in Int
  OBVIOUS
<1>5. (t % IbTickMod) % IbRing = t % IbRing
  BY <1>4, IbConstants, ModOfMod
<1> QED BY <1>1, <1>2, <1>3, <1>5 DEF IbWire, IbSlots

\* A list of slots is not the absence of a list.
LEMMA IbBufferIsSome ==
  ASSUME NEW b, DOMAIN b = IbSlots
  PROVE  b # IbNoBuffer
<1>1. 0 \in IbSlots
  BY IbConstants DEF IbSlots
<1>2. DOMAIN IbNoBuffer = {}
  BY DEF IbNoBuffer
<1> QED BY <1>1, <1>2

\* The entry of an empty slot is an entry.
LEMMA IbEmptyTyped == IbEmptyEntry \in IbEntry /\ IbEmptyEntry.tick = 0
BY IbConstants DEF IbEmptyEntry, IbEntry

\* The buffer starts empty.
LEMMA IbInitInv == InputBufferInit => IbInv
<1> SUFFICES ASSUME InputBufferInit PROVE IbInv
  OBVIOUS
<1>1. IbTypeOK
  BY IbConstants DEF InputBufferInit, IbTypeOK
<1>2. IbWindow
  BY IbConstants DEF InputBufferInit, IbWindow
<1> QED BY <1>1, <1>2 DEF IbInv, InputBufferInit, IbKept

\* Storing an input: the ring that was there, or a new one, with the slot replaced.
LEMMA IbStoreInv ==
  ASSUME IbFits, IbInv, NEW t \in ib_flight, ib_store(t)
  PROVE  IbInv'
<1> DEFINE n == [tick |-> IbWire(t), input |-> t]
           s == IbWire(t) % IbRing
<1>1. /\ ib_buffer' = [IbBuffer EXCEPT ![s] = n]
      /\ ib_stored' = {u \in ib_stored \cup {t} : u > ib_pruned}
      /\ ib_flight' = ib_flight \/ ib_flight' = ib_flight \ {t}
      /\ UNCHANGED <<ib_tick, ib_pruned>>
  BY DEF ib_store
<1>2. /\ ib_tick \in IbFirst .. IbMaxTick /\ ib_pruned \in IbFirst .. IbMaxTick
      /\ ib_flight \subseteq IbFirst .. IbMaxTick /\ ib_stored \subseteq IbFirst .. IbMaxTick
      /\ t \in IbFirst .. IbMaxTick /\ t \in Nat
  BY IbConstants DEF IbInv, IbTypeOK
<1>3. /\ n \in IbEntry /\ n.tick = IbWire(t) /\ n.input = t
      /\ s \in IbSlots /\ s = t % IbRing
  BY <1>2, IbSlotFacts DEF IbEntry
<1>4. /\ ib_pruned <= ib_tick /\ ib_tick <= ib_pruned + IbLead
      /\ \A u \in ib_flight : u <= ib_tick /\ ib_tick - u < IbDelay
      /\ \A u \in ib_stored : ib_pruned < u /\ u <= ib_tick
  BY DEF IbInv, IbWindow
<1> HIDE DEF n, s
<1>5. IbBuffer \in [IbSlots -> IbEntry] /\ IbHonest(IbBuffer)
  <2>1. CASE ib_buffer = IbNoBuffer
    <3>1. IbBuffer = [i \in IbSlots |-> IbEmptyEntry]
      BY <2>1 DEF IbBuffer
    <3> QED BY <3>1, IbEmptyTyped DEF IbHonest
  <2>2. CASE ib_buffer # IbNoBuffer
    BY <2>2 DEF IbBuffer, IbInv, IbTypeOK
  <2> QED BY <2>1, <2>2
<1>6. PICK b : b = ib_buffer'
  OBVIOUS
<1>7. /\ b \in [IbSlots -> IbEntry] /\ b[s] = n
      /\ \A i \in IbSlots : i # s => b[i] = IbBuffer[i]
  BY <1>1, <1>3, <1>5, <1>6
<1>8. b # IbNoBuffer
  BY <1>7, IbBufferIsSome
<1>9. IbTypeOK'
  BY <1>1, <1>2, <1>6, <1>7 DEF IbTypeOK
<1>10. IbWindow'
  BY <1>1, <1>4 DEF IbWindow
<1>11. ASSUME NEW i \in IbSlots, b[i].tick # 0
       PROVE  /\ b[i].input \in IbFirst .. IbMaxTick
              /\ b[i].tick = IbWire(b[i].input)
              /\ ib_pruned - IbDelay < b[i].input /\ b[i].input <= ib_tick
  <2>1. CASE i = s
    BY <2>1, <1>2, <1>3, <1>4, <1>7, IbConstants
  <2>2. CASE i # s
    BY <2>2, <1>5, <1>7, <1>11 DEF IbHonest
  <2> QED BY <2>1, <2>2
<1>12. IbHonest(ib_buffer)'
  BY <1>1, <1>6, <1>11 DEF IbHonest
<1>13. ASSUME NEW u \in ib_stored'
       PROVE  b[IbWire(u) % IbRing].tick = IbWire(u) /\ b[IbWire(u) % IbRing].input = u
  <2>1. CASE u = t
    BY <2>1, <1>3, <1>7 DEF s
  <2>2. CASE u # t
    <3>1. u \in ib_stored /\ u \in Nat
      BY <2>2, <1>1, <1>2, IbConstants
    <3>2. /\ ib_buffer # IbNoBuffer
          /\ ib_buffer[IbWire(u) % IbRing].tick = IbWire(u)
          /\ ib_buffer[IbWire(u) % IbRing].input = u
      BY <3>1 DEF IbInv, IbKept, ib_has, ib_retrieve
    <3>3. IbBuffer = ib_buffer
      BY <3>2 DEF IbBuffer
    <3>4. t - u < IbRing /\ u - t < IbRing /\ t \in Int /\ u \in Int
      BY <3>1, <1>2, <1>4, IbConstants DEF IbFits
    <3>5. t % IbRing # u % IbRing
      BY <3>4, <2>2, IbConstants, ModApart
    <3>6. IbWire(u) % IbRing \in IbSlots /\ IbWire(u) % IbRing = u % IbRing
      BY <3>1, IbSlotFacts
    <3> QED BY <3>2, <3>3, <3>5, <3>6, <1>3, <1>7
  <2> QED BY <2>1, <2>2
<1>14. IbKept'
  BY <1>6, <1>8, <1>13 DEF IbKept, ib_has, ib_retrieve
<1> QED BY <1>9, <1>10, <1>12, <1>14 DEF IbInv

\* The comparison that prunes: right for ticks less than half of their range apart.
LEMMA IbDiffSign ==
  ASSUME IbFits, NEW a \in Nat, NEW b \in Nat,
         a - b < IbTickMod \div 2, b - a <= IbTickMod \div 2
  PROVE  IbSignedDiff(IbWire(a), IbWire(b)) >= 0 <=> b <= a
<1>1. PICK h \in Nat : h = IbTickMod \div 2 /\ IbTickMod = 2 * h
  BY IbConstants
<1>2. (IbWire(a) - IbWire(b)) % IbTickMod = (a - b) % IbTickMod
  <2>1. a \in Int /\ b \in Int
    OBVIOUS
  <2> QED BY <2>1, IbConstants, ModMinus DEF IbWire
<1>3. CASE b <= a
  <2>1. (a - b) % IbTickMod = a - b
    BY <1>1, <1>3, IbConstants
  <2> QED BY <1>1, <1>2, <1>3, <2>1 DEF IbSignedDiff
<1>4. CASE b > a
  <2>1. PICK d \in 0 .. IbTickMod - 1 : d = IbTickMod - (b - a)
    BY <1>1, <1>4, IbConstants
  <2>2. a - b = IbTickMod * (-1) + d
    BY <2>1, IbConstants
  <2>3. (IbTickMod * (-1) + d) % IbTickMod = d
    BY IbConstants, ModUnique
  <2>4. (a - b) % IbTickMod = d /\ d >= h /\ d < IbTickMod
    BY <2>1, <2>2, <2>3, <1>1
  <2>5. IbSignedDiff(IbWire(a), IbWire(b)) = d - IbTickMod
    BY <1>1, <1>2, <2>4 DEF IbSignedDiff
  <2> QED BY <2>4, <2>5, <1>1, <1>4
<1> QED BY <1>3, <1>4

\* Pruning keeps the invariant.
LEMMA IbPruneInv ==
  ASSUME IbFits, IbInv, NEW t \in IbFirst .. IbMaxTick, prune_up_to(t)
  PROVE  IbInv'
<1>1. /\ t > ib_pruned /\ t <= ib_tick /\ ib_pruned' = t
      /\ ib_buffer' = IF ib_buffer = IbNoBuffer THEN IbNoBuffer
                      ELSE [i \in IbSlots |-> IF IbPruned(ib_buffer[i], t) THEN IbEmptyEntry
                                              ELSE ib_buffer[i]]
      /\ ib_stored' = {u \in ib_stored : u > t}
      /\ UNCHANGED <<ib_tick, ib_flight>>
  BY DEF prune_up_to
<1>2. /\ ib_tick \in IbFirst .. IbMaxTick /\ ib_pruned \in IbFirst .. IbMaxTick
      /\ ib_flight \subseteq IbFirst .. IbMaxTick /\ ib_stored \subseteq IbFirst .. IbMaxTick
      /\ t \in Nat /\ ib_tick \in Nat /\ ib_pruned \in Nat
  BY IbConstants DEF IbInv, IbTypeOK
<1>3. /\ ib_pruned <= ib_tick /\ ib_tick <= ib_pruned + IbLead
      /\ \A u \in ib_flight : u <= ib_tick /\ ib_tick - u < IbDelay
      /\ \A u \in ib_stored : ib_pruned < u /\ u <= ib_tick
  BY DEF IbInv, IbWindow
<1>4. IbWindow'
  BY <1>1, <1>2, <1>3, IbConstants DEF IbWindow
<1>5. CASE ib_buffer = IbNoBuffer
  <2>1. ib_stored = {}
    BY <1>5 DEF IbInv, IbKept, ib_has
  <2>2. ib_buffer' = IbNoBuffer /\ ib_stored' = {}
    BY <1>1, <1>5, <2>1
  <2>3. IbTypeOK'
    BY <1>1, <1>2, <2>2 DEF IbTypeOK
  <2> QED BY <1>4, <2>2, <2>3 DEF IbInv, IbKept
<1>6. CASE ib_buffer # IbNoBuffer
  <2>1. PICK b : b = [i \in IbSlots |-> IF IbPruned(ib_buffer[i], t) THEN IbEmptyEntry
                                        ELSE ib_buffer[i]]
    OBVIOUS
  <2>2. ib_buffer \in [IbSlots -> IbEntry] /\ IbHonest(ib_buffer)
    BY <1>6 DEF IbInv, IbTypeOK
  <2>3. b \in [IbSlots -> IbEntry] /\ b = ib_buffer' /\ b # IbNoBuffer
    <3>1. b \in [IbSlots -> IbEntry]
      BY <2>1, <2>2, IbEmptyTyped
    <3> QED BY <3>1, <1>1, <1>6, <2>1, IbBufferIsSome
  <2>4. IbTypeOK'
    BY <1>1, <1>2, <2>3 DEF IbTypeOK
  \* What a slot holds of a tick close to t goes exactly if it is not newer than t.
  <2>5. ASSUME NEW u \in Nat, ib_pruned - IbDelay < u, u <= ib_tick
        PROVE  IbSignedDiff(IbWire(t), IbWire(u)) >= 0 <=> u <= t
    <3>1. t - u < IbTickMod \div 2 /\ u - t <= IbTickMod \div 2
      BY <1>1, <1>2, <1>3, <2>5, IbConstants DEF IbFits
    <3> QED BY <3>1, <1>2, IbDiffSign
  <2>6. ASSUME NEW i \in IbSlots, b[i].tick # 0
        PROVE  /\ b[i].input \in IbFirst .. IbMaxTick
               /\ b[i].tick = IbWire(b[i].input)
               /\ t - IbDelay < b[i].input /\ b[i].input <= ib_tick
    <3>1. ~IbPruned(ib_buffer[i], t) /\ b[i] = ib_buffer[i]
      BY <2>1, <2>6, IbEmptyTyped
    <3>2. PICK e : e = b[i]
      OBVIOUS
    <3>3. /\ e.input \in IbFirst .. IbMaxTick /\ e.tick = IbWire(e.input)
          /\ ib_pruned - IbDelay < e.input /\ e.input <= ib_tick
      BY <2>2, <2>6, <3>1, <3>2 DEF IbHonest
    <3>4. ~(IbSignedDiff(IbWire(t), e.tick) >= 0)
      BY <2>6, <3>1, <3>2 DEF IbPruned
    <3>5. PICK u \in Nat : u = e.input
      BY <3>3, IbConstants
    <3>6. u > t
      BY <2>5, <3>3, <3>4, <3>5, <1>2
    <3> QED BY <3>2, <3>3, <3>5, <3>6, <1>2, IbConstants
  <2>7. IbHonest(ib_buffer)'
    BY <1>1, <2>3, <2>6 DEF IbHonest
  <2>8. ASSUME NEW u \in ib_stored'
        PROVE  b[IbWire(u) % IbRing].tick = IbWire(u) /\ b[IbWire(u) % IbRing].input = u
    <3>1. u \in ib_stored /\ u > t /\ u \in Nat /\ u <= ib_tick
      BY <1>1, <1>2, <1>3, IbConstants
    <3>2. PICK i \in IbSlots : i = IbWire(u) % IbRing
      BY <3>1, IbSlotFacts
    <3>3. ib_buffer[i].tick = IbWire(u) /\ ib_buffer[i].input = u
      BY <3>1, <3>2 DEF IbInv, IbKept, ib_has, ib_retrieve
    <3>4. ~(IbSignedDiff(IbWire(t), IbWire(u)) >= 0)
      BY <2>5, <3>1, <1>1, <1>2, IbConstants
    <3>5. b[i] = ib_buffer[i]
      BY <2>1, <3>3, <3>4 DEF IbPruned
    <3> QED BY <3>2, <3>3, <3>5
  <2>9. IbKept'
    BY <2>3, <2>8 DEF IbKept, ib_has, ib_retrieve
  <2> QED BY <1>4, <2>4, <2>7, <2>9 DEF IbInv
<1> QED BY <1>5, <1>6

\* Every step of the buffer keeps the invariant.
LEMMA IbStepInv == IbFits /\ IbInv /\ [InputBufferNext]_ib_vars => IbInv'
<1> SUFFICES ASSUME IbFits, IbInv, [InputBufferNext]_ib_vars PROVE IbInv'
  OBVIOUS
<1>1. CASE ib_input
  <2>1. /\ ib_tick < IbMaxTick /\ ib_tick - ib_pruned < IbLead /\ ib_tick' = ib_tick + 1
        /\ ib_flight' = {t \in ib_flight \cup {ib_tick + 1} : ib_tick + 1 - t < IbDelay}
        /\ UNCHANGED <<ib_pruned, ib_buffer, ib_stored>>
    BY <1>1 DEF ib_input
  <2>2. /\ ib_tick \in IbFirst .. IbMaxTick /\ ib_pruned \in IbFirst .. IbMaxTick
        /\ ib_flight \subseteq IbFirst .. IbMaxTick /\ ib_stored \subseteq IbFirst .. IbMaxTick
        /\ ib_buffer = IbNoBuffer \/ ib_buffer \in [IbSlots -> IbEntry]
    BY DEF IbInv, IbTypeOK
  <2>a. ib_tick + 1 \in IbFirst .. IbMaxTick
    BY <2>1, <2>2, IbConstants
  <2>b. ib_flight' \subseteq IbFirst .. IbMaxTick
    BY <2>1, <2>2, <2>a
  <2>3. IbTypeOK'
    BY <2>1, <2>2, <2>a, <2>b DEF IbTypeOK
  <2>4. IbWindow'
    BY <2>1, <2>2, IbConstants DEF IbInv, IbWindow
  <2>5. ib_buffer' # IbNoBuffer => IbHonest(ib_buffer)'
    BY <2>1, <2>2, IbConstants DEF IbInv, IbHonest
  <2>6. IbKept'
    BY <2>1 DEF IbInv, IbKept, ib_has, ib_retrieve
  <2> QED BY <2>3, <2>4, <2>5, <2>6 DEF IbInv
<1>2. CASE clear_client
  <2>1. IbTypeOK' /\ IbWindow'
    BY <1>2 DEF clear_client, IbInv, IbTypeOK, IbWindow
  <2> QED BY <1>2, <2>1 DEF clear_client, IbInv, IbKept
<1>3. CASE UNCHANGED ib_vars
  <2>1. IbTypeOK' /\ IbWindow'
    BY <1>3 DEF ib_vars, IbInv, IbTypeOK, IbWindow
  <2>2. (ib_buffer # IbNoBuffer => IbHonest(ib_buffer))'
    BY <1>3 DEF ib_vars, IbInv, IbHonest
  <2>3. IbKept'
    BY <1>3 DEF ib_vars, IbInv, IbKept, ib_has, ib_retrieve
  <2> QED BY <2>1, <2>2, <2>3 DEF IbInv
<1> QED BY <1>1, <1>2, <1>3, IbStoreInv, IbPruneInv DEF InputBufferNext

\* The invariant implies what the run checks.
LEMMA IbInvSound == IbFits /\ IbInv => InputBufferInv
<1> SUFFICES ASSUME IbFits, IbInv PROVE IbOwnInput
  BY DEF IbInv, InputBufferInv
<1> SUFFICES ASSUME NEW t \in ib_pruned + 1 .. ib_tick, IbWire(t) # 0, ib_has(t)
             PROVE  ib_retrieve(t) = t
  BY DEF IbOwnInput
<1>1. /\ ib_tick \in Nat /\ ib_pruned \in Nat /\ t \in Nat
      /\ ib_tick <= ib_pruned + IbLead
  BY IbConstants DEF IbInv, IbTypeOK, IbWindow
<1>2. PICK i \in IbSlots : i = IbWire(t) % IbRing
  BY <1>1, IbSlotFacts
<1>3. ib_buffer # IbNoBuffer /\ ib_buffer[i].tick = IbWire(t)
  BY <1>2 DEF ib_has
<1>4. /\ ib_buffer[i].input \in IbFirst .. IbMaxTick
      /\ ib_buffer[i].tick = IbWire(ib_buffer[i].input)
      /\ ib_pruned - IbDelay < ib_buffer[i].input /\ ib_buffer[i].input <= ib_tick
  BY <1>3 DEF IbInv, IbHonest
<1>5. PICK u \in Nat : u = ib_buffer[i].input
  BY <1>4, IbConstants
<1>6. t - u < IbTickMod /\ u - t < IbTickMod /\ t \in Int /\ u \in Int
  BY <1>1, <1>4, <1>5, IbConstants DEF IbFits
<1>7. t % IbTickMod = u % IbTickMod
  BY <1>3, <1>4, <1>5 DEF IbWire
<1>8. t = u
  BY <1>6, <1>7, IbConstants, ModApart
<1> QED BY <1>2, <1>5, <1>8 DEF ib_retrieve

\* The server applies to a tick the input the client sent for it and no other, and has
\* every input that arrived until it prunes it, although ticks wrap and share slots.
THEOREM InputBufferInvHolds ==
  ASSUME IbFits
  PROVE  InputBufferSpec => []InputBufferInv
<1>1. IbInv /\ [InputBufferNext]_ib_vars => IbInv'
  BY IbStepInv
<1>2. IbInv => InputBufferInv
  BY IbInvSound
<1> QED BY <1>1, <1>2, IbInitInv, PTL DEF InputBufferSpec

-----------------------------------------------------------------------------
(* SnapshotInterpolation.                                                  *)

\* The ring holds the last snapshots stored, each in the slot of its number.
SbRinged ==
  /\ sb_mode # "interpolation" => sb_stored = << >>
  /\ sb_head = Len(sb_stored) % SbRing
  /\ sb_count = IF Len(sb_stored) < SbRing THEN Len(sb_stored) ELSE SbRing
  /\ \A j \in 1 .. Len(sb_stored) :
       j > Len(sb_stored) - SbRing => sb_snapshots[j % SbRing] = sb_stored[j]

\* Snapshots are stored with the client's time, which does not go back.
SbTimely ==
  /\ \A j \in 1 .. Len(sb_stored) : sb_stored[j].time <= sb_time
  /\ \A j \in 1 .. Len(sb_stored) - 1 : sb_stored[j].time <= sb_stored[j + 1].time

SbInv == SbTypeOK /\ SbRinged /\ SbTimely

\* What the assumptions say of the ring.
LEMMA SbConstants ==
  SbRing \in Nat /\ SbRing >= 2 /\ SbMaxSnaps \in Nat /\ SbMaxTime \in Nat /\ SbDelay \in Nat
BY SbAssumption

\* The ring starts empty.
LEMMA SbInitInv == SnapshotInterpolationInit => SbInv
<1> SUFFICES ASSUME SnapshotInterpolationInit PROVE SbInv
  OBVIOUS
<1>1. 0 % SbRing = 0 /\ Len(<< >>) = 0 /\ << >> \in Seq(SbSnapshot)
  BY SbConstants
<1>2. sb_server \in SbPositions
  BY SbConstants DEF SnapshotInterpolationInit, SbPositions
<1>3. [time |-> 0, has |-> {}, at |-> sb_server] \in SbSnapshot
  BY <1>2, SbConstants DEF SbSnapshot
<1>4. sb_snapshots \in [SbSlots -> SbSnapshot]
  BY <1>3 DEF SnapshotInterpolationInit
<1>5. sb_shown \in [SbEntities -> 0 .. SbMaxSnaps * SbUnit]
  BY SbConstants DEF SnapshotInterpolationInit, SbUnit
<1>a. sb_reordered \in BOOLEAN
  BY Zenon DEF SnapshotInterpolationInit
<1>6. sb_head \in SbSlots
  BY SbConstants DEF SnapshotInterpolationInit, SbSlots
<1>b. /\ sb_mode \in {"prediction", "interpolation", "immediate"}
      /\ sb_late \subseteq SbSent
      /\ sb_known \subseteq SbEntities /\ sb_snapped \subseteq sb_known
  BY DEF SnapshotInterpolationInit
<1>c. /\ sb_time \in 0 .. SbMaxTime /\ sb_count \in 0 .. SbRing
      /\ sb_render \in 0 .. SbMaxTime
  BY SbConstants DEF SnapshotInterpolationInit
<1>d. sb_stored \in Seq(SbSnapshot)
  BY <1>1 DEF SnapshotInterpolationInit
<1>7. SbTypeOK
  BY <1>a, <1>b, <1>c, <1>d, <1>2, <1>4, <1>5, <1>6 DEF SbTypeOK
<1>8. SbRinged /\ SbTimely
  BY <1>1, SbConstants DEF SnapshotInterpolationInit, SbRinged, SbTimely
<1> QED BY <1>7, <1>8 DEF SbInv

\* Entry i of the ring, from the oldest, is the snapshot of that number.
LEMMA NthStored ==
  ASSUME SbInv, NEW i \in 0 .. sb_count - 1
  PROVE  /\ Len(sb_stored) - sb_count + 1 + i \in 1 .. Len(sb_stored)
         /\ Nth(i) = sb_stored[Len(sb_stored) - sb_count + 1 + i]
<1>0. PICK n \in Nat : n = Len(sb_stored)
  BY DEF SbInv, SbTypeOK
<1>1. /\ sb_head = n % SbRing
      /\ sb_count = IF n < SbRing THEN n ELSE SbRing
      /\ \A j \in 1 .. n : j > n - SbRing => sb_snapshots[j % SbRing] = sb_stored[j]
  BY <1>0 DEF SbInv, SbRinged
<1>2. sb_count \in 0 .. SbRing /\ sb_count <= n
  BY <1>0, <1>1, SbConstants
<1>3. PICK d \in 0 .. SbRing : d = sb_count - 1 - i
  BY <1>2, SbConstants
<1>4. n - d \in 1 .. n /\ n - d > n - SbRing /\ n - d = n - sb_count + 1 + i
  BY <1>1, <1>2, <1>3, SbConstants
<1>5. n \in Int /\ SbRing \in Nat \ {0}
  BY SbConstants
<1>6. ((n % SbRing) + SbRing - d) % SbRing = (n - d) % SbRing
  BY <1>5, ModBack
<1>7. sb_head \in Int
  BY <1>1, <1>5
<1>8. sb_head + SbRing - (sb_count - 1) + i = sb_head + SbRing - d
  BY <1>2, <1>3, <1>7, SbConstants
<1>9. Nth(i) = sb_snapshots[(n - d) % SbRing]
  BY <1>1, <1>6, <1>8 DEF Nth
<1> QED BY <1>0, <1>1, <1>4, <1>9

\* The number of the oldest snapshot in the ring.
SbOldest == IF Len(sb_stored) < SbRing THEN 1 ELSE Len(sb_stored) - SbRing + 1

\* What find_bracketing promises of a pair: two neighbours, the time between them if
\* the ring covers it and the nearest pair otherwise.
SbBracket(p, target) ==
  LET n == Len(sb_stored)
      oldest == IF n < SbRing THEN 1 ELSE n - SbRing + 1 IN
  \E i \in oldest .. n - 1 :
    /\ p.older = sb_stored[i] /\ p.newer = sb_stored[i + 1]
    /\ 0 <= p.num /\ p.num <= p.den /\ p.num \in Int /\ p.den \in Nat \ {0}
    /\ \/ /\ sb_stored[i].time < target /\ target <= sb_stored[i + 1].time
          /\ p.num = target - sb_stored[i].time
          /\ p.den = sb_stored[i + 1].time - sb_stored[i].time
       \/ i = oldest /\ target <= sb_stored[i].time /\ p.num = 0
       \/ i = n - 1 /\ target >= sb_stored[n].time /\ p.num = p.den

\* find_bracketing returns two consecutive snapshots around the time asked for.
LEMMA FindBracketing ==
  ASSUME SbInv, NEW target \in Int
  PROVE  IF sb_count < 2 THEN find_bracketing(target) = {}
         ELSE \E p : find_bracketing(target) = {p} /\ SbBracket(p, target)
<1>1. CASE sb_count < 2
  BY <1>1 DEF find_bracketing
<1>2. CASE ~(sb_count < 2)
  <2> DEFINE time(i) == Nth(i).time
  <2>0. PICK n \in Nat, last \in Nat, old \in Nat :
          /\ n = Len(sb_stored) /\ last = sb_count - 1 /\ old = n - sb_count + 1
          /\ old = IF n < SbRing THEN 1 ELSE n - SbRing + 1
          /\ last >= 1 /\ old + last = n /\ old >= 1
    <3>1. /\ Len(sb_stored) \in Nat
          /\ sb_count = IF Len(sb_stored) < SbRing THEN Len(sb_stored) ELSE SbRing
      BY DEF SbInv, SbTypeOK, SbRinged
    <3>2. PICK n \in Nat : n = Len(sb_stored)
      BY <3>1
    <3>3. sb_count \in Int /\ sb_count >= 2 /\ sb_count <= n
      BY <3>1, <3>2, <1>2, SbConstants
    <3>4. PICK last \in Nat, old \in Nat : last = sb_count - 1 /\ old = n - sb_count + 1
      BY <3>3
    <3> QED BY <3>1, <3>2, <3>3, <3>4, SbConstants, SMTT(30)
  <2>z. last >= 1 /\ old + last = n /\ old >= 1
    BY <2>0
  <2>1. \A i \in 0 .. last : old + i \in 1 .. n /\ Nth(i) = sb_stored[old + i]
    <3> SUFFICES ASSUME NEW i \in 0 .. last
                 PROVE  old + i \in 1 .. n /\ Nth(i) = sb_stored[old + i]
      OBVIOUS
    <3>1. i \in 0 .. sb_count - 1 /\ Len(sb_stored) - sb_count + 1 + i = old + i
      BY <2>0, SbConstants DEF SbInv, SbTypeOK
    <3> QED BY <3>1, <2>0, NthStored
  <2>2. \A i \in 0 .. last : time(i) \in Nat
    <3>1. \A j \in 1 .. n : sb_stored[j] \in SbSnapshot
      BY <2>0 DEF SbInv, SbTypeOK
    <3> QED BY <2>1, <3>1, SbConstants DEF SbSnapshot
  <2>3. \A i \in 0 .. last - 1 : time(i) <= time(i + 1)
    <3> SUFFICES ASSUME NEW i \in 0 .. last - 1 PROVE time(i) <= time(i + 1)
      OBVIOUS
    <3>1. i \in 0 .. last /\ i + 1 \in 0 .. last /\ old + (i + 1) = (old + i) + 1
      BY <2>0
    <3>2. old + i \in 1 .. n - 1
      BY <3>1, <2>0, SMTT(30)
    <3>3. sb_stored[old + i].time <= sb_stored[(old + i) + 1].time
      BY <3>2, <2>0 DEF SbInv, SbTimely
    <3> QED BY <3>1, <3>3, <2>1
  \* Pair i with a factor is a bracket if the time fits.
  <2>4. ASSUME NEW i \in 0 .. last - 1, NEW num \in Nat, NEW den \in Nat \ {0}, num <= den,
               \/ /\ time(i) < target /\ target <= time(i + 1)
                  /\ num = target - time(i) /\ den = time(i + 1) - time(i)
               \/ i = 0 /\ target <= time(0) /\ num = 0
               \/ i = last - 1 /\ target >= time(last) /\ num = den
        PROVE  SbBracket(Pair(i, num, den), target)
    <3>1. i \in 0 .. last /\ i + 1 \in 0 .. last /\ 0 \in 0 .. last /\ last \in 0 .. last
      BY <2>0
    <3>2. PICK j \in Int : j = old + i /\ j + 1 = old + (i + 1)
      BY <2>0
    <3>3. Nth(i) = sb_stored[j] /\ Nth(i + 1) = sb_stored[j + 1]
      BY <3>1, <3>2, <2>1
    <3>4. j \in old .. n - 1 /\ (i = 0 => j = old) /\ (i = last - 1 => j = n - 1)
      BY <2>z, <3>2
    <3>5. Nth(0) = sb_stored[old] /\ Nth(last) = sb_stored[n]
      <4>1. old + 0 = old /\ old + last = n
        BY <2>z
      <4>2. Nth(0) = sb_stored[old + 0] /\ Nth(last) = sb_stored[old + last]
        BY <3>1, <2>1
      <4> QED BY <4>1, <4>2
    <3> DEFINE p == Pair(i, num, den)
    <3>6. p.older = sb_stored[j] /\ p.newer = sb_stored[j + 1] /\ p.num = num /\ p.den = den
      BY <3>3 DEF Pair
    <3> HIDE DEF p
    <3>7. \/ /\ sb_stored[j].time < target /\ target <= sb_stored[j + 1].time
             /\ p.num = target - sb_stored[j].time
             /\ p.den = sb_stored[j + 1].time - sb_stored[j].time
          \/ j = old /\ target <= sb_stored[j].time /\ p.num = 0
          \/ j = n - 1 /\ target >= sb_stored[n].time /\ p.num = p.den
      BY <2>4, <3>3, <3>4, <3>5, <3>6
    <3>9. 0 <= p.num /\ p.num <= p.den /\ p.num \in Int /\ p.den \in Nat \ {0}
      BY <2>4, <3>6
    <3>8. SbBracket(p, target)
      BY <2>0, <3>4, <3>6, <3>7, <3>9 DEF SbBracket
    <3> QED BY <3>8 DEF p
  <2> DEFINE within == {i \in 0 .. last - 1 : target >= time(i) /\ target <= time(i + 1)}
             i0 == CHOOSE k \in within : \A l \in within : k <= l
             dt == time(i0 + 1) - time(i0)
  <2>5. find_bracketing(target) =
          IF target <= time(0) THEN {Pair(0, 0, 1)}
          ELSE IF target >= time(last) THEN {Pair(last - 1, 1, 1)}
          ELSE IF within = {} THEN {}
          ELSE {IF dt > 0 THEN Pair(i0, target - time(i0), dt) ELSE Pair(i0, 0, 1)}
    BY <1>2, <2>0 DEF find_bracketing
  <2>a. 0 \in 0 .. last - 1 /\ last - 1 \in 0 .. last - 1 /\ 0 + 1 = 1 /\ (last - 1) + 1 = last
        /\ 0 \in 0 .. last /\ 1 \in 0 .. last /\ last \in 0 .. last /\ last - 1 \in 0 .. last
    BY <2>0
  <2>6. CASE target <= time(0)
    <3>1. SbBracket(Pair(0, 0, 1), target)
      BY <2>6, <2>4, <2>a
    <3> QED BY <1>2, <2>5, <2>6, <3>1
  <2>7. CASE ~(target <= time(0)) /\ target >= time(last)
    <3>1. SbBracket(Pair(last - 1, 1, 1), target)
      BY <2>7, <2>4, <2>a
    <3> QED BY <1>2, <2>5, <2>7, <3>1
  <2>8. CASE time(0) < target /\ target < time(last)
    <3> DEFINE A == {i \in 0 .. last : time(i) > target}
    <3>1. A \subseteq Nat /\ last \in A
      BY <2>8, <2>a, <2>2
    <3>2. PICK m \in A : \A l \in A : m <= l
      <4> HIDE DEF A
      <4>1. A # {}
        BY <3>1
      <4> QED BY <4>1, <3>1, LeastMember
    <3>3. m \in 0 .. last /\ m # 0 /\ time(m) > target
      BY <2>8, <2>2, <2>a, <3>2
    <3>4. PICK k \in 0 .. last - 1 : k + 1 = m /\ k \in 0 .. last
      BY <3>3, <2>0
    <3>5. k \notin A
      BY <3>2, <3>4
    <3>6. target >= time(k) /\ target <= time(k + 1)
      BY <3>3, <3>4, <3>5, <2>2
    <3>7. within # {} /\ within \subseteq Nat
      BY <3>4, <3>6, <2>0, SMTT(30)
    <3>8. \E x \in within : \A l \in within : x <= l
      <4> HIDE DEF within
      <4> QED BY <3>7, LeastMember
    <3>9. i0 \in within /\ \A l \in within : i0 <= l
      <4> HIDE DEF within
      <4> QED BY <3>8
    <3> HIDE DEF i0
    <3>10. i0 \in 0 .. last - 1 /\ target >= time(i0) /\ target <= time(i0 + 1)
      BY <3>9
    <3>11. i0 \in 0 .. last /\ i0 + 1 \in 0 .. last
      BY <3>10, <2>0
    <3>12. time(i0) \in Nat /\ time(i0 + 1) \in Nat
      BY <3>11, <2>2
    \* The pair before would have been found first.
    <3>13. time(i0) < target
      <4> SUFFICES ASSUME time(i0) = target PROVE FALSE
        BY <3>10, <3>12
      <4>1. i0 # 0
        BY <2>8, <2>2, <2>a
      <4>2. PICK l \in 0 .. last - 1 : l + 1 = i0 /\ l \in 0 .. last
        BY <4>1, <3>10
      <4>3. time(l) <= time(i0) /\ time(l) \in Nat
        BY <4>2, <2>2, <2>3
      <4>4. l \in within
        BY <4>2, <4>3, <3>12
      <4> QED BY <4>2, <4>4, <3>9
    <3> HIDE DEF within
    <3>14. dt > 0
      BY <3>10, <3>12, <3>13
    <3>15. target - time(i0) \in Nat /\ dt \in Nat \ {0} /\ target - time(i0) <= dt
      BY <3>10, <3>12, <3>13
    <3>16. SbBracket(Pair(i0, target - time(i0), dt), target)
      <4> PICK u \in Nat, v \in Nat \ {0} : u = target - time(i0) /\ v = dt
        BY <3>15
      <4>1. u <= v /\ v = time(i0 + 1) - time(i0)
        BY <3>15
      <4> HIDE DEF dt
      <4>2. SbBracket(Pair(i0, u, v), target)
        BY <4>1, <3>10, <3>13, <2>4
      <4> QED BY <4>2
    <3>17. find_bracketing(target) = {Pair(i0, target - time(i0), dt)}
      <4>1. ~(target <= time(0)) /\ ~(target >= time(last))
        BY <2>8, <2>2, <2>a
      <4> QED BY <2>5, <4>1, <3>7, <3>14
    <3> QED BY <1>2, <3>16, <3>17
  <2> QED BY <2>6, <2>7, <2>8, <2>2, <2>a
<1> QED BY <1>1, <1>2

\* The blend of two positions is between them.
LEMMA BlendBetween ==
  ASSUME NEW o \in Int, NEW n \in Int, NEW num \in Nat, NEW den \in Nat \ {0}, num <= den
  PROVE  LET b == o * SbUnit + (((n - o) * num * SbUnit) \div den) IN
         /\ b \in Int
         /\ o <= n => o * SbUnit <= b /\ b <= n * SbUnit
         /\ n <= o => n * SbUnit <= b /\ b <= o * SbUnit
<1> PICK x \in Int : x = n - o
  OBVIOUS
<1>0. \A k \in Int : (den * k) \div den = k
  OBVIOUS
<1>1. PICK y \in Int, z \in Int, k \in Int : y = x * num * 12 /\ k = x * 12 /\ z = den * k
  OBVIOUS
<1>2. 0 \div den = 0
  OBVIOUS
<1>3. CASE x >= 0
  <2>1. x * num <= x * den /\ x * num \in Nat
    BY <1>3, ProductMonotone
  <2>2. 0 <= y /\ y <= z
    BY <2>1, <1>1
  <2>3. y \div den \in Int /\ 0 <= y \div den /\ y \div den <= z \div den
    BY <2>2, <1>2, DivMonotone
  <2>4. z \div den = k
    BY <1>0, <1>1
  <2> QED BY <2>3, <2>4, <1>1, <1>3 DEF SbUnit
<1>4. CASE x < 0
  <2>0. PICK w \in Nat : w = -x
    BY <1>4
  <2>1. w * num <= w * den /\ w * num \in Nat
    BY <2>0, ProductMonotone
  <2>2. x * num = -(w * num) /\ x * den = -(w * den) /\ x * den = den * x
    BY <2>0
  <2>3. y <= 0 /\ z <= y
    BY <2>1, <2>2, <1>1
  <2>4. y \div den \in Int /\ y \div den <= 0 /\ z \div den <= y \div den
    BY <2>3, <1>2, DivMonotone
  <2>5. z \div den = k
    BY <1>0, <1>1
  <2> QED BY <2>4, <2>5, <1>1, <1>4 DEF SbUnit
<1> QED BY <1>3, <1>4

\* What is shown of a pair of snapshots stays in the range of positions.
LEMMA BlendTyped ==
  ASSUME NEW p, p.older \in SbSnapshot, p.newer \in SbSnapshot,
         p.num \in Int, 0 <= p.num, p.den \in Nat \ {0}, p.num <= p.den, NEW e \in SbEntities
  PROVE  /\ Blend(p, e) \in 0 .. SbMaxSnaps * SbUnit
         /\ p.newer.at[e] * SbUnit \in 0 .. SbMaxSnaps * SbUnit
<1>1. PICK o \in 0 .. SbMaxSnaps, n \in 0 .. SbMaxSnaps, num \in Nat, den \in Nat \ {0} :
        o = p.older.at[e] /\ n = p.newer.at[e] /\ num = p.num /\ den = p.den /\ num <= den
  BY DEF SbSnapshot, SbPositions
<1>2. PICK b : b = o * SbUnit + (((n - o) * num * SbUnit) \div den)
  OBVIOUS
<1>3. /\ b \in Int
      /\ o <= n => o * SbUnit <= b /\ b <= n * SbUnit
      /\ n <= o => n * SbUnit <= b /\ b <= o * SbUnit
  <2>1. o \in Int /\ n \in Int /\ num <= den
    BY <1>1
  <2> QED BY <2>1, <1>2, BlendBetween
<1>4. Blend(p, e) = b
  BY <1>1, <1>2 DEF Blend
<1> QED BY <1>1, <1>3, <1>4, SbConstants DEF SbUnit

\* The blend of two positions: the linear function that client_interpolate takes.
SbBlended(a, b, num, den) == a * SbUnit + (((b - a) * num * SbUnit) \div den)

\* The blend is between the positions, begins and ends with them, and grows with time.
LEMMA BlendedFacts ==
  ASSUME NEW a \in Nat, NEW b \in Nat, a <= b, NEW num \in Nat, NEW den \in Nat \ {0},
         num <= den
  PROVE  /\ SbBlended(a, b, num, den) \in Int
         /\ a * SbUnit <= SbBlended(a, b, num, den)
         /\ SbBlended(a, b, num, den) <= b * SbUnit
         /\ num = 0 => SbBlended(a, b, num, den) = a * SbUnit
         /\ num = den => SbBlended(a, b, num, den) = b * SbUnit
<1>1. a \in Int /\ b \in Int
  OBVIOUS
<1>2. /\ SbBlended(a, b, num, den) \in Int
      /\ a * SbUnit <= SbBlended(a, b, num, den)
      /\ SbBlended(a, b, num, den) <= b * SbUnit
  BY <1>1, BlendBetween DEF SbBlended
<1>3. num = 0 => SbBlended(a, b, num, den) = a * SbUnit
  BY DEF SbBlended, SbUnit
<1>4. num = den => SbBlended(a, b, num, den) = b * SbUnit
  <2> SUFFICES ASSUME num = den
               PROVE  SbBlended(a, b, den, den) = b * SbUnit
    OBVIOUS
  <2>1. PICK k \in Int : k = (b - a) * SbUnit
    BY DEF SbUnit
  <2>2. (b - a) * den * SbUnit = den * k
    BY <2>1 DEF SbUnit
  <2>3. (den * k) \div den = k
    OBVIOUS
  <2> QED BY <2>1, <2>2, <2>3 DEF SbBlended, SbUnit
<1> QED BY <1>2, <1>3, <1>4

LEMMA BlendedGrows ==
  ASSUME NEW a \in Nat, NEW b \in Nat, a <= b, NEW m \in Nat, NEW num \in Nat,
         NEW den \in Nat \ {0}, m <= num
  PROVE  SbBlended(a, b, m, den) <= SbBlended(a, b, num, den)
<1>1. PICK x \in Nat : x = b - a
  OBVIOUS
<1>2. x * m <= x * num /\ x * m \in Nat /\ x * num \in Nat
  BY ProductMonotone
<1>3. PICK y \in Int, z \in Int : y = x * m * SbUnit /\ z = x * num * SbUnit /\ y <= z
  BY <1>2 DEF SbUnit
<1>4. y \div den \in Int /\ z \div den \in Int /\ y \div den <= z \div den
  BY <1>3, DivMonotone
<1> QED BY <1>1, <1>3, <1>4 DEF SbBlended, SbUnit

\* The times T and the positions P of n snapshots do not go back.
SbClimbs(T, P, n) ==
  /\ \A i \in 1 .. n : T[i] \in Int /\ P[i] \in Nat
  /\ \A i, j \in 1 .. n : i <= j => T[i] <= T[j] /\ P[i] <= P[j]

\* s is not ahead of what any frame later than t can show of an entity that the
\* snapshots in H hold, from snapshot o on, the oldest of the ring: not ahead of the
\* snapshots after t, nor of the blend at t.
SbPassed(s, T, P, H, o, n, t) ==
  /\ n = 0 => s = 0
  /\ n > 0 => s <= P[n] * SbUnit
  /\ \A j \in o .. n : j \in H /\ T[j] > t => s <= P[j] * SbUnit
  /\ \A j \in o .. n - 1 :
       j \in H /\ j + 1 \in H /\ T[j] <= t /\ t < T[j + 1]
         => s <= SbBlended(P[j], P[j + 1], t - T[j], T[j + 1] - T[j])

\* What a frame shows of the entity when its pair is i and i + 1.
SbValue(s, T, P, H, i, num, den, t) ==
  IF i + 1 \notin H THEN s
  ELSE IF t > T[i + 1] \/ i \notin H THEN P[i + 1] * SbUnit
  ELSE SbBlended(P[i], P[i + 1], num, den)

\* A frame shows nothing older than the frame before it, and leaves the same for the
\* next one.
LEMMA FrameForward ==
  ASSUME NEW n \in Nat, NEW o \in 1 .. n - 1, NEW T, NEW P, NEW H, SbClimbs(T, P, n),
         NEW t \in Int, NEW u \in Int, t < u, NEW s \in Int, SbPassed(s, T, P, H, o, n, t),
         NEW i \in o .. n - 1, NEW num \in Nat, NEW den \in Nat \ {0}, num <= den,
         \/ T[i] < u /\ u <= T[i + 1] /\ num = u - T[i] /\ den = T[i + 1] - T[i]
         \/ i = o /\ u <= T[i] /\ num = 0
         \/ i = n - 1 /\ u >= T[n] /\ num = den
  PROVE  /\ s <= SbValue(s, T, P, H, i, num, den, u)
         /\ SbValue(s, T, P, H, i, num, den, u) \in Int
         /\ SbPassed(SbValue(s, T, P, H, i, num, den, u), T, P, H, o, n, u)
<1>1. /\ i \in 1 .. n /\ i + 1 \in 1 .. n /\ n \in 1 .. n /\ i <= i + 1 /\ i + 1 <= n
      /\ i \in o .. n /\ i + 1 \in o .. n /\ n > 0 /\ i \in Int
  OBVIOUS
<1>2. /\ T[i] \in Int /\ T[i + 1] \in Int /\ T[n] \in Int /\ T[i] <= T[i + 1]
      /\ P[i] \in Nat /\ P[i + 1] \in Nat /\ P[n] \in Nat
      /\ P[i] <= P[i + 1] /\ P[i + 1] <= P[n] /\ T[i + 1] <= T[n]
  BY <1>1 DEF SbClimbs
<1>3. PICK v : v = SbValue(s, T, P, H, i, num, den, u)
  OBVIOUS
<1>b. PICK w : w = SbBlended(P[i], P[i + 1], num, den)
  OBVIOUS
<1>4. /\ w \in Int /\ P[i] * SbUnit <= w /\ w <= P[i + 1] * SbUnit
      /\ num = 0 => w = P[i] * SbUnit
      /\ num = den => w = P[i + 1] * SbUnit
  BY <1>b, <1>2, BlendedFacts, SMTT(30)
<1>5. v = IF i + 1 \notin H THEN s
          ELSE IF u > T[i + 1] \/ i \notin H THEN P[i + 1] * SbUnit ELSE w
  BY <1>3, <1>b DEF SbValue
<1>p. P[i] * SbUnit \in Int /\ P[i + 1] * SbUnit \in Int /\ P[n] * SbUnit \in Int
      /\ P[i] * SbUnit <= P[i + 1] * SbUnit /\ P[i + 1] * SbUnit <= P[n] * SbUnit
  BY <1>2 DEF SbUnit
<1>6. v \in Int
  BY <1>4, <1>5, <1>p
<1>d. \A j \in o .. n : j \in H /\ T[j] > t => s <= P[j] * SbUnit
  BY DEF SbPassed
<1>n. s <= P[n] * SbUnit
  BY <1>1 DEF SbPassed
<1>7. s <= v
  <2> SUFFICES ASSUME i + 1 \in H PROVE s <= v
    BY <1>5
  <2>1. CASE T[i + 1] > t
    <3>1. s <= P[i + 1] * SbUnit
      BY <2>1, <1>1, <1>d
    <3> SUFFICES ASSUME ~(u > T[i + 1]), i \in H PROVE s <= w
      BY <3>1, <1>5
    <3>2. CASE T[i] > t
      <4>1. s <= P[i] * SbUnit
        BY <3>2, <1>1, <1>d
      <4> QED BY <4>1, <1>4, <1>p
    <3>3. CASE T[i] <= t
      <4>1. CASE num = den
        BY <4>1, <3>1, <1>4
      <4>2. CASE num # den
        <5>1. num = u - T[i] /\ den = T[i + 1] - T[i]
          BY <4>2, <3>3, <1>2
        <5>2. PICK m \in Nat : m = t - T[i] /\ m <= num
          BY <5>1, <3>3, <1>2
        <5>3. s <= SbBlended(P[i], P[i + 1], t - T[i], T[i + 1] - T[i])
          BY <1>1, <2>1, <3>3 DEF SbPassed
        <5>4. SbBlended(P[i], P[i + 1], m, den) <= w
          BY <5>2, <1>2, <1>b, BlendedGrows
        <5>5. SbBlended(P[i], P[i + 1], m, den) \in Int
          BY <5>2, <1>2, BlendedFacts
        <5> QED BY <5>1, <5>2, <5>3, <5>4, <5>5, <1>4
      <4> QED BY <4>1, <4>2
    <3> QED BY <3>2, <3>3, <1>2
  <2>2. CASE T[i + 1] <= t
    <3>1. i = n - 1 /\ u > T[n] /\ i + 1 = n
      BY <2>2, <1>2, <1>1
    <3> QED BY <3>1, <1>5, <1>n
  <2> QED BY <2>1, <2>2, <1>2
<1>8. v <= P[n] * SbUnit
  BY <1>4, <1>5, <1>6, <1>p, <1>n
<1>e. i + 1 \in H => v <= P[i + 1] * SbUnit
  BY <1>4, <1>5, <1>p
\* The order of the snapshots, one of them in the pair.
<1>o. \A j \in 1 .. n :
        /\ T[j] \in Int /\ P[j] \in Nat
        /\ j <= i => T[j] <= T[i]
        /\ j >= i + 1 => P[i + 1] <= P[j]
  BY <1>1 DEF SbClimbs
<1>9. ASSUME NEW j \in o .. n, j \in H, T[j] > u
      PROVE  v <= P[j] * SbUnit
  <2>0. j \in 1 .. n /\ j \in Int /\ T[j] \in Int /\ P[j] \in Nat /\ T[j] > t
    BY <1>9, <1>o
  <2>1. CASE i + 1 \notin H
    BY <2>0, <2>1, <1>9, <1>5, <1>d
  <2>2. CASE i + 1 \in H /\ j >= i + 1
    <3>1. P[i + 1] * SbUnit <= P[j] * SbUnit /\ P[j] * SbUnit \in Int
      BY <2>0, <2>2, <1>o, <1>2 DEF SbUnit
    <3> QED BY <2>2, <3>1, <1>e, <1>6, <1>p
  <2>3. CASE i + 1 \in H /\ j <= i
    <3>1. T[i] > u
      BY <2>0, <2>3, <1>9, <1>o, <1>2
    <3>2. i = o /\ num = 0
      BY <3>1, <1>2
    <3>3. j = i
      BY <3>2, <2>3, <1>1, <2>0
    <3> QED BY <3>1, <3>2, <3>3, <2>3, <1>9, <1>4, <1>5, <1>2
  <2> QED BY <2>0, <2>1, <2>2, <2>3, <1>1
<1>10. ASSUME NEW j \in o .. n - 1, j \in H, j + 1 \in H, T[j] <= u, u < T[j + 1]
       PROVE  v <= SbBlended(P[j], P[j + 1], u - T[j], T[j + 1] - T[j])
  <2>0. /\ j \in 1 .. n /\ j + 1 \in 1 .. n /\ j \in Int /\ j \in o .. n
        /\ T[j] \in Int /\ P[j] \in Nat /\ T[j + 1] \in Int /\ P[j + 1] \in Nat
        /\ P[j] <= P[j + 1]
    BY DEF SbClimbs
  <2>1. PICK k \in Nat, d \in Nat \ {0} : k = u - T[j] /\ d = T[j + 1] - T[j] /\ k <= d
    BY <2>0, <1>10
  <2>2. PICK z : z = SbBlended(P[j], P[j + 1], k, d)
    OBVIOUS
  <2>3. z \in Int /\ P[j] * SbUnit <= z /\ P[j] * SbUnit \in Int
    <3>1. z \in Int /\ P[j] * SbUnit <= z
      BY <2>0, <2>1, <2>2, BlendedFacts
    <3>2. P[j] * SbUnit \in Int
      BY <2>0 DEF SbUnit
    <3> QED BY <3>1, <3>2
  <2>4. CASE i + 1 \notin H
    <3>0. v = s
      BY <2>4, <1>5
    <3>1. CASE T[j] > t
      <4>1. s <= P[j] * SbUnit
        BY <3>1, <2>0, <1>10, <1>d
      <4> QED BY <4>1, <3>0, <2>1, <2>2, <2>3
    <3>2. CASE T[j] <= t
      <4>1. s <= SbBlended(P[j], P[j + 1], t - T[j], T[j + 1] - T[j])
        <5>1. t < T[j + 1]
          BY <1>10, <2>0
        <5> QED BY <5>1, <3>2, <1>10 DEF SbPassed
      <4>2. PICK m \in Nat : m = t - T[j] /\ m <= k
        BY <3>2, <2>0, <2>1
      <4>3. SbBlended(P[j], P[j + 1], m, d) <= z
        BY <4>2, <2>0, <2>2, BlendedGrows
      <4>4. SbBlended(P[j], P[j + 1], m, d) \in Int
        <5>1. m <= d
          BY <4>2, <2>1
        <5> QED BY <5>1, <2>0, BlendedFacts
      <4>5. s <= SbBlended(P[j], P[j + 1], m, d)
        BY <4>1, <4>2, <2>1
      <4>6. s <= z
        BY <4>3, <4>4, <4>5, <2>3
      <4> QED BY <4>6, <3>0, <2>1, <2>2
    <3> QED BY <3>1, <3>2, <2>0
  <2>5. CASE i + 1 \in H /\ j = i
    <3>1. ~(u > T[i + 1]) /\ i \in H /\ T[i] <= u /\ u < T[i + 1]
      BY <2>5, <1>10, <1>2
    <3>2. v = w
      BY <3>1, <2>5, <1>5
    <3>3. CASE num = u - T[i] /\ den = T[i + 1] - T[i]
      BY <3>2, <3>3, <2>5, <1>b, <1>4
    <3>4. CASE num = 0
      <4>1. v <= z
        BY <3>2, <3>4, <2>3, <2>5, <1>4
      <4> QED BY <4>1, <2>1, <2>2
    <3>5. CASE u >= T[n]
      BY <3>1, <3>5, <1>2
    <3> QED BY <3>3, <3>4, <3>5
  <2>6. CASE i + 1 \in H /\ j >= i + 1
    <3>1. P[i + 1] * SbUnit <= P[j] * SbUnit
      BY <2>0, <2>6, <1>o, <1>2 DEF SbUnit
    <3>2. v <= z
      BY <2>6, <3>1, <2>3, <1>e, <1>6, <1>p
    <3> QED BY <3>2, <2>1, <2>2
  <2>7. CASE j < i
    <3>1. j + 1 <= i
      BY <2>7, <2>0, <1>1
    <3>2. T[j + 1] <= T[i]
      BY <3>1, <2>0, <1>o
    <3>3. u < T[i] /\ i # o
      BY <3>2, <1>10, <2>0, <2>7, <1>2
    <3> QED BY <3>3, <1>2
  <2> QED BY <2>0, <2>4, <2>5, <2>6, <2>7, <1>1
<1>11. SbPassed(v, T, P, H, o, n, u)
  BY <1>1, <1>8, <1>9, <1>10 DEF SbPassed
<1> QED BY <1>3, <1>6, <1>7, <1>11

\* A new snapshot leaves a frame what it had: it is not behind what is shown.
LEMMA StoreForward ==
  ASSUME NEW n \in Nat, NEW o \in Nat \ {0}, NEW T, NEW P, NEW H, SbClimbs(T, P, n),
         NEW t \in Int, NEW s \in Int, SbPassed(s, T, P, H, o, n, t),
         NEW U, NEW Q, NEW G, NEW r \in Nat, o <= r, SbClimbs(U, Q, n + 1),
         \A j \in 1 .. n : U[j] = T[j] /\ Q[j] = P[j] /\ (j \in G <=> j \in H)
  PROVE  SbPassed(s, U, Q, G, r, n + 1, t)
<1>0. PICK m \in Nat : m = n + 1
  OBVIOUS
<1>1. /\ m \in 1 .. m /\ U[m] \in Int /\ Q[m] \in Nat /\ m > 0 /\ m # 0
      /\ Q[m] * SbUnit \in Int /\ Q[m] * SbUnit >= 0
  BY <1>0 DEF SbClimbs, SbUnit
<1>2. s <= Q[m] * SbUnit
  <2>1. CASE n = 0
    BY <2>1, <1>1 DEF SbPassed
  <2>2. CASE n > 0
    <3>1. n \in 1 .. n /\ n \in 1 .. m /\ n <= m
      BY <2>2, <1>0
    <3>2. P[n] \in Nat /\ Q[n] = P[n] /\ Q[n] <= Q[m]
      BY <3>1, <1>1, <1>0 DEF SbClimbs
    <3>3. P[n] * SbUnit <= Q[m] * SbUnit /\ P[n] * SbUnit \in Int
      BY <3>2, <1>1 DEF SbUnit
    <3>4. s <= P[n] * SbUnit
      BY <2>2 DEF SbPassed
    <3> QED BY <3>3, <3>4, <1>1
  <2> QED BY <2>1, <2>2
<1>3. ASSUME NEW j \in r .. m, j \in G, U[j] > t PROVE s <= Q[j] * SbUnit
  <2>1. CASE j = m
    BY <2>1, <1>2
  <2>2. CASE j # m
    <3>1. j \in o .. n /\ j \in 1 .. n
      BY <2>2, <1>0
    <3> QED BY <3>1, <1>3 DEF SbPassed
  <2> QED BY <2>1, <2>2
<1>4. ASSUME NEW j \in r .. m - 1, j \in G, j + 1 \in G, U[j] <= t, t < U[j + 1]
      PROVE  s <= SbBlended(Q[j], Q[j + 1], t - U[j], U[j + 1] - U[j])
  <2>0. j \in 1 .. n /\ j \in o .. n /\ j + 1 \in 1 .. m
    BY <1>0
  <2>1. CASE j = n
    <3>1. /\ U[j] \in Int /\ U[j + 1] \in Int /\ Q[j] \in Nat /\ Q[j + 1] \in Nat
          /\ Q[j] <= Q[j + 1]
      BY <2>0, <1>0 DEF SbClimbs
    <3>2. PICK k \in Nat, d \in Nat \ {0} : k = t - U[j] /\ d = U[j + 1] - U[j] /\ k <= d
      BY <3>1, <1>4
    <3>3. s <= P[n] * SbUnit /\ Q[n] = P[n]
      BY <2>0, <2>1 DEF SbPassed
    <3>4. Q[j] * SbUnit <= SbBlended(Q[j], Q[j + 1], k, d)
          /\ SbBlended(Q[j], Q[j + 1], k, d) \in Int /\ Q[j] * SbUnit \in Int
      <4>1. Q[j] * SbUnit <= SbBlended(Q[j], Q[j + 1], k, d)
            /\ SbBlended(Q[j], Q[j + 1], k, d) \in Int
        BY <3>1, <3>2, BlendedFacts
      <4>2. Q[j] * SbUnit \in Int
        BY <3>1 DEF SbUnit
      <4> QED BY <4>1, <4>2
    <3>5. s <= SbBlended(Q[j], Q[j + 1], k, d)
      BY <3>3, <3>4, <2>1
    <3> QED BY <3>2, <3>5
  <2>2. CASE j # n
    <3>1. j \in o .. n - 1 /\ j + 1 \in 1 .. n
      BY <2>0, <2>2
    <3>2. j \in H /\ j + 1 \in H /\ T[j] <= t /\ t < T[j + 1]
      BY <3>1, <2>0, <1>4
    <3>3. s <= SbBlended(P[j], P[j + 1], t - T[j], T[j + 1] - T[j])
      BY <3>1, <3>2 DEF SbPassed
    <3> QED BY <3>1, <3>3, <2>0
  <2> QED BY <2>1, <2>2
<1> QED BY <1>0, <1>1, <1>2, <1>3, <1>4 DEF SbPassed

\* A snapshot that is stored goes to the slot of its number.
LEMMA SbStoreEffect ==
  ASSUME SbInv, sb_mode = "interpolation", NEW snap \in SbSnapshot, snap.time = sb_time,
         sb_store(snap), UNCHANGED <<sb_mode, sb_time>>
  PROVE  /\ sb_snapshots' \in [SbSlots -> SbSnapshot] /\ sb_head' \in SbSlots
         /\ sb_count' \in 0 .. SbRing /\ sb_stored' \in Seq(SbSnapshot)
         /\ SbRinged' /\ SbTimely'
<1>0. PICK n \in Nat : n = Len(sb_stored) /\ sb_stored \in Seq(SbSnapshot)
  BY DEF SbInv, SbTypeOK
<1>1. /\ sb_head = n % SbRing
      /\ sb_count = IF n < SbRing THEN n ELSE SbRing
      /\ \A j \in 1 .. n : j > n - SbRing => sb_snapshots[j % SbRing] = sb_stored[j]
      /\ sb_count \in 0 .. SbRing /\ sb_snapshots \in [SbSlots -> SbSnapshot]
  BY <1>0 DEF SbInv, SbRinged, SbTypeOK
<1>2. PICK head : head = (sb_head + 1) % SbRing
  OBVIOUS
<1>3. /\ sb_head' = head /\ sb_snapshots' = [sb_snapshots EXCEPT ![head] = snap]
      /\ sb_count' = IF sb_count < SbRing THEN sb_count + 1 ELSE sb_count
      /\ sb_stored' = Append(sb_stored, snap)
  BY <1>2 DEF sb_store
<1>4. head = (n + 1) % SbRing /\ head \in SbSlots
  <2>1. n \in Int /\ SbRing \in Nat \ {0}
    BY SbConstants
  <2>2. ((n % SbRing) + 1) % SbRing = (n + 1) % SbRing
    BY <2>1, ModNext
  <2>3. (n + 1) % SbRing \in 0 .. SbRing - 1
    BY <2>1
  <2> QED BY <1>1, <1>2, <2>2, <2>3 DEF SbSlots
<1>5. PICK s : s = sb_stored'
  OBVIOUS
<1>6. /\ s \in Seq(SbSnapshot) /\ Len(s) = n + 1 /\ s[n + 1] = snap
      /\ \A j \in 1 .. n : s[j] = sb_stored[j]
  BY <1>0, <1>3, <1>5
<1>7. PICK ring : ring = sb_snapshots'
  OBVIOUS
<1>8. /\ ring \in [SbSlots -> SbSnapshot] /\ ring[head] = snap
      /\ \A i \in SbSlots : i # head => ring[i] = sb_snapshots[i]
  BY <1>1, <1>3, <1>4, <1>7
<1>9. ASSUME NEW j \in 1 .. n + 1, j > (n + 1) - SbRing PROVE ring[j % SbRing] = s[j]
  <2>1. CASE j = n + 1
    BY <2>1, <1>4, <1>6, <1>8
  <2>2. CASE j # n + 1
    <3>1. j \in 1 .. n /\ j > n - SbRing
      BY <2>2, <1>9, SbConstants
    <3>2. j \in Int /\ n + 1 \in Int /\ j - (n + 1) < SbRing /\ (n + 1) - j < SbRing
      BY <1>9, SbConstants
    <3>3. SbRing \in Nat \ {0}
      BY SbConstants
    <3>4. j % SbRing # (n + 1) % SbRing
      BY <3>2, <3>3, <2>2, ModApart
    <3>5. j % SbRing \in SbSlots
      BY <3>3 DEF SbSlots
    <3> QED BY <3>1, <3>4, <3>5, <1>1, <1>4, <1>6, <1>8
  <2> QED BY <2>1, <2>2
<1>10. sb_count' = IF n + 1 < SbRing THEN n + 1 ELSE SbRing
  BY <1>1, <1>3, SbConstants
<1>11. SbRinged'
  BY <1>3, <1>4, <1>5, <1>6, <1>7, <1>9, <1>10 DEF SbRinged
<1>12. sb_time \in Nat
  BY SbConstants DEF SbInv, SbTypeOK
<1>13. \A j \in 1 .. n + 1 : s[j].time <= sb_time
  BY <1>0, <1>6, <1>12 DEF SbInv, SbTimely
<1>14. \A j \in 1 .. n : s[j].time <= s[j + 1].time
  <2> SUFFICES ASSUME NEW j \in 1 .. n PROVE s[j].time <= s[j + 1].time
    OBVIOUS
  <2>1. CASE j = n
    BY <2>1, <1>6, <1>13
  <2>2. CASE j # n
    <3>1. j \in 1 .. n - 1 /\ j + 1 \in 1 .. n
      BY <2>2
    <3> QED BY <3>1, <1>0, <1>6 DEF SbInv, SbTimely
  <2> QED BY <2>1, <2>2
<1>15. SbTimely'
  <2>1. Len(s) - 1 = n
    BY <1>6
  <2> QED BY <2>1, <1>5, <1>6, <1>13, <1>14 DEF SbTimely
<1>16. sb_count' \in 0 .. SbRing
  BY <1>10, SbConstants
<1> QED BY <1>3, <1>4, <1>5, <1>6, <1>7, <1>8, <1>11, <1>15, <1>16

\* Receiving a snapshot, in the ring or not.
LEMMA SbReceiveEffect ==
  ASSUME SbInv, NEW has \in SUBSET SbEntities, NEW at \in SbPositions, sb_receive(has, at),
         UNCHANGED <<sb_mode, sb_time>>
  PROVE  /\ sb_snapshots' \in [SbSlots -> SbSnapshot] /\ sb_head' \in SbSlots
         /\ sb_count' \in 0 .. SbRing /\ sb_stored' \in Seq(SbSnapshot)
         /\ sb_shown' \in [SbEntities -> 0 .. SbMaxSnaps * SbUnit]
         /\ SbRinged' /\ SbTimely'
<1>0. sb_shown \in [SbEntities -> 0 .. SbMaxSnaps * SbUnit]
  BY DEF SbInv, SbTypeOK
<1>1. CASE sb_mode = "interpolation"
  <2>1. PICK snap : snap = [time |-> sb_time, has |-> has, at |-> at]
    OBVIOUS
  <2>2. snap \in SbSnapshot /\ snap.time = sb_time
    BY <2>1 DEF SbSnapshot, SbInv, SbTypeOK
  <2>3. sb_store(snap) /\ UNCHANGED sb_shown
    BY <1>1, <2>1 DEF sb_receive
  <2> QED BY <1>0, <1>1, <2>2, <2>3, SbStoreEffect
<1>2. CASE sb_mode # "interpolation"
  <2>1. /\ sb_shown' = [e \in SbEntities |-> IF e \in has THEN at[e] * SbUnit ELSE sb_shown[e]]
        /\ UNCHANGED <<sb_snapshots, sb_head, sb_count, sb_stored>>
    BY <1>2 DEF sb_receive
  <2>2. \A e \in SbEntities : at[e] * SbUnit \in 0 .. SbMaxSnaps * SbUnit
    BY SbConstants DEF SbPositions, SbUnit
  <2>3. sb_shown' \in [SbEntities -> 0 .. SbMaxSnaps * SbUnit]
    BY <2>1, <2>2, <1>0
  <2>4. SbRinged' /\ SbTimely'
    BY <2>1 DEF SbInv, SbRinged, SbTimely
  <2> QED BY <2>1, <2>3, <2>4 DEF SbInv, SbTypeOK
<1> QED BY <1>1, <1>2

\* Every step of the interpolation keeps the invariant.
LEMMA SbStepInv == SbInv /\ [SnapshotInterpolationNext]_sb_vars => SbInv'
<1> SUFFICES ASSUME SbInv, [SnapshotInterpolationNext]_sb_vars PROVE SbInv'
  OBVIOUS
<1>1. ASSUME NEW moved \in SUBSET SbEntities, NEW has \in SUBSET SbEntities,
             SbArrives(moved, has)
      PROVE  SbInv'
  <2>1. /\ SbMoved(moved) \in SbPositions /\ sb_server' = SbMoved(moved)
        /\ sb_receive(has, SbMoved(moved))
        /\ UNCHANGED <<sb_mode, sb_late, sb_reordered, sb_time, sb_render, sb_known,
                       sb_snapped>>
    BY <1>1 DEF SbArrives, SbSends
  <2>2. PICK at \in SbPositions : at = SbMoved(moved)
    BY <2>1
  <2>3. sb_receive(has, at)
    BY <2>1, <2>2
  <2>4. /\ sb_snapshots' \in [SbSlots -> SbSnapshot] /\ sb_head' \in SbSlots
        /\ sb_count' \in 0 .. SbRing /\ sb_stored' \in Seq(SbSnapshot)
        /\ sb_shown' \in [SbEntities -> 0 .. SbMaxSnaps * SbUnit]
        /\ SbRinged' /\ SbTimely'
    BY <2>1, <2>3, SbReceiveEffect
  <2>5. SbTypeOK'
    BY <2>1, <2>4 DEF SbInv, SbTypeOK
  <2> QED BY <2>4, <2>5 DEF SbInv
<1>2. ASSUME NEW moved \in SUBSET SbEntities, NEW has \in SUBSET SbEntities,
             SbIsLate(moved, has)
      PROVE  SbInv'
  <2>1. /\ SbMoved(moved) \in SbPositions /\ sb_server' = SbMoved(moved)
        /\ sb_late' = {[has |-> has, at |-> SbMoved(moved)]}
        /\ UNCHANGED <<sb_mode, sb_reordered, sb_time, sb_snapshots, sb_head, sb_count,
                       sb_stored, sb_render, sb_shown, sb_known, sb_snapped>>
    BY <1>2 DEF SbIsLate, SbSends
  <2>2. PICK at \in SbPositions : at = SbMoved(moved)
    BY <2>1
  <2>3. sb_late' \subseteq SbSent /\ sb_server' \in SbPositions
    BY <2>1, <2>2 DEF SbSent
  <2>4. SbTypeOK'
    BY <2>1, <2>3 DEF SbInv, SbTypeOK
  <2>5. SbRinged' /\ SbTimely'
    BY <2>1 DEF SbInv, SbRinged, SbTimely
  <2> QED BY <2>4, <2>5 DEF SbInv
<1>3. CASE SbArrivesLate
  <2>1. PICK s \in sb_late :
          /\ sb_receive(s.has, s.at) /\ sb_late' = {} /\ sb_reordered' = TRUE
          /\ UNCHANGED <<sb_mode, sb_server, sb_time, sb_render, sb_known, sb_snapped>>
    BY <1>3 DEF SbArrivesLate
  <2>2. s.has \in SUBSET SbEntities /\ s.at \in SbPositions
    BY DEF SbInv, SbTypeOK, SbSent
  <2>3. /\ sb_snapshots' \in [SbSlots -> SbSnapshot] /\ sb_head' \in SbSlots
        /\ sb_count' \in 0 .. SbRing /\ sb_stored' \in Seq(SbSnapshot)
        /\ sb_shown' \in [SbEntities -> 0 .. SbMaxSnaps * SbUnit]
        /\ SbRinged' /\ SbTimely'
    BY <2>1, <2>2, SbReceiveEffect
  <2>4. sb_reordered' \in BOOLEAN
    BY <2>1, Zenon
  <2>5. SbTypeOK'
    BY <2>1, <2>3, <2>4 DEF SbInv, SbTypeOK
  <2> QED BY <2>3, <2>5 DEF SbInv
<1>4. CASE sb_client_tick
  <2>1. /\ sb_time < SbMaxTime /\ sb_time' = sb_time + 1
        /\ UNCHANGED <<sb_mode, sb_server, sb_late, sb_reordered, sb_snapshots, sb_head,
                       sb_count, sb_stored, sb_render, sb_shown, sb_known, sb_snapped>>
    BY <1>4 DEF sb_client_tick
  <2>2. sb_time \in Nat /\ sb_time' \in 0 .. SbMaxTime
    BY <2>1, SbConstants DEF SbInv, SbTypeOK
  <2>3. SbTypeOK'
    BY <2>1, <2>2 DEF SbInv, SbTypeOK
  <2>4. SbRinged'
    BY <2>1 DEF SbInv, SbRinged
  <2>5. \A j \in 1 .. Len(sb_stored) : sb_stored[j].time \in Nat
    <3>1. sb_stored \in Seq(SbSnapshot)
      BY DEF SbInv, SbTypeOK
    <3>2. \A s \in SbSnapshot : s.time \in Nat
      BY SbConstants DEF SbSnapshot
    <3> QED BY <3>1, <3>2
  <2>6. SbTimely'
    <3>1. sb_time \in Int /\ sb_time' = sb_time + 1 /\ sb_stored' = sb_stored
      BY <2>1, <2>2
    <3>2. SbTimely
      BY DEF SbInv
    <3>3. \A j \in 1 .. Len(sb_stored) : sb_stored[j].time <= sb_time + 1
      BY <2>5, <3>1, <3>2 DEF SbTimely
    <3> QED BY <3>1, <3>2, <3>3 DEF SbTimely
  <2> QED BY <2>3, <2>4, <2>6 DEF SbInv
<1>5. ASSUME NEW render \in 1 .. sb_time, client_interpolate(render)
      PROVE  SbInv'
  <2>1. PICK target : target = render - SbDelay
    OBVIOUS
  <2>2. target \in Int /\ render \in 0 .. SbMaxTime
    BY <2>1, SbConstants DEF SbInv, SbTypeOK
  <2>3. /\ sb_mode = "interpolation" /\ sb_render' = render
        /\ UNCHANGED <<sb_mode, sb_server, sb_late, sb_reordered, sb_time, sb_snapshots,
                       sb_head, sb_count, sb_stored>>
    BY <1>5 DEF client_interpolate
  <2>4. /\ sb_shown' \in [SbEntities -> 0 .. SbMaxSnaps * SbUnit]
        /\ sb_known' \subseteq SbEntities /\ sb_snapped' \subseteq sb_known'
    <3>0. /\ sb_shown \in [SbEntities -> 0 .. SbMaxSnaps * SbUnit]
          /\ sb_known \subseteq SbEntities /\ sb_snapped \subseteq sb_known
      BY DEF SbInv, SbTypeOK
    <3>1. CASE find_bracketing(target) = {}
      <4>1. UNCHANGED <<sb_shown, sb_known, sb_snapped>>
        BY <1>5, <2>1, <3>1 DEF client_interpolate
      <4> QED BY <3>0, <4>1
    <3>2. CASE find_bracketing(target) # {}
      <4>1. PICK q : find_bracketing(target) = {q} /\ SbBracket(q, target)
        BY <2>2, <3>2, FindBracketing
      <4>2. PICK p : /\ p \in find_bracketing(target)
                     /\ LET extrapolating == target > p.newer.time
                            snapped == IF extrapolating THEN {} ELSE p.newer.has \ p.older.has IN
                        /\ sb_shown' = [e \in SbEntities |->
                                          IF e \notin p.newer.has THEN sb_shown[e]
                                          ELSE IF extrapolating \/ e \in snapped
                                               THEN p.newer.at[e] * SbUnit
                                               ELSE Blend(p, e)]
                        /\ sb_known' = sb_known \cup p.newer.has
                        /\ sb_snapped' = snapped \cap sb_known
        BY <1>5, <2>1, <3>2 DEF client_interpolate
      <4>3. SbBracket(p, target)
        BY <4>1, <4>2
      <4>4. /\ p.older \in SbSnapshot /\ p.newer \in SbSnapshot
            /\ p.num \in Int /\ 0 <= p.num /\ p.den \in Nat \ {0} /\ p.num <= p.den
        <5>1. PICK n \in Nat : n = Len(sb_stored) /\ sb_stored \in Seq(SbSnapshot)
          BY DEF SbInv, SbTypeOK
        <5>2. PICK i \in (IF n < SbRing THEN 1 ELSE n - SbRing + 1) .. n - 1 :
                /\ p.older = sb_stored[i] /\ p.newer = sb_stored[i + 1]
                /\ 0 <= p.num /\ p.num <= p.den /\ p.num \in Int /\ p.den \in Nat \ {0}
          BY <4>3, <5>1 DEF SbBracket
        <5>3. i \in 1 .. n /\ i + 1 \in 1 .. n
          BY SbConstants
        <5> QED BY <5>1, <5>2, <5>3
      <4>5. \A e \in SbEntities : /\ Blend(p, e) \in 0 .. SbMaxSnaps * SbUnit
                                  /\ p.newer.at[e] * SbUnit \in 0 .. SbMaxSnaps * SbUnit
        BY <4>4, BlendTyped
      <4>6. p.newer.has \subseteq SbEntities
        BY <4>4 DEF SbSnapshot
      <4>7. sb_shown' \in [SbEntities -> 0 .. SbMaxSnaps * SbUnit]
        BY <3>0, <4>2, <4>5
      <4>8. sb_known' \subseteq SbEntities /\ sb_snapped' \subseteq sb_known'
        BY <3>0, <4>2, <4>6
      <4> QED BY <4>7, <4>8
    <3> QED BY <3>1, <3>2
  <2>5. SbTypeOK'
    BY <2>2, <2>3, <2>4 DEF SbInv, SbTypeOK
  <2>6. SbRinged' /\ SbTimely'
    BY <2>3 DEF SbInv, SbRinged, SbTimely
  <2> QED BY <2>5, <2>6 DEF SbInv
<1>6. CASE UNCHANGED sb_vars
  <2>1. SbTypeOK'
    BY <1>6 DEF sb_vars, SbInv, SbTypeOK
  <2>2. SbRinged' /\ SbTimely'
    BY <1>6 DEF sb_vars, SbInv, SbRinged, SbTimely
  <2> QED BY <2>1, <2>2 DEF SbInv
<1> QED BY <1>1, <1>2, <1>3, <1>4, <1>5, <1>6 DEF SnapshotInterpolationNext

\* The invariant implies what the run checks.
LEMMA SbInvSound == SbInv => SbTypeOK /\ SbBrackets
<1> SUFFICES ASSUME SbInv PROVE SbBrackets
  BY DEF SbInv
<1> SUFFICES ASSUME Len(sb_stored) >= 2, NEW target \in -1 .. SbMaxTime
             PROVE  \E p \in find_bracketing(target) : SbBracket(p, target)
  <2> SUFFICES ASSUME NEW target \in -1 .. SbMaxTime, NEW p, SbBracket(p, target)
               PROVE  \E i \in SbOldest .. Len(sb_stored) - 1 :
                        /\ p.older = sb_stored[i] /\ p.newer = sb_stored[i + 1]
                        /\ 0 <= p.num /\ p.num <= p.den
                        /\ \/ sb_stored[i].time <= target /\ target <= sb_stored[i + 1].time
                           \/ /\ i = SbOldest /\ target < sb_stored[i].time
                              /\ p.num = 0
                           \/ /\ i = Len(sb_stored) - 1
                              /\ target > sb_stored[Len(sb_stored)].time
                              /\ p.num = p.den
    BY DEF SbBrackets, SbOldest
  <2>1. PICK n \in Nat : n = Len(sb_stored) /\ sb_stored \in Seq(SbSnapshot)
    BY DEF SbInv, SbTypeOK
  <2>2. PICK i \in SbOldest .. n - 1 :
          /\ p.older = sb_stored[i] /\ p.newer = sb_stored[i + 1]
          /\ 0 <= p.num /\ p.num <= p.den
          /\ \/ sb_stored[i].time < target /\ target <= sb_stored[i + 1].time
             \/ i = SbOldest /\ target <= sb_stored[i].time /\ p.num = 0
             \/ i = n - 1 /\ target >= sb_stored[n].time /\ p.num = p.den
    BY <2>1 DEF SbBracket, SbOldest
  <2>3. i \in 1 .. n - 1 /\ i \in 1 .. n /\ i + 1 \in 1 .. n /\ n \in 1 .. n
    BY <2>1, SbConstants DEF SbOldest
  <2>4. /\ sb_stored[i].time \in Int /\ sb_stored[i + 1].time \in Int
        /\ sb_stored[i].time <= sb_stored[i + 1].time
    <3>1. sb_stored[i] \in SbSnapshot /\ sb_stored[i + 1] \in SbSnapshot
      BY <2>1, <2>3
    <3> QED BY <3>1, <2>1, <2>3, SbConstants DEF SbSnapshot, SbInv, SbTimely
  <2>5. target \in Int
    OBVIOUS
  <2>6. \/ sb_stored[i].time <= target /\ target <= sb_stored[i + 1].time
        \/ i = SbOldest /\ target < sb_stored[i].time /\ p.num = 0
        \/ i = n - 1 /\ target > sb_stored[n].time /\ p.num = p.den
    BY <2>2, <2>3, <2>4, <2>5
  <2> QED BY <2>1, <2>2, <2>6
<1>1. ~(sb_count < 2)
  BY SbConstants DEF SbInv, SbRinged, SbTypeOK
<1>2. target \in Int
  OBVIOUS
<1> QED BY <1>1, <1>2, FindBracketing

\* However the ring has wrapped, a frame finds the two neighbours around its time.
THEOREM SbBracketsHolds == SnapshotInterpolationSpec => [](SbTypeOK /\ SbBrackets)
<1> QED BY SbInitInv, SbStepInv, SbInvSound, PTL DEF SnapshotInterpolationSpec

-----------------------------------------------------------------------------
(* What is shown moves forward.                                            *)

\* The snapshots stored, as times, positions of an entity and who holds it.
SbTimes == [j \in 1 .. Len(sb_stored) |-> sb_stored[j].time]
SbTrack(e) == [j \in 1 .. Len(sb_stored) |-> sb_stored[j].at[e]]
SbHeld(e) == {j \in 1 .. Len(sb_stored) : e \in sb_stored[j].has}

\* What is shown of an entity is behind the server and behind what the next frame can
\* show, whichever pair of the ring it finds.
SbEntityOnTrack(e) ==
  /\ sb_shown[e] <= sb_server[e] * SbUnit
  /\ SbClimbs(SbTimes, SbTrack(e), Len(sb_stored))
  /\ \A j \in 1 .. Len(sb_stored) : sb_stored[j].at[e] <= sb_server[e]
  /\ sb_mode = "interpolation" =>
       SbPassed(sb_shown[e], SbTimes, SbTrack(e), SbHeld(e), SbOldest,
                Len(sb_stored), sb_render - SbDelay)

SbOnTrack == ~sb_reordered => \A e \in SbEntities : SbEntityOnTrack(e)

\* One step of what is shown of an entity.
SbEntityOnward(e) ==
  sb_shown'[e] >= sb_shown[e] /\ sb_shown'[e] <= sb_server'[e] * SbUnit

\* What the types say of an entity.
LEMMA SbEntityTypes ==
  ASSUME SbInv, NEW e \in SbEntities
  PROVE  /\ sb_shown[e] \in Nat /\ sb_server[e] \in Nat /\ sb_server[e] * SbUnit \in Nat
         /\ Len(sb_stored) \in Nat /\ sb_render \in Int /\ sb_time \in Int
         /\ sb_stored \in Seq(SbSnapshot)
         /\ \A j \in 1 .. Len(sb_stored) :
              sb_stored[j].time \in Int /\ sb_stored[j].at[e] \in Nat
         /\ SbOldest \in Nat \ {0}
<1>1. /\ sb_shown[e] \in 0 .. SbMaxSnaps * SbUnit /\ sb_server[e] \in 0 .. SbMaxSnaps
      /\ sb_stored \in Seq(SbSnapshot) /\ Len(sb_stored) \in Nat
      /\ sb_render \in Int /\ sb_time \in Int
  BY SbConstants DEF SbInv, SbTypeOK, SbPositions
<1>2. \A s \in SbSnapshot : s.time \in Int /\ s.at[e] \in Nat
  BY SbConstants DEF SbSnapshot, SbPositions
<1>3. \A j \in 1 .. Len(sb_stored) : sb_stored[j] \in SbSnapshot
  BY <1>1
<1>4. SbMaxSnaps * SbUnit \in Nat
  BY SbConstants DEF SbUnit
<1>5. sb_shown[e] \in Nat /\ sb_server[e] \in Nat
  BY <1>1, <1>4, SbConstants
<1>6. sb_server[e] * SbUnit \in Nat
  BY <1>5 DEF SbUnit
<1>7. SbOldest \in Nat \ {0}
  BY <1>1, SbConstants DEF SbOldest
<1> QED BY <1>1, <1>2, <1>3, <1>5, <1>6, <1>7

\* The first frame is before every snapshot.
LEMMA SbTrackInit == SnapshotInterpolationInit => SbOnTrack
<1> SUFFICES ASSUME SnapshotInterpolationInit, NEW e \in SbEntities PROVE SbEntityOnTrack(e)
  BY DEF SbOnTrack
<1>1. /\ sb_shown[e] = 0 /\ sb_server[e] = 0 /\ Len(sb_stored) = 0 /\ SbOldest = 1
  BY SbConstants DEF SnapshotInterpolationInit, SbOldest
<1>2. 1 .. 0 = {} /\ 1 .. 0 - 1 = {}
  OBVIOUS
<1>3. SbClimbs(SbTimes, SbTrack(e), 0)
  BY <1>2 DEF SbClimbs
<1>4. \A T, P, H, t : SbPassed(0, T, P, H, 1, 0, t)
  BY <1>2 DEF SbPassed
<1> QED BY <1>1, <1>2, <1>3, <1>4 DEF SbEntityOnTrack, SbUnit

\* As long as nothing of the ring changes, the server may move on.
LEMMA SbTrackServer ==
  ASSUME SbInv, NEW e \in SbEntities, SbEntityOnTrack(e), SbInv',
         sb_server'[e] >= sb_server[e], UNCHANGED <<sb_mode, sb_stored, sb_render, sb_shown>>
  PROVE  SbEntityOnTrack(e)' /\ SbEntityOnward(e)
<1>1. /\ sb_shown[e] \in Nat /\ sb_server[e] \in Nat /\ sb_server'[e] \in Nat
      /\ \A j \in 1 .. Len(sb_stored) : sb_stored[j].at[e] \in Nat
  <2>1. sb_server' \in SbPositions
    BY DEF SbInv, SbTypeOK
  <2>2. sb_server'[e] \in Nat
    BY <2>1, SbConstants DEF SbPositions
  <2> QED BY <2>2, SbEntityTypes
<1>2. sb_shown'[e] = sb_shown[e] /\ sb_shown[e] <= sb_server'[e] * SbUnit
  BY <1>1 DEF SbEntityOnTrack, SbUnit
<1>3. \A j \in 1 .. Len(sb_stored') : sb_stored'[j].at[e] <= sb_server'[e]
  BY <1>1 DEF SbEntityOnTrack
<1>4. /\ SbTimes' = SbTimes /\ SbTrack(e)' = SbTrack(e) /\ SbHeld(e)' = SbHeld(e)
      /\ SbOldest' = SbOldest /\ (sb_render - SbDelay)' = sb_render - SbDelay
      /\ Len(sb_stored)' = Len(sb_stored)
  BY DEF SbTimes, SbTrack, SbHeld, SbOldest
<1>5. /\ SbClimbs(SbTimes', SbTrack(e)', Len(sb_stored'))
      /\ sb_mode' = "interpolation" =>
           SbPassed(sb_shown'[e], SbTimes', SbTrack(e)', SbHeld(e)', SbOldest',
                    Len(sb_stored'), sb_render' - SbDelay)
  BY <1>2, <1>4 DEF SbEntityOnTrack
<1> QED BY <1>1, <1>2, <1>3, <1>5 DEF SbEntityOnTrack, SbEntityOnward

\* A snapshot that arrives in order is ahead of all that are stored.
LEMMA SbTrackArrives ==
  ASSUME SbInv, SbInv', NEW e \in SbEntities, SbEntityOnTrack(e),
         NEW moved \in SUBSET SbEntities, NEW has \in SUBSET SbEntities, SbArrives(moved, has)
  PROVE  SbEntityOnTrack(e)' /\ SbEntityOnward(e)
<1>1. /\ SbMoved(moved) \in SbPositions /\ sb_server' = SbMoved(moved)
      /\ sb_receive(has, SbMoved(moved))
      /\ UNCHANGED <<sb_mode, sb_render, sb_time>>
  BY DEF SbArrives, SbSends
<1>2. PICK at : at = SbMoved(moved)
  OBVIOUS
<1>3. at \in SbPositions /\ at[e] \in Nat /\ sb_server' = at
  BY <1>1, <1>2, SbConstants DEF SbPositions
<1>4. sb_server[e] <= at[e]
  BY <1>2, SbEntityTypes DEF SbMoved
<1>t. /\ sb_shown[e] \in Nat /\ sb_server[e] \in Nat /\ sb_server[e] * SbUnit \in Nat
      /\ Len(sb_stored) \in Nat /\ sb_render \in Int /\ sb_time \in Int
      /\ sb_stored \in Seq(SbSnapshot)
      /\ \A j \in 1 .. Len(sb_stored) :
           sb_stored[j].time \in Int /\ sb_stored[j].at[e] \in Nat
      /\ SbOldest \in Nat \ {0}
  BY SbEntityTypes
<1>5. CASE sb_mode # "interpolation"
  <2>1. /\ sb_shown' = [f \in SbEntities |-> IF f \in has THEN at[f] * SbUnit ELSE sb_shown[f]]
        /\ UNCHANGED sb_stored
    BY <1>1, <1>2, <1>5 DEF sb_receive
  <2>2. sb_shown'[e] = IF e \in has THEN at[e] * SbUnit ELSE sb_shown[e]
    BY <2>1
  <2>3. sb_shown[e] <= sb_server[e] * SbUnit
    BY DEF SbEntityOnTrack
  <2>4. sb_server[e] * SbUnit <= at[e] * SbUnit /\ at[e] * SbUnit \in Nat
    BY <1>3, <1>4, <1>t DEF SbUnit
  <2>5. SbEntityOnward(e)
    BY <2>2, <2>3, <2>4, <1>3, <1>t DEF SbEntityOnward
  <2>6. sb_stored = << >> /\ Len(sb_stored') = 0 /\ 1 .. 0 = {}
    BY <1>5, <2>1 DEF SbInv, SbRinged
  <2>7. SbClimbs(SbTimes', SbTrack(e)', Len(sb_stored'))
    BY <2>6 DEF SbClimbs
  <2> QED BY <2>5, <2>6, <2>7, <1>1, <1>5 DEF SbEntityOnTrack, SbEntityOnward
<1>6. CASE sb_mode = "interpolation"
  <2>1. PICK snap : snap = [time |-> sb_time, has |-> has, at |-> at]
    OBVIOUS
  <2>2. sb_stored' = Append(sb_stored, snap) /\ sb_shown' = sb_shown
    BY <1>1, <1>2, <1>6, <2>1 DEF sb_receive, sb_store
  <2>3. snap.time = sb_time /\ snap.at[e] = at[e] /\ snap.has = has
    BY <2>1
  <2>4. PICK n \in Nat : n = Len(sb_stored)
    BY <1>t
  <2>5. /\ Len(sb_stored') = n + 1 /\ sb_stored'[n + 1] = snap
        /\ \A j \in 1 .. n : sb_stored'[j] = sb_stored[j]
    BY <2>2, <2>4, <1>t
  <2>6. /\ SbTimes'[n + 1] = sb_time /\ SbTrack(e)'[n + 1] = at[e]
        /\ \A j \in 1 .. n :
             /\ SbTimes'[j] = sb_stored[j].time /\ SbTimes[j] = sb_stored[j].time
             /\ SbTrack(e)'[j] = sb_stored[j].at[e] /\ SbTrack(e)[j] = sb_stored[j].at[e]
             /\ j \in SbHeld(e)' <=> j \in SbHeld(e)
    BY <2>3, <2>4, <2>5 DEF SbTimes, SbTrack, SbHeld
  <2>7. PICK T : T = SbTimes
    OBVIOUS
  <2>8. PICK P : P = SbTrack(e)
    OBVIOUS
  <2>9. PICK H : H = SbHeld(e)
    OBVIOUS
  <2>10. PICK U : U = SbTimes'
    OBVIOUS
  <2>11. PICK Q : Q = SbTrack(e)'
    OBVIOUS
  <2>12. PICK G : G = SbHeld(e)'
    OBVIOUS
  <2>13. SbClimbs(T, P, n)
    BY <2>4, <2>7, <2>8 DEF SbEntityOnTrack
  <2>14. \A j \in 1 .. n :
           /\ U[j] = T[j] /\ Q[j] = P[j] /\ (j \in G <=> j \in H)
           /\ T[j] <= sb_time /\ P[j] <= at[e] /\ T[j] \in Int /\ P[j] \in Nat
    <3>1. \A j \in 1 .. n : sb_stored[j].time <= sb_time
      BY <2>4 DEF SbInv, SbTimely
    <3>2. \A j \in 1 .. n : sb_stored[j].at[e] <= at[e]
      BY <2>4, <1>3, <1>4, <1>t DEF SbEntityOnTrack
    <3>3. \A j \in 1 .. n : sb_stored[j].time \in Int /\ sb_stored[j].at[e] \in Nat
      BY <2>4, <1>t
    <3> QED BY <3>1, <3>2, <3>3, <2>6, <2>7, <2>8, <2>9, <2>10, <2>11, <2>12
  <2>15. U[n + 1] = sb_time /\ Q[n + 1] = at[e]
    BY <2>6, <2>10, <2>11
  <2>16. SbClimbs(U, Q, n + 1)
    <3>1. ASSUME NEW i \in 1 .. n + 1 PROVE U[i] \in Int /\ Q[i] \in Nat
      BY <2>14, <2>15, <1>3, <1>t
    <3>2. ASSUME NEW i \in 1 .. n + 1, NEW j \in 1 .. n + 1, i <= j
          PROVE  U[i] <= U[j] /\ Q[i] <= Q[j]
      <4>1. CASE j = n + 1 /\ i = n + 1
        BY <4>1, <3>1
      <4>2. CASE j = n + 1 /\ i # n + 1
        <5>1. i \in 1 .. n
          BY <4>2
        <5> QED BY <4>2, <5>1, <2>14, <2>15
      <4>3. CASE j # n + 1
        <5>1. i \in 1 .. n /\ j \in 1 .. n
          BY <3>2, <4>3
        <5> QED BY <5>1, <3>2, <2>13, <2>14 DEF SbClimbs
      <4> QED BY <4>1, <4>2, <4>3
    <3> QED BY <3>1, <3>2 DEF SbClimbs
  <2>17. PICK t \in Int : t = sb_render - SbDelay
    BY <1>t, SbConstants
  <2>18. PICK s \in Nat : s = sb_shown[e]
    BY <1>t
  <2>19. PICK o \in Nat \ {0} : o = SbOldest
    BY <1>t
  <2>20. PICK r \in Nat : r = IF n + 1 < SbRing THEN 1 ELSE (n + 1) - SbRing + 1
    <3>1. CASE n + 1 < SbRing
      BY <3>1
    <3>2. CASE ~(n + 1 < SbRing)
      <4>1. (n + 1) - SbRing + 1 \in Nat
        BY <3>2, SbConstants
      <4> QED BY <3>2, <4>1
    <3> QED BY <3>1, <3>2
  <2>o. r = SbOldest'
    BY <2>5, <2>20 DEF SbOldest
  <2>21. o <= r
    BY <2>4, <2>19, <2>20, SbConstants DEF SbOldest
  <2>22. SbPassed(s, T, P, H, o, n, t)
    BY <1>6, <2>4, <2>7, <2>8, <2>9, <2>17, <2>18, <2>19 DEF SbEntityOnTrack
  <2>23. SbPassed(s, U, Q, G, r, n + 1, t)
    <3>1. s \in Int
      OBVIOUS
    <3>2. \A j \in 1 .. n : U[j] = T[j] /\ Q[j] = P[j] /\ (j \in G <=> j \in H)
      BY <2>14
    <3> QED BY <3>1, <3>2, <2>13, <2>16, <2>21, <2>22, StoreForward
  <2>24. SbPassed(sb_shown'[e], SbTimes', SbTrack(e)', SbHeld(e)', SbOldest',
                  Len(sb_stored'), sb_render' - SbDelay)
    BY <1>1, <2>2, <2>5, <2>10, <2>11, <2>12, <2>17, <2>18, <2>o, <2>23
  <2>25. SbClimbs(SbTimes', SbTrack(e)', Len(sb_stored'))
    BY <2>5, <2>10, <2>11, <2>16
  <2>26. \A j \in 1 .. Len(sb_stored') : sb_stored'[j].at[e] <= sb_server'[e]
    <3> SUFFICES ASSUME NEW j \in 1 .. n + 1 PROVE sb_stored'[j].at[e] <= at[e]
      BY <2>5, <1>3
    <3>1. CASE j = n + 1
      BY <3>1, <2>3, <2>5, <1>3
    <3>2. CASE j # n + 1
      <4>1. j \in 1 .. n
        BY <3>2
      <4>2. sb_stored'[j] = sb_stored[j] /\ P[j] = sb_stored[j].at[e] /\ P[j] <= at[e]
        BY <4>1, <2>5, <2>6, <2>8, <2>14
      <4> QED BY <4>2
    <3> QED BY <3>1, <3>2
  <2>27. sb_shown[e] <= at[e] * SbUnit
    <3>1. sb_shown[e] <= sb_server[e] * SbUnit
      BY DEF SbEntityOnTrack
    <3>2. sb_server[e] * SbUnit <= at[e] * SbUnit /\ at[e] * SbUnit \in Nat
      BY <1>3, <1>4, <1>t DEF SbUnit
    <3> QED BY <3>1, <3>2, <1>t
  <2> QED BY <2>2, <2>24, <2>25, <2>26, <2>27, <1>3, <1>t DEF SbEntityOnTrack, SbEntityOnward
<1> QED BY <1>5, <1>6

\* A frame.
LEMMA SbTrackFrame ==
  ASSUME SbInv, SbInv', NEW e \in SbEntities, SbEntityOnTrack(e),
         NEW render \in 1 .. sb_time, client_interpolate(render)
  PROVE  SbEntityOnTrack(e)' /\ SbEntityOnward(e)
<1>t. /\ sb_shown[e] \in Nat /\ sb_server[e] \in Nat /\ sb_server[e] * SbUnit \in Nat
      /\ Len(sb_stored) \in Nat /\ sb_render \in Int /\ sb_time \in Int
      /\ sb_stored \in Seq(SbSnapshot)
      /\ \A j \in 1 .. Len(sb_stored) :
           sb_stored[j].time \in Int /\ sb_stored[j].at[e] \in Nat
      /\ SbOldest \in Nat \ {0}
  BY SbEntityTypes
<1>1. /\ sb_mode = "interpolation" /\ sb_render' = render /\ render > sb_render
      /\ UNCHANGED <<sb_mode, sb_server, sb_stored, sb_count>>
  BY DEF client_interpolate
<1>2. PICK u \in Int : u = render - SbDelay
  BY <1>t, SbConstants
<1>3. PICK t \in Int : t = sb_render - SbDelay
  BY <1>t, SbConstants
<1>4. t < u
  BY <1>1, <1>2, <1>3, <1>t, SbConstants
<1>5. PICK n \in Nat : n = Len(sb_stored)
  BY <1>t
<1>6. PICK o \in Nat \ {0} : o = SbOldest
  BY <1>t
<1>7. PICK T : T = SbTimes
  OBVIOUS
<1>8. PICK P : P = SbTrack(e)
  OBVIOUS
<1>9. PICK H : H = SbHeld(e)
  OBVIOUS
<1>10. PICK s \in Nat : s = sb_shown[e]
  BY <1>t
<1>11. SbPassed(s, T, P, H, o, n, t) /\ SbClimbs(T, P, n)
  BY <1>1, <1>3, <1>5, <1>6, <1>7, <1>8, <1>9, <1>10 DEF SbEntityOnTrack
<1>12. /\ SbTimes' = T /\ SbTrack(e)' = P /\ SbHeld(e)' = H /\ SbOldest' = o
       /\ Len(sb_stored') = n /\ sb_render' - SbDelay = u
  BY <1>1, <1>2, <1>5, <1>6, <1>7, <1>8, <1>9 DEF SbTimes, SbTrack, SbHeld, SbOldest
\* It is enough to know what is shown.
<1>13. ASSUME NEW v \in Int, sb_shown'[e] = v, s <= v, SbPassed(v, T, P, H, o, n, u),
              v <= sb_server[e] * SbUnit
       PROVE  SbEntityOnTrack(e)' /\ SbEntityOnward(e)
  <2>1. SbEntityOnward(e)
    BY <1>13, <1>1, <1>10 DEF SbEntityOnward
  <2>2. SbPassed(sb_shown'[e], SbTimes', SbTrack(e)', SbHeld(e)', SbOldest',
                 Len(sb_stored'), sb_render' - SbDelay)
    BY <1>12, <1>13
  <2>3. SbClimbs(SbTimes', SbTrack(e)', Len(sb_stored'))
    BY <1>11, <1>12
  <2>4. \A j \in 1 .. Len(sb_stored') : sb_stored'[j].at[e] <= sb_server'[e]
    BY <1>1 DEF SbEntityOnTrack
  <2> QED BY <2>1, <2>2, <2>3, <2>4, <1>13, <1>1 DEF SbEntityOnTrack
<1>14. CASE find_bracketing(u) = {}
  <2>1. sb_shown' = sb_shown
    BY <1>2, <1>14 DEF client_interpolate
  <2>2. sb_count < 2
    BY <1>14, FindBracketing
  <2>3. n < 2
    BY <2>2, <1>5, SbConstants DEF SbInv, SbRinged
  <2>4. n - 1 < 1 /\ \A j \in o .. n : j \in 1 .. n
    BY <2>3
  <2>5. SbPassed(s, T, P, H, o, n, u)
    <3>1. \A j \in o .. n : T[j] \in Int
      BY <2>4, <1>11 DEF SbClimbs
    <3>2. \A j \in o .. n - 1 : FALSE
      BY <2>4
    <3>3. \A j \in o .. n : T[j] > u => T[j] > t
      BY <3>1, <1>4
    <3> QED BY <3>2, <3>3, <1>11 DEF SbPassed
  <2>6. s <= sb_server[e] * SbUnit
    BY <1>10 DEF SbEntityOnTrack
  <2> QED BY <2>1, <2>5, <2>6, <1>10, <1>13
<1>15. CASE find_bracketing(u) # {}
  <2>1. PICK q : find_bracketing(u) = {q} /\ SbBracket(q, u)
    BY <1>15, FindBracketing
  <2>2. PICK p : /\ p \in find_bracketing(u)
                 /\ LET extrapolating == u > p.newer.time
                        snapped == IF extrapolating THEN {} ELSE p.newer.has \ p.older.has IN
                    sb_shown' = [f \in SbEntities |->
                                   IF f \notin p.newer.has THEN sb_shown[f]
                                   ELSE IF extrapolating \/ f \in snapped
                                        THEN p.newer.at[f] * SbUnit
                                        ELSE Blend(p, f)]
    BY <1>2, <1>15 DEF client_interpolate
  <2>3. SbBracket(p, u)
    BY <2>1, <2>2
  <2>4. PICK i \in o .. n - 1 :
          /\ p.older = sb_stored[i] /\ p.newer = sb_stored[i + 1]
          /\ 0 <= p.num /\ p.num <= p.den /\ p.num \in Int /\ p.den \in Nat \ {0}
          /\ \/ /\ sb_stored[i].time < u /\ u <= sb_stored[i + 1].time
                /\ p.num = u - sb_stored[i].time
                /\ p.den = sb_stored[i + 1].time - sb_stored[i].time
             \/ i = o /\ u <= sb_stored[i].time /\ p.num = 0
             \/ i = n - 1 /\ u >= sb_stored[n].time /\ p.num = p.den
    BY <2>3, <1>5, <1>6 DEF SbBracket, SbOldest
  <2>5. i \in 1 .. n /\ i + 1 \in 1 .. n /\ n \in 1 .. n /\ o \in 1 .. n - 1
    OBVIOUS
  <2>6. \A j \in 1 .. n : /\ T[j] = sb_stored[j].time /\ P[j] = sb_stored[j].at[e]
                          /\ j \in H <=> e \in sb_stored[j].has
    BY <1>5, <1>7, <1>8, <1>9 DEF SbTimes, SbTrack, SbHeld
  <2>7. PICK num \in Nat, den \in Nat \ {0} : num = p.num /\ den = p.den /\ num <= den
    BY <2>4
  <2>8. \/ T[i] < u /\ u <= T[i + 1] /\ num = u - T[i] /\ den = T[i + 1] - T[i]
        \/ i = o /\ u <= T[i] /\ num = 0
        \/ i = n - 1 /\ u >= T[n] /\ num = den
    BY <2>4, <2>5, <2>6, <2>7
  <2>9. PICK v : v = SbValue(s, T, P, H, i, num, den, u)
    OBVIOUS
  <2>10. s <= v /\ v \in Int /\ SbPassed(v, T, P, H, o, n, u)
    <3>1. s \in Int
      OBVIOUS
    <3> QED BY <3>1, <2>5, <2>7, <2>8, <2>9, <1>4, <1>11, FrameForward
  <2>11. sb_shown'[e] = v
    <3>1. Blend(p, e) = SbBlended(P[i], P[i + 1], num, den)
      BY <2>4, <2>5, <2>6, <2>7 DEF Blend, SbBlended
    <3>2. /\ e \in p.newer.has <=> i + 1 \in H
          /\ e \in p.older.has <=> i \in H
          /\ p.newer.time = T[i + 1] /\ p.newer.at[e] = P[i + 1]
      BY <2>4, <2>5, <2>6
    <3>3. sb_shown'[e] = IF i + 1 \notin H THEN s
                         ELSE IF u > T[i + 1] \/ i \notin H THEN P[i + 1] * SbUnit
                         ELSE SbBlended(P[i], P[i + 1], num, den)
      BY <2>2, <3>1, <3>2, <1>10
    <3> QED BY <3>3, <2>9 DEF SbValue
  <2>12. v <= sb_server[e] * SbUnit
    <3>1. v <= P[n] * SbUnit
      BY <2>5, <2>10 DEF SbPassed
    <3>2. P[n] \in Nat /\ P[n] <= sb_server[e]
      BY <2>5, <2>6, <1>5, <1>t DEF SbEntityOnTrack
    <3>3. P[n] * SbUnit <= sb_server[e] * SbUnit /\ P[n] * SbUnit \in Int
      BY <3>2, <1>t, SMTT(30) DEF SbUnit
    <3> QED BY <3>1, <3>3, <2>10, <1>t
  <2> QED BY <2>10, <2>11, <2>12, <1>13
<1> QED BY <1>14, <1>15

\* Every step, as long as the snapshots arrive in order.
LEMMA SbTrackStep ==
  ASSUME SbInv, SbInv', SbOnTrack, [SnapshotInterpolationNext]_sb_vars, ~sb_reordered',
         NEW e \in SbEntities
  PROVE  SbEntityOnTrack(e)' /\ SbEntityOnward(e)
<1>1. ASSUME NEW moved \in SUBSET SbEntities, NEW has \in SUBSET SbEntities,
             SbArrives(moved, has)
      PROVE  SbEntityOnTrack(e)' /\ SbEntityOnward(e)
  <2>1. ~sb_reordered
    BY <1>1 DEF SbArrives
  <2> QED BY <1>1, <2>1, SbTrackArrives DEF SbOnTrack
<1>2. ASSUME NEW moved \in SUBSET SbEntities, NEW has \in SUBSET SbEntities,
             SbIsLate(moved, has)
      PROVE  SbEntityOnTrack(e)' /\ SbEntityOnward(e)
  <2>1. /\ ~sb_reordered /\ sb_server' = SbMoved(moved)
        /\ UNCHANGED <<sb_mode, sb_stored, sb_render, sb_shown>>
    BY <1>2 DEF SbIsLate, SbSends
  <2>2. sb_server'[e] >= sb_server[e]
    BY <2>1, SbEntityTypes DEF SbMoved
  <2> QED BY <2>1, <2>2, SbTrackServer DEF SbOnTrack
<1>3. CASE SbArrivesLate
  BY <1>3 DEF SbArrivesLate
<1>4. CASE sb_client_tick \/ UNCHANGED sb_vars
  <2>1. ~sb_reordered /\ UNCHANGED <<sb_mode, sb_server, sb_stored, sb_render, sb_shown>>
    BY <1>4 DEF sb_client_tick, sb_vars
  <2>2. sb_server'[e] >= sb_server[e]
    BY <2>1, SbEntityTypes
  <2> QED BY <2>1, <2>2, SbTrackServer DEF SbOnTrack
<1>5. ASSUME NEW render \in 1 .. sb_time, client_interpolate(render)
      PROVE  SbEntityOnTrack(e)' /\ SbEntityOnward(e)
  <2>1. ~sb_reordered
    BY <1>5 DEF client_interpolate
  <2> QED BY <1>5, <2>1, SbTrackFrame DEF SbOnTrack
<1> QED BY <1>1, <1>2, <1>3, <1>4, <1>5 DEF SnapshotInterpolationNext

\* What is shown of an entity never moves back from frame to frame and is never ahead
\* of the server as long as snapshots arrive in order, for every ring, delay and number
\* of snapshots and whatever entities they hold.
THEOREM SbForwardHolds == SnapshotInterpolationSpec => SbForward
<1>1. SbInv /\ SbInv' /\ SbOnTrack /\ [SnapshotInterpolationNext]_sb_vars => SbOnTrack'
  BY SbTrackStep DEF SbOnTrack
<1>2. SbInv /\ SbInv' /\ SbOnTrack /\ [SnapshotInterpolationNext]_sb_vars
        => [~sb_reordered' => SbOnward]_sb_vars
  BY SbTrackStep DEF SbOnward, SbEntityOnward
<1>3. SbInv /\ [SnapshotInterpolationNext]_sb_vars => SbInv'
  BY SbStepInv
<1> QED BY <1>1, <1>2, <1>3, SbInitInv, SbTrackInit, PTL DEF SnapshotInterpolationSpec, SbForward

-----------------------------------------------------------------------------
(* NetworkClock.                                                           *)

\* The bound of the model on the distance of the clocks is wide enough for the ticks
\* that pass while a snapshot is on its way.
ClkNear == \A l \in ClkLatencies : l <= (ClkFar + 3) * ClkInterval

\* The time since the newest snapshot that can be there arrived.
ClkSince(phase) == phase + ClkAge(phase) * ClkInterval - clk_latency

\* How far the client's clock is ahead, in units of time.
ClkLead == clk_ahead * ClkInterval + clk_acc - clk_phase

\* The bound on clk_ahead, in units of time.
ClkReach == (ClkFar + 4) * ClkInterval

\* An alignment takes half a tick, and time passes before the next one: it is never
\* taken twice from the same tick.
ClkPaid ==
  LET half == ClkInterval \div 2 IN
  /\ ~clk_new => clk_acc >= -half \/ clk_acc >= ClkSince(clk_phase) - ClkInterval
  /\ clk_new => clk_acc >= 0 \/ clk_acc >= ClkSince(clk_phase) - half

\* What the steps keep: ClkTypeOK without the bounds that follow from the rest.
ClkTyped ==
  /\ clk_latency \in ClkLatencies /\ clk_synced \in BOOLEAN
  /\ clk_phase \in 0 .. ClkInterval - 1
  /\ clk_ahead \in Int
  /\ clk_acc \in Int /\ clk_acc <= ClkInterval - 1
  /\ clk_new \in BOOLEAN /\ clk_ticked \in BOOLEAN

ClkInv == ClkTyped /\ ClkPaid /\ -ClkReach <= ClkLead /\ ClkLead <= ClkReach - 2 * ClkInterval

\* What the assumptions say of the interval.
LEMMA ClkConstants ==
  /\ ClkInterval \in Nat \ {0} /\ ClkInterval = 2 * (ClkInterval \div 2)
  /\ ClkInterval \div 2 \in Nat \ {0}
  /\ ClkFar \in Nat /\ ClkLatencies \subseteq Nat /\ ClkFrames \subseteq Nat \ {0}
BY ClkAssumption

\* The age of the newest snapshot is the one that makes ClkSince a phase.
LEMMA ClkAgeFacts ==
  ASSUME clk_latency \in Nat, NEW p \in 0 .. ClkInterval - 1
  PROVE  ClkAge(p) \in Nat /\ ClkSince(p) \in 0 .. ClkInterval - 1
<1>0. PICK I \in Nat \ {0} : I = ClkInterval
  BY ClkConstants
<1>1. CASE p >= clk_latency
  <2>1. ClkAge(p) = 0
    BY <1>1 DEF ClkAge
  <2>2. ClkSince(p) = p - clk_latency
    BY <1>0, <2>1 DEF ClkSince
  <2> QED BY <1>0, <1>1, <2>1, <2>2
<1>2. CASE p < clk_latency
  <2> PICK a \in Nat : a = clk_latency - p + I - 1
    BY <1>0, <1>2
  <2>1. ClkAge(p) = a \div I
    BY <1>0, <1>2 DEF ClkAge
  <2>2. PICK q \in Int : q = a \div I /\ I * q <= a /\ a < I * q + I
    BY <1>0
  <2>3. q >= 0
    <3>1. ASSUME q <= -1 PROVE FALSE
      <4>1. I * q <= I * (-1)
        BY <3>1, <1>0, ProductMonotone
      <4> QED BY <4>1, <2>2
    <3> QED BY <3>1
  <2>4. ClkSince(p) = p + I * q - clk_latency
    BY <1>0, <2>1, <2>2 DEF ClkSince
  <2> QED BY <1>0, <2>1, <2>2, <2>3, <2>4
<1> QED BY <1>0, <1>1, <1>2

\* The tick the server is expected at is off by at most one.
LEMMA ClkExpectedNear ==
  ASSUME clk_latency \in Nat, clk_phase \in 0 .. ClkInterval - 1
  PROVE  ClkExpected \in -1 .. 1
<1>0. PICK I \in Nat \ {0} : I = ClkInterval
  BY ClkConstants
<1>1. PICK g \in Nat : g = ClkAge(clk_phase) /\ ClkSince(clk_phase) \in 0 .. I - 1
  BY <1>0, ClkAgeFacts
<1>2. PICK v \in 0 .. I - 1 : v = clk_phase + g * I - clk_latency
  BY <1>0, <1>1 DEF ClkSince
<1> PICK a \in Nat, b \in Nat \ {0} : a = 2 * clk_latency + I /\ b = 2 * I
  BY <1>0
<1>a. b * (a \div b) <= a /\ a < b * (a \div b) + b /\ a \div b \in Int
  <2>1. a \in Int
    OBVIOUS
  <2> QED BY <2>1, DivFacts
<1>3. PICK e \in Int : e = a \div b /\ b * e <= a /\ a < b * e + b
  BY <1>a
<1>4. ClkExpected = e - g
  BY <1>0, <1>1, <1>3 DEF ClkExpected
<1>5. PICK d \in Int : d = e - g
  OBVIOUS
<1>6. b * e = b * g + b * d /\ b * g = 2 * (g * I)
  BY <1>5
<1>7. g * I = v + clk_latency - clk_phase
  BY <1>0, <1>2
<1>8. b * d <= I - 2 * v + 2 * clk_phase /\ I - 2 * v + 2 * clk_phase < b * d + b
  BY <1>3, <1>6, <1>7, <1>0
<1>9. b * d < 3 * I /\ b * d + b > 2 - I
  BY <1>0, <1>2, <1>8
<1>10. ASSUME d >= 2 PROVE FALSE
  <2>1. b * 2 <= b * d
    BY <1>10, ProductMonotone
  <2> QED BY <2>1, <1>9, <1>0
<1>11. ASSUME d <= -2 PROVE FALSE
  <2>1. b * d <= b * (-2)
    BY <1>11, ProductMonotone
  <2> QED BY <2>1, <1>9, <1>0
<1> QED BY <1>4, <1>5, <1>10, <1>11

\* The invariant implies the ranges that the run checks.
LEMMA ClkBounds == ClkInv => ClkTypeOK
<1> SUFFICES ASSUME ClkInv PROVE ClkTypeOK
  OBVIOUS
<1>0. PICK I \in Nat \ {0}, h \in Nat : I = ClkInterval /\ h = ClkInterval \div 2 /\ I = 2 * h
  BY ClkConstants
<1>1. clk_latency \in Nat
  BY ClkConstants DEF ClkInv, ClkTyped
<1>2. ClkSince(clk_phase) \in 0 .. I - 1 /\ clk_phase \in 0 .. I - 1
  BY <1>0, <1>1, ClkAgeFacts DEF ClkInv, ClkTyped
<1>3. clk_acc \in -I .. I - 1
  BY <1>0, <1>2 DEF ClkInv, ClkTyped, ClkPaid
<1>4. PICK a \in Int, F \in Nat, r \in Int, l \in Int :
        /\ a = clk_ahead /\ F = ClkFar + 4 /\ r = F * I
        /\ l = a * I + clk_acc - clk_phase /\ -r <= l /\ l <= r - 2 * I
  BY <1>0, <1>2, <1>3, ClkConstants DEF ClkInv, ClkTyped, ClkLead, ClkReach
<1>5. I * a < I * F /\ I * a > I * (-F) - I
  BY <1>2, <1>3, <1>4
<1>6. ASSUME a > F PROVE FALSE
  <2>1. I * F <= I * a
    BY <1>6, ProductMonotone
  <2> QED BY <2>1, <1>5
<1>7. ASSUME a <= -F - 1 PROVE FALSE
  <2>1. I * a <= I * (-F - 1)
    BY <1>7, ProductMonotone
  <2>2. I * (-F - 1) = I * (-F) - I
    OBVIOUS
  <2> QED BY <2>1, <2>2, <1>5
<1>8. clk_ahead \in -(ClkFar + 4) .. ClkFar + 4
  BY <1>4, <1>6, <1>7, ClkConstants
<1> QED BY <1>0, <1>3, <1>8 DEF ClkInv, ClkTyped, ClkTypeOK

\* The clocks start near each other.
LEMMA ClkInitInv == ClkNear /\ NetworkClockInit => ClkInv
<1> SUFFICES ASSUME ClkNear, NetworkClockInit PROVE ClkInv
  OBVIOUS
<1>0. PICK I \in Nat \ {0} : I = ClkInterval
  BY ClkConstants
<1>1. clk_synced \in BOOLEAN /\ clk_new \in BOOLEAN /\ clk_ticked \in BOOLEAN
  BY Zenon DEF NetworkClockInit
<1>2. ClkTyped
  BY <1>1, ClkConstants DEF NetworkClockInit, ClkTyped
<1>3. ClkPaid
  BY ClkConstants DEF NetworkClockInit, ClkPaid
<1>4. PICK a \in Int, F \in Nat : a = clk_ahead /\ F = ClkFar /\ -F <= a /\ a <= F
  BY ClkConstants DEF NetworkClockInit
<1>5. I * (-F) <= I * a /\ I * a <= I * F
  BY <1>4, ProductMonotone
<1>6. ClkLead = I * a - clk_phase /\ clk_phase \in 0 .. I - 1
  BY <1>0, <1>4 DEF NetworkClockInit, ClkLead
<1>7. ClkReach = I * F + 4 * I /\ I * (-F) = -(I * F)
  BY <1>0, <1>4 DEF ClkReach
<1> QED BY <1>0, <1>2, <1>3, <1>5, <1>6, <1>7 DEF ClkInv

\* A frame: both clocks move on, and a snapshot arrives when ClkSince wraps.
LEMMA ClkAdvanceInv ==
  ASSUME ClkInv, NEW dt \in ClkFrames, advance(dt)
  PROVE  ClkInv'
<1>0. PICK I \in Nat \ {0}, h \in Nat \ {0} :
        I = ClkInterval /\ h = ClkInterval \div 2 /\ I = 2 * h
  BY ClkConstants
<1>1. dt \in Nat \ {0} /\ clk_latency \in Nat
  BY ClkConstants DEF ClkInv, ClkTyped
<1>2. /\ clk_phase \in 0 .. I - 1 /\ clk_ahead \in Int
      /\ clk_acc \in Int /\ clk_acc <= I - 1 /\ clk_new \in BOOLEAN
  BY <1>0 DEF ClkInv, ClkTyped
<1>3. PICK server \in Int, phase \in 0 .. I - 1 :
        /\ server = (clk_phase + dt) \div ClkInterval
        /\ phase = (clk_phase + dt) % ClkInterval
        /\ clk_phase + dt = I * server + phase
  <2>1. clk_phase + dt \in Int
    BY <1>0, <1>1, <1>2
  <2> QED BY <2>1, <1>0, DivFacts, ZenonT(30)
<1>4. PICK ticks \in Int :
        /\ ticks = IF clk_acc + dt >= 0 THEN (clk_acc + dt) \div ClkInterval ELSE 0
        /\ clk_acc + dt - I * ticks <= I - 1
        /\ clk_acc + dt >= 0 => clk_acc + dt - I * ticks >= 0
        /\ clk_acc + dt < 0 => ticks = 0
  BY <1>0, <1>1, <1>2
<1>5. /\ clk_phase' = phase
      /\ clk_acc' = clk_acc + dt - ticks * ClkInterval
      /\ clk_ahead' = clk_ahead + ticks - server
      /\ clk_new' = (clk_new \/ ClkAge(phase) - server # ClkAge(clk_phase))
      /\ clk_ticked' = (ticks > 0)
      /\ UNCHANGED <<clk_latency, clk_synced>>
  BY <1>3, <1>4 DEF advance
<1>6. PICK acc \in Int : acc = clk_acc' /\ acc = clk_acc + dt - I * ticks
  <2>1. ticks * ClkInterval = I * ticks /\ I * ticks \in Int
    BY <1>0
  <2>2. clk_acc + dt - I * ticks \in Int
    BY <2>1, <1>1, <1>2
  <2> QED BY <2>1, <2>2, <1>5
<1>7. PICK g \in Nat, k \in Nat, v \in 0 .. I - 1, w \in 0 .. I - 1 :
        /\ g = ClkAge(clk_phase) /\ k = ClkAge(phase)
        /\ v = ClkSince(clk_phase) /\ w = ClkSince(phase)
  BY <1>0, <1>1, <1>2, ClkAgeFacts
<1>8. v = clk_phase + I * g - clk_latency /\ w = phase + I * k - clk_latency
  <2>1. I * g = g * ClkInterval /\ I * k = k * ClkInterval
    BY <1>0
  <2> QED BY <2>1, <1>7 DEF ClkSince
<1>9. PICK c \in Int : c = k - server - g
  OBVIOUS
<1>10. I * c = I * k - I * server - I * g
  BY <1>9
<1>11. w = v + dt + I * c
  <2> PICK x \in Int, y \in Int, z \in Int, u \in Int :
         x = I * c /\ y = I * k /\ z = I * server /\ u = I * g
    OBVIOUS
  <2>1. x = y - z - u
    BY <1>10
  <2>2. v = clk_phase + u - clk_latency /\ w = phase + y - clk_latency
    BY <1>8
  <2>3. clk_phase + dt = z + phase
    BY <1>3
  <2>4. w = v + dt + x
    BY <2>1, <2>2, <2>3, <1>1, <1>2
  <2> QED BY <2>4
<1>12. c <= 0
  <2>1. ASSUME c >= 1 PROVE FALSE
    <3>1. I * 1 <= I * c
      BY <2>1, ProductMonotone
    <3> QED BY <3>1, <1>1, <1>11
  <2> QED BY <2>1
<1>13. c = 0 \/ I * c <= -I
  <2>1. ASSUME c <= -1 PROVE I * c <= I * (-1)
    BY <2>1, ProductMonotone
  <2> QED BY <2>1, <1>12
<1>14. clk_new' <=> clk_new \/ c # 0
  <2>1. (ClkAge(phase) - server # ClkAge(clk_phase)) <=> c # 0
    BY <1>7, <1>9
  <2>2. clk_new' = (clk_new \/ ClkAge(phase) - server # ClkAge(clk_phase))
    BY <1>5
  <2> QED BY <2>1, <2>2
<1>15. ClkSince(clk_phase)' = w
  <2>1. ClkSince(clk_phase)' = ClkSince(phase)
    BY <1>5 DEF ClkSince, ClkAge
  <2> QED BY <2>1, <1>7
<1>16. ClkTyped'
  <2>a. clk_new' = (clk_new \/ ClkAge(phase) - server # ClkAge(clk_phase))
    BY <1>5
  <2>b. clk_ticked' = (ticks > 0)
    BY <1>5
  <2>c. clk_new' \in BOOLEAN
    BY <2>a, Zenon
  <2>e. (ticks > 0) \in BOOLEAN
    OBVIOUS
  <2>d. clk_ticked' \in BOOLEAN
    BY <2>b, <2>e
  <2>1. clk_new' \in BOOLEAN /\ clk_ticked' \in BOOLEAN
    BY <2>c, <2>d
  <2>2. clk_ahead' \in Int /\ clk_acc' \in Int /\ clk_acc' <= I - 1
    BY <1>2, <1>4, <1>5, <1>6
  <2> QED BY <2>1, <2>2, <1>0, <1>5 DEF ClkTyped, ClkInv
\* Whatever the clock owed, a snapshot arrives only after a whole tick was paid.
<1>17. acc >= 0 \/ (acc = clk_acc + dt /\ acc < 0)
  <2>1. CASE clk_acc + dt >= 0
    BY <2>1, <1>4, <1>6
  <2>2. CASE clk_acc + dt < 0
    <3>1. I * ticks = 0
      BY <2>2, <1>4
    <3> QED BY <2>2, <3>1, <1>1, <1>2, <1>6
  <2> QED BY <2>1, <2>2, <1>1, <1>2
<1>18. ClkPaid'
  <2>1. /\ ~clk_new => clk_acc >= -h \/ clk_acc >= v - I
        /\ clk_new => clk_acc >= 0 \/ clk_acc >= v - h
    BY <1>0, <1>7 DEF ClkInv, ClkPaid
  <2>2. CASE acc >= 0
    BY <2>2, <1>0, <1>6, <1>15 DEF ClkPaid
  <2>3. CASE acc = clk_acc + dt /\ acc < 0
    <3>1. CASE c = 0
      <4>a. I * c = 0
        BY <3>1
      <4>1. w = v + dt /\ (clk_new' <=> clk_new)
        BY <4>a, <3>1, <1>1, <1>11, <1>14
      <4>2. /\ ~clk_new => acc >= -h \/ acc >= w - I
            /\ clk_new => acc >= 0 \/ acc >= w - h
        BY <2>1, <2>3, <4>1, <1>1, <1>2
      <4> QED BY <4>1, <4>2, <1>0, <1>6, <1>15 DEF ClkPaid
    <3>2. CASE c # 0
      <4>1. w <= v + dt - I /\ clk_new'
        BY <3>2, <1>11, <1>13, <1>14, <1>1
      <4>2. acc >= w - h
        BY <2>1, <2>3, <4>1, <1>0, <1>1, <1>2
      <4> QED BY <4>1, <4>2, <1>0, <1>6, <1>15 DEF ClkPaid
    <3> QED BY <3>1, <3>2
  <2> QED BY <2>2, <2>3, <1>17
<1>19. ClkLead' = ClkLead
  <2>1. PICK a \in Int, b \in Int : a = clk_ahead /\ b = a + ticks - server /\ b = clk_ahead'
    BY <1>2, <1>5
  <2>2. b * I = a * I + I * ticks - I * server
    BY <2>1
  <2>3. ClkLead' = b * I + acc - phase
    BY <2>1, <1>0, <1>5, <1>6 DEF ClkLead
  <2>4. ClkLead = a * I + clk_acc - clk_phase
    BY <2>1, <1>0 DEF ClkLead
  <2>5. a * I \in Int /\ b * I \in Int /\ I * ticks \in Int /\ I * server \in Int
    BY <2>1
  <2>6. b * I + acc - phase = a * I + clk_acc - clk_phase
    BY <2>2, <2>5, <1>1, <1>2, <1>3, <1>6, SMTT(30)
  <2> QED BY <2>3, <2>4, <2>6
<1>20. ClkReach' = ClkReach
  BY DEF ClkReach
<1> QED BY <1>16, <1>18, <1>19, <1>20 DEF ClkInv

\* A snapshot: the clock takes the tick, or half a tick is given or taken.
LEMMA ClkAlignInv ==
  ASSUME ClkNear, ClkInv, align_to_server_tick
  PROVE  ClkInv'
<1>0. PICK I \in Nat \ {0}, h \in Nat \ {0} :
        I = ClkInterval /\ h = ClkInterval \div 2 /\ I = 2 * h
  BY ClkConstants
<1>1. clk_latency \in Nat /\ clk_latency \in ClkLatencies
  BY ClkConstants DEF ClkInv, ClkTyped
<1>2. /\ clk_phase \in 0 .. I - 1 /\ clk_ahead \in Int
      /\ clk_acc \in Int /\ clk_acc <= I - 1
  BY <1>0 DEF ClkInv, ClkTyped
<1>3. /\ clk_new /\ clk_new' = FALSE
      /\ UNCHANGED <<clk_latency, clk_synced, clk_phase, clk_ticked>>
      /\ align_without_time \/ align_snap \/ align_faster \/ align_slower \/ align_done
  BY DEF align_to_server_tick
<1>4. PICK v \in 0 .. I - 1, g \in Nat :
        v = ClkSince(clk_phase) /\ g = ClkAge(clk_phase)
        /\ v = clk_phase + I * g - clk_latency
  <2>1. ClkAge(clk_phase) \in Nat /\ ClkSince(clk_phase) \in 0 .. I - 1
    BY <1>0, <1>1, <1>2, ClkAgeFacts
  <2>2. ClkAge(clk_phase) * ClkInterval = I * ClkAge(clk_phase)
    BY <1>0, <2>1
  <2> QED BY <2>1, <2>2 DEF ClkSince
<1>5. PICK x \in -1 .. 1 : x = ClkExpected
  BY <1>0, <1>1, <1>2, ClkExpectedNear
<1>6. ClkSince(clk_phase)' = v
  BY <1>3, <1>4 DEF ClkSince, ClkAge
<1>7. PICK F \in Nat, r \in Int : F = ClkFar /\ r = ClkReach /\ r = I * F + 4 * I
  BY <1>0, ClkConstants DEF ClkReach
<1>8. ClkReach' = r
  BY <1>7 DEF ClkReach
<1>9. clk_acc >= 0 \/ clk_acc >= v - h
  BY <1>0, <1>3, <1>4 DEF ClkInv, ClkPaid
<1>a. I * F \in Nat
  BY <1>7
<1>10. PICK y \in Int : y = I * clk_ahead /\ ClkLead = y + clk_acc - clk_phase
  <2>1. clk_ahead * ClkInterval = I * clk_ahead /\ I * clk_ahead \in Int
    BY <1>0, <1>2
  <2> QED BY <2>1 DEF ClkLead
<1>11. -r <= y + clk_acc - clk_phase /\ y + clk_acc - clk_phase <= r - 2 * I
  BY <1>0, <1>7, <1>10 DEF ClkInv
\* What has to be shown of the new tick and the new rest.
<1>12. ASSUME NEW a \in Int, NEW acc \in Int, a = clk_ahead', acc = clk_acc',
              acc <= I - 1, acc >= -h \/ acc >= v - I,
              -r <= I * a + acc - clk_phase, I * a + acc - clk_phase <= r - 2 * I
       PROVE  ClkInv'
  <2>1. clk_new' \in BOOLEAN
    BY <1>3, Zenon
  <2>2. ClkTyped'
    BY <2>1, <1>0, <1>3, <1>12 DEF ClkInv, ClkTyped
  <2>3. ClkPaid'
    BY <1>0, <1>3, <1>6, <1>12 DEF ClkPaid
  <2>4. a * ClkInterval = I * a
    BY <1>0
  <2>5. ClkLead' = I * a + acc - clk_phase
    BY <2>4, <1>3, <1>12 DEF ClkLead
  <2> QED BY <2>2, <2>3, <2>5, <1>0, <1>8, <1>12 DEF ClkInv
<1>13. CASE align_without_time
  <2>1. clk_ahead' = -g /\ clk_acc' = 0
    BY <1>4, <1>13 DEF align_without_time
  <2>2. clk_latency <= I * F + 3 * I
    BY <1>0, <1>1, <1>7 DEF ClkNear
  <2>3. I * (-g) = -(I * g) /\ I * g \in Int
    OBVIOUS
  <2>4. I * (-g) + 0 - clk_phase = -v - clk_latency
    BY <2>3, <1>1, <1>2, <1>4
  <2>5. -r <= I * (-g) + 0 - clk_phase
    BY <2>2, <2>4, <1>1, <1>7, <1>a
  <2>6. I * (-g) + 0 - clk_phase <= r - 2 * I
    BY <2>4, <1>1, <1>7, <1>a
  <2>7. PICK a \in Int, acc \in Int : a = -g /\ acc = 0
    OBVIOUS
  <2> QED BY <2>1, <2>5, <2>6, <2>7, <1>0, <1>12
<1>14. CASE align_snap
  <2>1. clk_ahead' = x /\ clk_acc' = 0
    BY <1>5, <1>14 DEF align_snap
  <2>2. I * (-1) <= I * x /\ I * x <= I * 1
    BY ProductMonotone
  <2>3. PICK a \in Int, acc \in Int : a = x /\ acc = 0
    OBVIOUS
  <2>4. /\ -r <= I * a + acc - clk_phase
        /\ I * a + acc - clk_phase <= r - 2 * I
    BY <2>2, <2>3, <1>2, <1>7, <1>a
  <2> QED BY <2>1, <2>3, <2>4, <1>0, <1>12
<1>15. CASE align_faster
  <2>1. PICK acc \in Int, a \in Int :
          /\ acc = clk_acc' /\ a = clk_ahead'
          /\ \/ clk_acc + h >= I /\ acc = clk_acc + h - I /\ a = clk_ahead + 1
             \/ clk_acc + h < I /\ acc = clk_acc + h /\ a = clk_ahead
    BY <1>0, <1>2, <1>15 DEF align_faster
  <2>2. clk_ahead <= 0
    BY <1>2, <1>5, <1>15 DEF align_faster, ClkDrift
  <2>3. y <= 0
    <3>1. I * clk_ahead <= I * 0
      BY <2>2, <1>2, ProductMonotone
    <3> QED BY <3>1, <1>10
  <2>4. I * a + acc = y + clk_acc + h
    <3>1. CASE a = clk_ahead + 1 /\ acc = clk_acc + h - I
      <4>1. I * (clk_ahead + 1) = I * clk_ahead + I
        BY <1>2
      <4> QED BY <3>1, <4>1, <1>2, <1>10
    <3>2. CASE a = clk_ahead /\ acc = clk_acc + h
      BY <3>2, <1>2, <1>10
    <3> QED BY <2>1, <3>1, <3>2
  <2>5. /\ -r <= I * a + acc - clk_phase
        /\ I * a + acc - clk_phase <= r - 2 * I
    BY <2>3, <2>4, <1>0, <1>2, <1>7, <1>11, <1>a
  <2>6. acc <= I - 1 /\ (acc >= -h \/ acc >= v - I)
    BY <2>1, <1>0, <1>2, <1>9
  <2> QED BY <2>1, <2>5, <2>6, <1>12
<1>16. CASE align_slower
  <2>1. PICK acc \in Int, a \in Int :
          /\ acc = clk_acc' /\ a = clk_ahead' /\ acc = clk_acc - h /\ a = clk_ahead
    BY <1>0, <1>2, <1>16 DEF align_slower
  <2>2. clk_ahead >= 0
    BY <1>2, <1>5, <1>16 DEF align_slower, ClkDrift
  <2>3. y >= 0
    <3>1. I * 0 <= I * clk_ahead
      BY <2>2, <1>2, ProductMonotone
    <3> QED BY <3>1, <1>10
  <2>4. I * a + acc = y + clk_acc - h
    BY <2>1, <1>2, <1>10
  <2>5. /\ -r <= I * a + acc - clk_phase
        /\ I * a + acc - clk_phase <= r - 2 * I
    BY <2>3, <2>4, <1>0, <1>2, <1>4, <1>7, <1>9, <1>11, <1>a
  <2>6. acc <= I - 1 /\ (acc >= -h \/ acc >= v - I)
    BY <2>1, <1>0, <1>2, <1>9
  <2> QED BY <2>1, <2>5, <2>6, <1>12
<1>17. CASE align_done
  <2>1. clk_ahead' = clk_ahead /\ clk_acc' = clk_acc
    BY <1>17 DEF align_done
  <2>2. PICK a \in Int, acc \in Int : a = clk_ahead /\ acc = clk_acc /\ I * a = y
    BY <1>2, <1>10
  <2>3. acc >= -h \/ acc >= v - I
    BY <2>2, <1>0, <1>9
  <2> QED BY <2>1, <2>2, <2>3, <1>2, <1>11, <1>12
<1> QED BY <1>3, <1>13, <1>14, <1>15, <1>16, <1>17

\* Every step of the clocks keeps the invariant.
LEMMA ClkStepInv == ClkNear /\ ClkInv /\ [NetworkClockNext]_clk_vars => ClkInv'
<1> SUFFICES ASSUME ClkNear, ClkInv, [NetworkClockNext]_clk_vars PROVE ClkInv'
  OBVIOUS
<1>0. PICK I \in Nat \ {0}, h \in Nat \ {0} :
        I = ClkInterval /\ h = ClkInterval \div 2 /\ I = 2 * h
  BY ClkConstants
<1>1. clk_latency \in Nat /\ clk_phase \in 0 .. I - 1
  BY <1>0, ClkConstants DEF ClkInv, ClkTyped
<1>2. CASE ClkFrame
  BY <1>2, ClkAdvanceInv DEF ClkFrame
<1>3. CASE align_to_server_tick
  BY <1>3, ClkAlignInv
<1>4. CASE clk_lose
  <2>1. /\ clk_new /\ clk_new' = FALSE
        /\ UNCHANGED <<clk_latency, clk_synced, clk_phase, clk_ahead, clk_acc, clk_ticked>>
    BY <1>4 DEF clk_lose
  <2>2. ClkTyped'
    <3>1. clk_new' \in BOOLEAN
      BY <2>1, Zenon
    <3> QED BY <2>1, <3>1 DEF ClkInv, ClkTyped
  <2>3. ClkSince(clk_phase)' = ClkSince(clk_phase)
    BY <2>1 DEF ClkSince, ClkAge
  <2>4. PICK v \in 0 .. I - 1 : v = ClkSince(clk_phase)
    BY <1>0, <1>1, ClkAgeFacts
  <2>5. clk_acc >= 0 \/ clk_acc >= v - h
    BY <2>1, <2>4, <1>0 DEF ClkInv, ClkPaid
  <2>6. clk_acc >= -h \/ clk_acc >= v - I
    BY <2>5, <1>0 DEF ClkInv, ClkTyped
  <2>7. ClkPaid'
    BY <2>1, <2>3, <2>4, <2>6, <1>0 DEF ClkPaid
  <2>8. ClkLead' = ClkLead /\ ClkReach' = ClkReach
    BY <2>1 DEF ClkLead, ClkReach
  <2> QED BY <2>2, <2>7, <2>8 DEF ClkInv
<1>5. CASE clk_reset
  <2>1. /\ clk_ahead' \in -ClkFar .. 0 /\ clk_acc' = 0 /\ clk_ticked' = FALSE
        /\ UNCHANGED <<clk_latency, clk_synced, clk_phase, clk_new>>
    BY <1>5 DEF clk_reset
  <2>2. ClkTyped'
    <3>1. clk_ticked' \in BOOLEAN
      BY <2>1, Zenon
    <3> QED BY <2>1, <3>1, ClkConstants DEF ClkInv, ClkTyped
  <2>3. ClkPaid'
    BY <2>1, <1>0 DEF ClkPaid
  <2>4. PICK a \in Int, F \in Nat : a = clk_ahead' /\ F = ClkFar /\ -F <= a /\ a <= 0
    BY <2>1, ClkConstants
  <2>5. I * (-F) <= I * a /\ I * a <= I * 0 /\ I * F \in Nat /\ I * (-F) = -(I * F)
    <3>1. I \in Nat /\ a \in Int /\ F \in Nat /\ -F \in Int /\ 0 \in Int /\ -F <= a /\ a <= 0
      BY <2>4, <1>0
    <3>2. I * (-F) <= I * a
      BY <3>1, ProductMonotone
    <3>3. I * a <= I * 0
      BY <3>1, ProductMonotone
    <3>4. I * F \in Nat
      BY <3>1
    <3>5. I * (-F) = -(I * F)
      BY <3>1
    <3> QED BY <3>2, <3>3, <3>4, <3>5
  <2>6. ClkLead' = I * a - clk_phase
    <3>1. clk_ahead' * ClkInterval = I * a
      BY <2>4, <1>0
    <3> QED BY <2>1, <3>1, <2>5, <1>1 DEF ClkLead
  <2>7. ClkReach' = I * F + 4 * I
    BY <2>4, <1>0 DEF ClkReach
  <2>8. (-ClkReach <= ClkLead /\ ClkLead <= ClkReach - 2 * ClkInterval)'
    BY <2>5, <2>6, <2>7, <1>0, <1>1
  <2> QED BY <2>2, <2>3, <2>8 DEF ClkInv
<1>6. CASE set_network_time
  <2>1. /\ clk_synced' = ~clk_synced
        /\ UNCHANGED <<clk_latency, clk_phase, clk_ahead, clk_acc, clk_new, clk_ticked>>
    BY <1>6 DEF set_network_time
  <2>2. clk_synced' \in BOOLEAN
    BY <2>1, Zenon
  <2>3. ClkTyped'
    BY <2>1, <2>2 DEF ClkInv, ClkTyped
  <2>4. ClkPaid'
    BY <2>1 DEF ClkInv, ClkPaid, ClkSince, ClkAge
  <2>5. ClkLead' = ClkLead /\ ClkReach' = ClkReach
    BY <2>1 DEF ClkLead, ClkReach
  <2> QED BY <2>3, <2>4, <2>5 DEF ClkInv
<1>7. CASE UNCHANGED clk_vars
  <2>1. ClkTyped'
    BY <1>7 DEF clk_vars, ClkInv, ClkTyped
  <2>2. ClkPaid'
    BY <1>7 DEF clk_vars, ClkInv, ClkPaid, ClkSince, ClkAge
  <2>3. ClkLead' = ClkLead /\ ClkReach' = ClkReach
    BY <1>7 DEF clk_vars, ClkLead, ClkReach
  <2> QED BY <2>1, <2>2, <2>3 DEF ClkInv
<1> QED BY <1>2, <1>3, <1>4, <1>5, <1>6, <1>7 DEF NetworkClockNext

\* The client's clock stays near the server's and owes at most a tick, however frames,
\* snapshots, losses and resets follow one another.
THEOREM ClkTypeCorrect ==
  ASSUME ClkNear
  PROVE  NetworkClockInit /\ [][NetworkClockNext]_clk_vars => []ClkTypeOK
<1>1. ClkInv /\ [NetworkClockNext]_clk_vars => ClkInv'
  BY ClkStepInv
<1>2. NetworkClockInit => ClkInv
  BY ClkInitInv
<1> QED BY <1>1, <1>2, ClkBounds, PTL

-----------------------------------------------------------------------------
(* NetworkTime.                                                            *)

\* What is on its way was sent in the past, the server's stamp lies between the sending
\* of its request and now, and there is a round trip for every sample.
TsOnItsWay ==
  /\ \A i \in 1 .. Len(ts_requests) : ts_requests[i] <= ts_now
  /\ \A i \in 1 .. Len(ts_responses) :
       /\ ts_responses[i].t1 = ts_responses[i].t2
       /\ ts_responses[i].t0 <= ts_responses[i].t1 - ts_offset
       /\ ts_responses[i].t1 - ts_offset <= ts_now

TsSampled ==
  /\ ts_rtts \subseteq 0 .. TsMaxTime
  /\ ts_time.sample_count > 0 <=> ts_rtts # {}

TsInv == NetworkTimeTypeOK /\ TsOnItsWay /\ TsSampled /\ TsErrorBounded

\* A bounded set of naturals has a least and a greatest member.
LEMMA ExtremesOf ==
  ASSUME NEW B \in Nat, NEW S, S \subseteq 0 .. B, S # {}
  PROVE  /\ Min(S) \in S /\ Max(S) \in S
         /\ \A y \in S : Min(S) <= y /\ y <= Max(S)
<1>1. \E x \in S : \A y \in S : x <= y
  <2>1. S \subseteq Nat
    OBVIOUS
  <2> QED BY <2>1, LeastMember
<1>2. \E x \in S : \A y \in S : x >= y
  <2> DEFINE T == {n \in Nat : n <= B /\ B - n \in S}
  <2>1. PICK s : s \in S
    OBVIOUS
  <2>2. B - s \in T
    BY <2>1
  <2>3. T \subseteq Nat /\ T # {}
    BY <2>2
  <2>4. PICK x \in T : \A y \in T : x <= y
    BY <2>3, LeastMember
  <2>5. B - x \in S /\ x \in Nat
    BY <2>4
  <2>6. ASSUME NEW y \in S PROVE B - x >= y
    <3>1. y \in 0 .. B /\ B - y \in Nat /\ B - (B - y) = y
      OBVIOUS
    <3>2. B - y \in T
      BY <3>1
    <3>3. x <= B - y
      BY <3>2, <2>4
    <3> QED BY <3>1, <3>3, <2>5
  <2> QED BY <2>5, <2>6
<1>3. Min(S) \in S /\ \A y \in S : Min(S) <= y
  BY <1>1 DEF Min
<1>4. Max(S) \in S /\ \A y \in S : Max(S) >= y
  BY <1>2 DEF Max
<1>5. PICK m \in S : m = Max(S)
  BY <1>4
<1>6. \A y \in S : y <= m
  <2>1. ASSUME NEW y \in S PROVE y <= m
    <3>1. m >= y /\ m \in 0 .. B /\ y \in 0 .. B
      BY <1>4, <1>5
    <3> QED BY <3>1
  <2> QED BY <2>1
<1> QED BY <1>3, <1>4, <1>5, <1>6

\* A value smoothed towards a sample stays between the bounds of both.
LEMMA SmoothedBetween ==
  ASSUME NEW v \in Int, NEW s \in Int, NEW lo \in Int, NEW hi \in Int, NEW k \in {5, 10},
         lo <= v, v <= hi, lo <= s, s <= hi
  PROVE  /\ v + ((s - v) \div k) \in Int
         /\ lo <= v + ((s - v) \div k) /\ v + ((s - v) \div k) <= hi
<1>1. CASE k = 5
  BY <1>1
<1>2. CASE k = 10
  BY <1>2
<1> QED BY <1>1, <1>2

\* What the assumptions say of the times.
LEMMA TsConstants ==
  /\ TsOffsets \subseteq Int /\ TsInterval \in Nat
  /\ TsMaxTime \in Nat \ {0} /\ TsMaxSamples \in Nat
BY TsAssumption

\* Nothing is on its way at first.
LEMMA TsInitInv == NetworkTimeInit => TsInv
<1> SUFFICES ASSUME NetworkTimeInit PROVE TsInv
  OBVIOUS
<1>1. << >> \in Seq(1 .. TsMaxTime) /\ << >> \in Seq([t0 : 1 .. TsMaxTime, t1 : Int, t2 : Int])
      /\ Len(<< >>) = 0
  OBVIOUS
<1>2. ts_connected \in BOOLEAN
  BY Zenon DEF NetworkTimeInit
<1>3. NetworkTimeTypeOK
  BY <1>1, <1>2, TsConstants DEF NetworkTimeInit, NetworkTimeTypeOK, Unsynced
<1>4. TsOnItsWay
  BY <1>1 DEF NetworkTimeInit, TsOnItsWay
<1>5. TsSampled /\ TsErrorBounded
  BY DEF NetworkTimeInit, TsSampled, TsErrorBounded, Unsynced
<1> QED BY <1>3, <1>4, <1>5 DEF TsInv

\* The first sample, and every later one, keeps the error bound.
LEMMA TsSampleInv ==
  ASSUME TsInv, TimeSyncResponse
  PROVE  TsInv'
<1> DEFINE r == Head(ts_responses)
           rtts == ts_rtts \cup {ts_now - r.t0}
<1>0. TsOffsets \subseteq Int /\ TsMaxTime \in Nat /\ TsMaxSamples \in Nat
  BY TsConstants
<1>1. /\ ts_responses # << >> /\ ts_time.sample_count < TsMaxSamples
      /\ ts_responses' = Tail(ts_responses)
      /\ ts_time' = record_sample(r.t0, r.t1, r.t2, ts_now)
      /\ ts_rtts' = rtts
      /\ UNCHANGED <<ts_now, ts_offset, ts_connected, ts_last, ts_requests>>
  BY DEF TimeSyncResponse
<1>2. /\ ts_now \in 1 .. TsMaxTime /\ ts_offset \in Int
      /\ ts_responses \in Seq([t0 : 1 .. TsMaxTime, t1 : Int, t2 : Int])
      /\ ts_time \in [offset : Int, rtt : Nat, sample_count : 0 .. TsMaxSamples]
  BY <1>0 DEF TsInv, NetworkTimeTypeOK
<1>3. r = ts_responses[1] /\ 1 \in 1 .. Len(ts_responses)
      /\ r \in [t0 : 1 .. TsMaxTime, t1 : Int, t2 : Int]
  <2>1. Len(ts_responses) >= 1 /\ r = ts_responses[1]
    BY <1>1, <1>2
  <2>2. Len(ts_responses) \in Nat
    BY <1>2
  <2>3. 1 \in 1 .. Len(ts_responses)
    BY <2>1, <2>2
  <2>4. ts_responses[1] \in [t0 : 1 .. TsMaxTime, t1 : Int, t2 : Int]
    BY <2>3, <1>2, ElementOfSeq
  <2> QED BY <2>1, <2>3, <2>4
<1>4. r.t1 = r.t2 /\ r.t0 <= r.t1 - ts_offset /\ r.t1 - ts_offset <= ts_now
  BY <1>3 DEF TsInv, TsOnItsWay
<1>5. PICK t0 \in 1 .. TsMaxTime, x \in Int, now \in 1 .. TsMaxTime, o \in Int :
        /\ t0 = r.t0 /\ x = r.t1 - ts_offset /\ now = ts_now /\ o = ts_offset
        /\ r.t1 = x + o /\ r.t2 = x + o /\ t0 <= x /\ x <= now
  <2>1. r.t1 - ts_offset \in Int /\ r.t1 = (r.t1 - ts_offset) + ts_offset
    BY <1>2, <1>3, SMTT(30)
  <2> QED BY <2>1, <1>2, <1>3, <1>4
<1>6. ts_responses' \in Seq([t0 : 1 .. TsMaxTime, t1 : Int, t2 : Int])
      /\ \A i \in 1 .. Len(ts_responses') :
            i + 1 \in 1 .. Len(ts_responses) /\ ts_responses'[i] = ts_responses[i + 1]
  BY <1>1, <1>2
<1>7. TsOnItsWay'
  BY <1>1, <1>2, <1>6 DEF TsInv, TsOnItsWay
<1>8. now - t0 \in 0 .. TsMaxTime /\ rtts # {} /\ ts_rtts \subseteq 0 .. TsMaxTime
      /\ rtts = ts_rtts \cup {now - t0}
  BY <1>0, <1>5 DEF TsInv, TsSampled
<1>9. rtts \subseteq 0 .. TsMaxTime
  BY <1>8
<1> HIDE DEF r, rtts
<1>10. PICK lo \in 0 .. TsMaxTime, hi \in 0 .. TsMaxTime :
         /\ lo = Min(rtts) /\ hi = Max(rtts) /\ \A y \in rtts : lo <= y /\ y <= hi
  <2>1. /\ Min(rtts) \in rtts /\ Max(rtts) \in rtts
        /\ \A y \in rtts : Min(rtts) <= y /\ y <= Max(rtts)
    BY <1>0, <1>8, <1>9, ExtremesOf
  <2> QED BY <2>1, <1>9
<1>11. lo <= now - t0 /\ now - t0 <= hi
  BY <1>8, <1>10
<1> DEFINE sample == ((x + o - t0) + (x + o - now)) * 100
           trip == (now - t0) * 200
<1>12. /\ raw_offset2(r.t0, r.t1, r.t2, ts_now) * (Scale \div 2) = sample
       /\ raw_rtt(r.t0, r.t1, r.t2, ts_now) * Scale = trip
  BY <1>5 DEF raw_offset2, raw_rtt, Scale
<1>13. /\ sample \in Int /\ trip \in Nat
       /\ -(hi * 100) <= sample - o * 200 /\ sample - o * 200 <= hi * 100
       /\ lo * 200 <= trip /\ trip <= hi * 200
  BY <1>5, <1>10, <1>11
<1> HIDE DEF sample, trip
<1>14. PICK off \in Int, rtt \in Int, n \in 0 .. TsMaxSamples :
         off = ts_time.offset /\ rtt = ts_time.rtt /\ n = ts_time.sample_count
  BY <1>2
<1> DEFINE off1 == IF n = 0 THEN sample ELSE off + ((sample - off) \div 10)
           rtt1 == IF n = 0 THEN trip ELSE rtt + ((trip - rtt) \div 5)
<1>a. ts_time' = [offset |-> off1, rtt |-> rtt1, sample_count |-> n + 1]
  BY <1>1, <1>12, <1>14 DEF record_sample
<1>b. off1 \in Int /\ rtt1 \in Int /\ n + 1 \in Int
  <2>1. (sample - off) \div 10 \in Int /\ (trip - rtt) \div 5 \in Int
    BY <1>13, <1>14
  <2> QED BY <2>1, <1>13, <1>14
<1>15. PICK new \in [offset : Int, rtt : Int, sample_count : Int] :
         /\ ts_time' = new
         /\ new.offset = IF n = 0 THEN sample ELSE off + ((sample - off) \div 10)
         /\ new.rtt = IF n = 0 THEN trip ELSE rtt + ((trip - rtt) \div 5)
         /\ new.sample_count = n + 1
  <2> DEFINE rec == [offset |-> off1, rtt |-> rtt1, sample_count |-> n + 1]
  <2>1. rec \in [offset : Int, rtt : Int, sample_count : Int]
    <3> HIDE DEF off1, rtt1
    <3> QED BY <1>b
  <2>2. rec.offset = off1 /\ rec.rtt = rtt1 /\ rec.sample_count = n + 1
    OBVIOUS
  <2>3. ts_time' = rec
    BY <1>a
  <2> HIDE DEF rec
  <2> QED BY <2>1, <2>2, <2>3
<1>16. /\ -(hi * 100) <= new.offset - o * 200 /\ new.offset - o * 200 <= hi * 100
       /\ lo * 200 <= new.rtt /\ new.rtt <= hi * 200
  <2>1. CASE n = 0
    BY <2>1, <1>13, <1>15
  <2>2. CASE n # 0
    <3>1. ts_rtts # {} /\ n > 0
      BY <2>2, <1>0, <1>14 DEF TsInv, TsSampled
    <3>2. PICK lo0 \in 0 .. TsMaxTime, hi0 \in 0 .. TsMaxTime :
            /\ lo0 = Min(ts_rtts) /\ hi0 = Max(ts_rtts) /\ lo0 \in ts_rtts /\ hi0 \in ts_rtts
      <4>1. Min(ts_rtts) \in ts_rtts /\ Max(ts_rtts) \in ts_rtts
        BY <1>0, <1>8, <3>1, ExtremesOf
      <4> QED BY <4>1, <1>8
    <3>3. lo <= lo0 /\ hi0 <= hi
      BY <3>2, <1>8, <1>10
    <3>4. /\ 2 * (off - o * 200) <= hi0 * 200 /\ 2 * (o * 200 - off) <= hi0 * 200
          /\ lo0 * 200 <= rtt /\ rtt <= hi0 * 200
      BY <3>1, <3>2, <1>5, <1>14 DEF TsInv, TsErrorBounded, Scale
    <3>5. PICK a \in Int, b \in Int, c \in Int, d \in Int :
            /\ a = o * 200 - hi * 100 /\ b = o * 200 + hi * 100
            /\ c = lo * 200 /\ d = hi * 200
      <4>1. o * 200 - hi * 100 \in Int /\ o * 200 + hi * 100 \in Int
            /\ lo * 200 \in Int /\ hi * 200 \in Int
        BY <1>0, <1>5, <1>10
      <4> QED BY <4>1
    <3>6. /\ a <= off /\ off <= b /\ a <= sample /\ sample <= b
          /\ c <= rtt /\ rtt <= d /\ c <= trip /\ trip <= d
      BY <3>3, <3>4, <3>5, <1>13
    <3>7. a <= off + ((sample - off) \div 10) /\ off + ((sample - off) \div 10) <= b
      BY <3>6, <1>13, SmoothedBetween
    <3>8. c <= rtt + ((trip - rtt) \div 5) /\ rtt + ((trip - rtt) \div 5) <= d
      BY <3>6, <1>13, SmoothedBetween
    <3>9. new.offset = off + ((sample - off) \div 10)
          /\ new.rtt = rtt + ((trip - rtt) \div 5)
      BY <2>2, <1>15
    <3> QED BY <3>5, <3>7, <3>8, <3>9
  <2> QED BY <2>1, <2>2
<1>17. new.rtt \in Nat /\ new.sample_count \in 1 .. TsMaxSamples
  <2>1. lo * 200 \in Nat
    BY <1>10, <1>0
  <2>2. new.rtt \in Int
    BY <1>15
  <2>3. n < TsMaxSamples /\ n \in Nat /\ TsMaxSamples \in Nat
    BY <1>0, <1>1, <1>14
  <2> QED BY <2>1, <2>2, <2>3, <1>15, <1>16
<1>18. NetworkTimeTypeOK'
  <2>1. new \in [offset : Int, rtt : Nat, sample_count : 0 .. TsMaxSamples]
    BY <1>15, <1>17
  <2>2. ts_rtts' \subseteq Nat
    BY <1>1, <1>9
  <2> QED BY <2>1, <2>2, <1>1, <1>6, <1>15 DEF TsInv, NetworkTimeTypeOK
<1>19. TsSampled'
  BY <1>1, <1>8, <1>9, <1>15, <1>17 DEF TsSampled
<1>20. TsErrorBounded'
  <2>1. Max(ts_rtts)' = hi /\ Min(ts_rtts)' = lo /\ ts_offset' = o /\ ts_time' = new
    BY <1>1, <1>5, <1>10, <1>15
  <2>2. /\ 2 * (new.offset - o * Scale) <= hi * Scale
        /\ 2 * (o * Scale - new.offset) <= hi * Scale
        /\ lo * Scale <= new.rtt /\ new.rtt <= hi * Scale
    BY <1>15, <1>16 DEF Scale
  <2> QED BY <2>1, <2>2 DEF TsErrorBounded
<1> QED BY <1>7, <1>18, <1>19, <1>20 DEF TsInv

\* Every step of the exchange keeps the invariant.
LEMMA TsStepInv == TsInv /\ [NetworkTimeNext]_ts_vars => TsInv'
<1> SUFFICES ASSUME TsInv, [NetworkTimeNext]_ts_vars PROVE TsInv'
  OBVIOUS
<1>0. /\ TsOffsets \subseteq Int /\ TsMaxTime \in Nat \ {0}
      /\ ts_now \in 1 .. TsMaxTime /\ ts_offset \in Int /\ ts_last \in 0 .. TsMaxTime
      /\ ts_requests \in Seq(1 .. TsMaxTime)
      /\ ts_responses \in Seq([t0 : 1 .. TsMaxTime, t1 : Int, t2 : Int])
  BY TsConstants DEF TsInv, NetworkTimeTypeOK
<1>1. CASE ts_connect
  <2>1. /\ ts_connected' = TRUE
        /\ UNCHANGED <<ts_now, ts_offset, ts_last, ts_requests, ts_responses, ts_time,
                       ts_rtts>>
    BY <1>1 DEF ts_connect
  <2>2. ts_connected' \in BOOLEAN
    BY <2>1, Zenon
  <2> QED
    BY <2>1, <2>2 DEF TsInv, NetworkTimeTypeOK, TsOnItsWay, TsSampled, TsErrorBounded
<1>2. CASE ts_stop
  <2>1. /\ ts_connected' = FALSE /\ ts_requests' = << >> /\ ts_responses' = << >>
        /\ ts_time' = Unsynced /\ ts_rtts' = {}
        /\ UNCHANGED <<ts_now, ts_offset, ts_last>>
    BY <1>2 DEF ts_stop
  <2>2. ts_connected' \in BOOLEAN
    BY <2>1, Zenon
  <2>3. /\ << >> \in Seq(1 .. TsMaxTime) /\ Len(<< >>) = 0
        /\ << >> \in Seq([t0 : 1 .. TsMaxTime, t1 : Int, t2 : Int])
    OBVIOUS
  <2>4. NetworkTimeTypeOK'
    BY <2>1, <2>2, <2>3, TsConstants DEF TsInv, NetworkTimeTypeOK, Unsynced
  <2>5. TsOnItsWay'
    BY <2>1, <2>3 DEF TsOnItsWay
  <2>6. TsSampled' /\ TsErrorBounded'
    BY <2>1 DEF TsSampled, TsErrorBounded, Unsynced
  <2> QED BY <2>4, <2>5, <2>6 DEF TsInv
<1>3. CASE poll_client_time_sync
  <2>1. /\ ts_last' = ts_now
        /\ ts_requests' = ts_requests \/ ts_requests' = Append(ts_requests, ts_now)
        /\ UNCHANGED <<ts_now, ts_offset, ts_connected, ts_responses, ts_time, ts_rtts>>
    BY <1>3 DEF poll_client_time_sync
  <2>2. /\ ts_requests' \in Seq(1 .. TsMaxTime)
        /\ \A i \in 1 .. Len(ts_requests') : ts_requests'[i] <= ts_now
    <3>1. CASE ts_requests' = ts_requests
      BY <3>1, <1>0 DEF TsInv, TsOnItsWay
    <3>2. CASE ts_requests' = Append(ts_requests, ts_now)
      <4>1. ts_requests' \in Seq(1 .. TsMaxTime)
        BY <3>2, <1>0
      <4>2. \A i \in 1 .. Len(ts_requests') :
              \/ i \in 1 .. Len(ts_requests) /\ ts_requests'[i] = ts_requests[i]
              \/ ts_requests'[i] = ts_now
        BY <3>2, <1>0
      <4>3. ts_now <= ts_now
        BY <1>0
      <4> QED BY <4>1, <4>2, <4>3 DEF TsInv, TsOnItsWay
    <3> QED BY <2>1, <3>1, <3>2
  <2>3. NetworkTimeTypeOK'
    BY <2>1, <2>2, <1>0 DEF TsInv, NetworkTimeTypeOK
  <2>4. TsOnItsWay'
    BY <2>1, <2>2 DEF TsInv, TsOnItsWay
  <2>5. TsSampled' /\ TsErrorBounded'
    BY <2>1 DEF TsInv, TsSampled, TsErrorBounded
  <2> QED BY <2>3, <2>4, <2>5 DEF TsInv
<1>4. CASE TimeSyncRequest
  <2>1. PICK t \in Int : t = ts_now + ts_offset
    BY <1>0
  <2>2. /\ ts_requests # << >> /\ ts_requests' = Tail(ts_requests)
        /\ ts_responses' = Append(ts_responses, [t0 |-> Head(ts_requests), t1 |-> t, t2 |-> t])
        /\ UNCHANGED <<ts_now, ts_offset, ts_connected, ts_last, ts_time, ts_rtts>>
    BY <1>4, <2>1 DEF TimeSyncRequest
  <2>3. Len(ts_requests) >= 1 /\ Len(ts_requests) \in Nat /\ Head(ts_requests) = ts_requests[1]
    BY <2>2, <1>0
  <2>4. 1 \in 1 .. Len(ts_requests)
    BY <2>3
  <2>5. PICK h \in 1 .. TsMaxTime : h = Head(ts_requests) /\ h <= ts_now
    BY <2>3, <2>4, <1>0, ElementOfSeq DEF TsInv, TsOnItsWay
  <2>6. PICK new \in [t0 : 1 .. TsMaxTime, t1 : Int, t2 : Int] :
          new = [t0 |-> h, t1 |-> t, t2 |-> t]
    BY <2>1, <2>5
  <2>7. new.t1 = new.t2 /\ new.t0 <= new.t1 - ts_offset /\ new.t1 - ts_offset <= ts_now
    BY <2>1, <2>5, <2>6, <1>0
  <2>8. ts_responses' = Append(ts_responses, new)
    BY <2>2, <2>5, <2>6
  <2>9. /\ ts_responses' \in Seq([t0 : 1 .. TsMaxTime, t1 : Int, t2 : Int])
        /\ \A i \in 1 .. Len(ts_responses') :
             \/ i \in 1 .. Len(ts_responses) /\ ts_responses'[i] = ts_responses[i]
             \/ ts_responses'[i] = new
    BY <2>8, <1>0
  <2>10. /\ ts_requests' \in Seq(1 .. TsMaxTime)
         /\ \A i \in 1 .. Len(ts_requests') :
              i + 1 \in 1 .. Len(ts_requests) /\ ts_requests'[i] = ts_requests[i + 1]
    <3>1. ts_requests # << >> /\ ts_requests' = Tail(ts_requests)
          /\ ts_requests \in Seq(1 .. TsMaxTime)
      BY <2>2, <1>0
    <3>2. ts_requests' \in Seq(1 .. TsMaxTime)
      BY <3>1
    <3> QED BY <3>1, <3>2
  <2>11. NetworkTimeTypeOK'
    BY <2>2, <2>9, <2>10 DEF TsInv, NetworkTimeTypeOK
  <2>12. \A i \in 1 .. Len(ts_requests') : ts_requests'[i] <= ts_now'
    BY <2>2, <2>10 DEF TsInv, TsOnItsWay
  <2>13. \A i \in 1 .. Len(ts_responses') :
           /\ ts_responses'[i].t1 = ts_responses'[i].t2
           /\ ts_responses'[i].t0 <= ts_responses'[i].t1 - ts_offset'
           /\ ts_responses'[i].t1 - ts_offset' <= ts_now'
    BY <2>2, <2>7, <2>9 DEF TsInv, TsOnItsWay
  <2>14. TsOnItsWay'
    BY <2>12, <2>13 DEF TsOnItsWay
  <2>15. TsSampled' /\ TsErrorBounded'
    BY <2>2 DEF TsInv, TsSampled, TsErrorBounded
  <2> QED BY <2>11, <2>14, <2>15 DEF TsInv
<1>5. CASE TimeSyncResponse
  BY <1>5, TsSampleInv
<1>6. CASE ts_tick
  <2>1. /\ ts_now < TsMaxTime /\ ts_now' = ts_now + 1
        /\ UNCHANGED <<ts_offset, ts_connected, ts_last, ts_requests, ts_responses, ts_time,
                       ts_rtts>>
    BY <1>6 DEF ts_tick
  <2>2. ts_now' \in 1 .. TsMaxTime
    BY <2>1, <1>0
  <2>3. NetworkTimeTypeOK'
    BY <2>1, <2>2 DEF TsInv, NetworkTimeTypeOK
  <2>4. \A i \in 1 .. Len(ts_requests) : ts_requests[i] <= ts_now'
    <3>1. \A i \in 1 .. Len(ts_requests) : ts_requests[i] \in Int
      BY <1>0
    <3> QED BY <3>1, <2>1, <1>0 DEF TsInv, TsOnItsWay
  <2>5. \A i \in 1 .. Len(ts_responses) : ts_responses[i].t1 - ts_offset <= ts_now'
    <3>1. \A i \in 1 .. Len(ts_responses) :
            ts_responses[i] \in [t0 : 1 .. TsMaxTime, t1 : Int, t2 : Int]
      BY <1>0, ElementOfSeq
    <3>2. \A i \in 1 .. Len(ts_responses) : ts_responses[i].t1 \in Int
      BY <3>1
    <3> QED BY <3>2, <2>1, <1>0, SMTT(30) DEF TsInv, TsOnItsWay
  <2>6. TsOnItsWay'
    BY <2>1, <2>4, <2>5 DEF TsInv, TsOnItsWay
  <2>7. TsSampled' /\ TsErrorBounded'
    BY <2>1 DEF TsInv, TsSampled, TsErrorBounded
  <2> QED BY <2>3, <2>6, <2>7 DEF TsInv
<1>7. CASE UNCHANGED ts_vars
  BY <1>7 DEF ts_vars, TsInv, NetworkTimeTypeOK, TsOnItsWay, TsSampled, TsErrorBounded
<1> QED BY <1>1, <1>2, <1>3, <1>4, <1>5, <1>6, <1>7 DEF NetworkTimeNext

\* However long the two ways of an exchange take and however different they are, what
\* the client makes of its samples (network_time.cpp) is no worse than the worst of them.
THEOREM TsErrorBoundedHolds == NetworkTimeSpec => [](NetworkTimeTypeOK /\ TsErrorBounded)
<1>1. TsInv => NetworkTimeTypeOK /\ TsErrorBounded
  BY DEF TsInv
<1> QED BY <1>1, TsInitInv, TsStepInv, PTL DEF NetworkTimeSpec

-----------------------------------------------------------------------------
(* RateLimiter and the limits of the calls.                                *)

\* The sums of the first weights.
IsSum(g, n, w) ==
  /\ g \in [0 .. n -> Nat] /\ g[0] = 0
  /\ \A k \in 1 .. n : g[k] = g[k - 1] + w[k]

\* They exist: by the least place without one.
LEMMA SumExists ==
  ASSUME NEW n \in Nat, NEW w \in [1 .. n -> Nat]
  PROVE  \E g : IsSum(g, n, w)
<1> DEFINE T == {m \in 0 .. n : ~ \E g : IsSum(g, m, w)}
<1>1. SUFFICES ASSUME T # {} PROVE FALSE
  <2>1. T = {} => n \notin T
    OBVIOUS
  <2>2. n \notin T => \E g : IsSum(g, n, w)
    OBVIOUS
  <2> HIDE DEF T
  <2> QED BY <2>1, <2>2, <1>1
<1>2. PICK m \in T : \A i \in T : m <= i
  <2>1. T \subseteq Nat
    OBVIOUS
  <2> HIDE DEF T
  <2> QED BY <1>1, <2>1, LeastMember
<1>3. m \in 0 .. n /\ ~ \E g : IsSum(g, m, w)
  BY <1>2
<1>4. m # 0
  <2>1. IsSum([k \in 0 .. 0 |-> 0], 0, w)
    BY DEF IsSum
  <2> QED BY <1>3, <2>1
<1>5. m - 1 \in 0 .. n /\ m - 1 \notin T
  <2>1. m - 1 \in 0 .. n /\ ~ (m <= m - 1)
    BY <1>3, <1>4
  <2> HIDE DEF T
  <2> QED BY <1>2, <2>1
<1>6. PICK g : IsSum(g, m - 1, w)
  BY <1>5
<1>7. /\ g \in [0 .. m - 1 -> Nat] /\ g[0] = 0
      /\ \A k \in 1 .. m - 1 : g[k] = g[k - 1] + w[k]
  BY <1>6 DEF IsSum
<1> DEFINE h == [k \in 0 .. m |-> IF k = m THEN g[m - 1] + w[m] ELSE g[k]]
<1>8. w[m] \in Nat /\ g[m - 1] \in Nat
  BY <1>3, <1>4, <1>7
<1>9. h \in [0 .. m -> Nat] /\ h[0] = 0
  BY <1>3, <1>4, <1>7, <1>8
<1>10. ASSUME NEW k \in 1 .. m
       PROVE  h[k] = h[k - 1] + w[k]
  <2>1. CASE k = m
    BY <2>1, <1>3, <1>4
  <2>2. CASE k # m
    BY <2>2, <1>3, <1>7
  <2> QED BY <2>1, <2>2
<1>11. IsSum(h, m, w)
  BY <1>9, <1>10 DEF IsSum
<1> QED BY <1>3, <1>11

\* Sums of larger weights are larger, also those of a longer list.
LEMMA SumMonotone ==
  ASSUME NEW n \in Nat, NEW m \in Nat, n <= m,
         NEW v \in [1 .. n -> Nat], NEW w \in [1 .. m -> Nat],
         \A k \in 1 .. n : v[k] <= w[k],
         NEW g, NEW h, IsSum(g, n, v), IsSum(h, m, w), NEW i \in 0 .. n
  PROVE  g[i] <= h[i]
<1> DEFINE T == {k \in 0 .. n : ~ (g[k] <= h[k])}
<1>1. SUFFICES ASSUME T # {} PROVE FALSE
  OBVIOUS
<1>2. PICK k \in T : \A j \in T : k <= j
  <2>1. T \subseteq Nat
    OBVIOUS
  <2> HIDE DEF T
  <2> QED BY <1>1, <2>1, LeastMember
<1>3. k \in 0 .. n /\ ~ (g[k] <= h[k])
  BY <1>2
<1>4. k # 0
  BY <1>3 DEF IsSum
<1>5. k - 1 \in 0 .. n /\ k - 1 \notin T
  <2>1. k - 1 \in 0 .. n /\ ~ (k <= k - 1)
    BY <1>3, <1>4
  <2> HIDE DEF T
  <2> QED BY <1>2, <2>1
<1>6. g[k - 1] <= h[k - 1]
  BY <1>5
<1>7. k \in 1 .. n /\ k \in 1 .. m /\ k - 1 \in 0 .. n /\ k - 1 \in 0 .. m
  BY <1>3, <1>4
<1>8. /\ g[k] = g[k - 1] + v[k] /\ h[k] = h[k - 1] + w[k]
      /\ g[k - 1] \in Nat /\ h[k - 1] \in Nat /\ v[k] \in Nat /\ w[k] \in Nat
      /\ v[k] <= w[k]
  BY <1>7 DEF IsSum
<1> QED BY <1>3, <1>6, <1>8, SMTT(30)

\* What RlBytesOf sums.
RlWeights(log, I) == [k \in 1 .. Len(log) |-> IF k \in I THEN log[k].size ELSE 0]

\* RlBytesOf is the last of the sums.
LEMMA BytesAreSum ==
  ASSUME NEW log, Len(log) \in Nat, NEW I,
         RlWeights(log, I) \in [1 .. Len(log) -> Nat]
  PROVE  \E g : IsSum(g, Len(log), RlWeights(log, I)) /\ RlBytesOf(log, I) = g[Len(log)]
<1> DEFINE n == Len(log)
           w == RlWeights(log, I)
           Body(g, k) == IF k = 0 THEN 0
                         ELSE g[k - 1] + (IF k \in I THEN log[k].size ELSE 0)
           sum == CHOOSE g : g = [k \in 0 .. n |-> Body(g, k)]
<1>1. PICK g : IsSum(g, n, w)
  BY SumExists
<1>2. /\ g \in [0 .. n -> Nat] /\ g[0] = 0
      /\ \A k \in 1 .. n : g[k] = g[k - 1] + w[k]
  BY <1>1 DEF IsSum
<1>3. \A k \in 1 .. n : w[k] = IF k \in I THEN log[k].size ELSE 0
  BY DEF RlWeights
<1>4. g = [k \in 0 .. n |-> Body(g, k)]
  <2>1. \A k \in 0 .. n : g[k] = Body(g, k)
    <3>1. \A k \in 0 .. n : k = 0 \/ k \in 1 .. n
      BY Len(log) \in Nat
    <3> HIDE DEF n, w
    <3> QED BY <1>2, <1>3, <3>1
  <2> HIDE DEF n, Body
  <2> QED BY <1>2, <2>1
<1>5. sum = [k \in 0 .. n |-> Body(sum, k)]
  <2> HIDE DEF n, Body
  <2> QED BY <1>4, Zenon
<1>6. RlBytesOf(log, I) = sum[n]
  BY Zenon DEF RlBytesOf
<1> HIDE DEF sum
<1>7. \A k \in 0 .. n : sum[k] = Body(sum, k)
  <2> HIDE DEF n, Body
  <2>1. TAKE k \in 0 .. n
  <2>2. PICK h : h = [i \in 0 .. n |-> Body(sum, i)]
    OBVIOUS
  <2>3. h[k] = Body(sum, k)
    BY <2>2
  <2> QED BY <2>2, <2>3, <1>5
<1>8. \A k \in 0 .. n : sum[k] = g[k]
  <2> DEFINE T == {k \in 0 .. n : sum[k] # g[k]}
  <2>1. SUFFICES ASSUME T # {} PROVE FALSE
    OBVIOUS
  <2>2. PICK m \in T : \A i \in T : m <= i
    <3>1. T \subseteq Nat
      BY Len(log) \in Nat
    <3> HIDE DEF T
    <3> QED BY <2>1, <3>1, LeastMember
  <2>3. m \in 0 .. n /\ sum[m] # g[m]
    BY <2>2
  <2>4. m # 0
    <3>1. 0 \in 0 .. n /\ sum[0] = Body(sum, 0)
      BY <1>7, Len(log) \in Nat
    <3> QED BY <3>1, <1>2, <2>3
  <2>5. m - 1 \in 0 .. n /\ m - 1 \notin T
    <3>1. m - 1 \in 0 .. n /\ ~ (m <= m - 1)
      BY <2>3, <2>4, Len(log) \in Nat
    <3> HIDE DEF T
    <3> QED BY <2>2, <3>1
  <2>6. sum[m - 1] = g[m - 1]
    BY <2>5
  <2>7. m \in 1 .. n
    BY <2>3, <2>4, Len(log) \in Nat
  <2>8. sum[m] = sum[m - 1] + w[m] /\ g[m] = g[m - 1] + w[m]
    <3> HIDE DEF n, w
    <3> QED BY <2>3, <2>4, <2>7, <1>2, <1>3, <1>7
  <2> QED BY <2>3, <2>6, <2>8
<1>9. n \in 0 .. n
  BY Len(log) \in Nat
<1> QED BY <1>1, <1>6, <1>8, <1>9

\* The places I of the log hold messages.
RlHolds(log, I) == \A k \in I : k \in 1 .. Len(log) => log[k].size \in Nat

\* Fewer messages have fewer bytes, and none have none.
LEMMA BytesMonotone ==
  ASSUME NEW log \in Seq(RlEvent), NEW I, NEW J, RlHolds(log, J), I \subseteq J
  PROVE  /\ RlBytesOf(log, I) \in Nat /\ RlBytesOf(log, J) \in Nat
         /\ RlBytesOf(log, I) <= RlBytesOf(log, J)
         /\ RlBytesOf(log, {}) = 0
<1> DEFINE n == Len(log)
<1>1. n \in Nat
  OBVIOUS
<1>2. /\ RlWeights(log, I) \in [1 .. n -> Nat] /\ RlWeights(log, J) \in [1 .. n -> Nat]
      /\ RlWeights(log, {}) \in [1 .. n -> Nat]
  BY DEF RlWeights, RlHolds
<1>3. PICK g : IsSum(g, n, RlWeights(log, I)) /\ RlBytesOf(log, I) = g[n]
  BY <1>1, <1>2, BytesAreSum
<1>4. PICK h : IsSum(h, n, RlWeights(log, J)) /\ RlBytesOf(log, J) = h[n]
  BY <1>1, <1>2, BytesAreSum
<1>5. PICK z : IsSum(z, n, RlWeights(log, {})) /\ RlBytesOf(log, {}) = z[n]
  BY <1>1, <1>2, BytesAreSum
<1>6. \A k \in 1 .. n : RlWeights(log, I)[k] <= RlWeights(log, J)[k]
  BY DEF RlWeights, RlHolds
<1>7. n <= n /\ n \in 0 .. n
  BY <1>1
<1>8. g[n] <= h[n]
  <2> HIDE DEF n
  <2> QED BY <1>1, <1>2, <1>3, <1>4, <1>6, <1>7, SumMonotone
<1>9. IsSum([k \in 0 .. n |-> 0], n, [k \in 1 .. n |-> 0])
  BY <1>1 DEF IsSum
<1>10. z[n] <= [k \in 0 .. n |-> 0][n]
  <2>1. \A k \in 1 .. n : RlWeights(log, {})[k] <= [j \in 1 .. n |-> 0][k]
    BY DEF RlWeights
  <2>2. [k \in 1 .. n |-> 0] \in [1 .. n -> Nat]
    OBVIOUS
  <2> HIDE DEF n
  <2> QED BY <1>1, <1>2, <1>5, <1>7, <1>9, <2>1, <2>2, SumMonotone
<1>11. g[n] \in Nat /\ h[n] \in Nat /\ z[n] \in Nat
  BY <1>3, <1>4, <1>5, <1>7 DEF IsSum
<1>12. z[n] = 0
  BY <1>10, <1>11, <1>7
<1> QED BY <1>3, <1>4, <1>5, <1>8, <1>11, <1>12

\* The same places up to n.
RlSamePlaces(I, J, n) == \A k \in 1 .. n : k \in J <=> k \in I

\* One more entry of the log.
RlLonger(log, e, long) == log \in Seq(RlEvent) /\ e \in RlEvent /\ long = Append(log, e)

\* Its bytes count if its place does.
RlGrows(log, I, e, long, J) ==
  /\ RlBytesOf(log, I) \in Nat
  /\ RlBytesOf(long, J) = RlBytesOf(log, I) + (IF Len(log) + 1 \in J THEN e.size ELSE 0)

\* A log that gets one more entry.
LEMMA BytesAppend ==
  ASSUME NEW log, NEW e, NEW long, RlLonger(log, e, long), NEW I, RlHolds(log, I),
         NEW J, RlSamePlaces(I, J, Len(log)), Len(log) + 1 \in J => e.size \in Nat
  PROVE  RlGrows(log, I, e, long, J)
<1> DEFINE n == Len(log)
<1>1. /\ n \in Nat /\ Len(long) = n + 1 /\ long \in Seq(RlEvent)
      /\ \A k \in 1 .. n : long[k] = log[k]
      /\ long[n + 1] = e /\ log \in Seq(RlEvent)
  BY DEF RlLonger
<1>2. RlWeights(log, I) \in [1 .. n -> Nat]
  BY <1>1 DEF RlWeights, RlHolds
<1>3. PICK g : IsSum(g, n, RlWeights(log, I)) /\ RlBytesOf(log, I) = g[n]
  BY <1>1, <1>2, BytesAreSum
<1>4. RlBytesOf(long, J) = RlBytesOf(log, I) + (IF n + 1 \in J THEN e.size ELSE 0)
  <2>1. \A k \in 1 .. n + 1 : k \in 1 .. n \/ k = n + 1
    BY <1>1
  <2>2. /\ RlWeights(long, J) \in [1 .. n + 1 -> Nat]
        /\ \A k \in 1 .. n : RlWeights(long, J)[k] = RlWeights(log, I)[k]
        /\ RlWeights(long, J)[n + 1] = IF n + 1 \in J THEN e.size ELSE 0
    <3>1. \A k \in 1 .. n + 1 :
            RlWeights(long, J)[k] = IF k \in J THEN long[k].size ELSE 0
      BY <1>1 DEF RlWeights
    <3>2. \A k \in 1 .. n : RlWeights(log, I)[k] = IF k \in I THEN log[k].size ELSE 0
      BY <1>1 DEF RlWeights
    <3>3. \A k \in 1 .. n : RlWeights(long, J)[k] = RlWeights(log, I)[k]
      <4>1. TAKE k \in 1 .. n
      <4>2. k \in 1 .. n + 1 /\ long[k] = log[k] /\ (k \in J <=> k \in I)
        BY <1>1 DEF RlSamePlaces
      <4> QED BY <3>1, <3>2, <4>2
    <3>4. n + 1 \in 1 .. n + 1
      BY <1>1
    <3>5. RlWeights(long, J)[n + 1] = IF n + 1 \in J THEN e.size ELSE 0
      BY <3>1, <3>4, <1>1
    <3>6. \A k \in 1 .. n + 1 : RlWeights(long, J)[k] \in Nat
      BY <2>1, <3>3, <3>5, <1>2
    <3>7. RlWeights(long, J) = [k \in 1 .. n + 1 |-> IF k \in J THEN long[k].size ELSE 0]
      BY <1>1 DEF RlWeights
    <3> QED BY <3>3, <3>5, <3>6, <3>7
  <2>3. PICK h : /\ IsSum(h, n + 1, RlWeights(long, J))
                 /\ RlBytesOf(long, J) = h[n + 1]
    <3>1. Len(long) \in Nat
      BY <1>1
    <3> QED BY <1>1, <2>2, <3>1, BytesAreSum
  <2>4. /\ g \in [0 .. n -> Nat] /\ g[0] = 0
        /\ \A k \in 1 .. n : g[k] = g[k - 1] + RlWeights(log, I)[k]
    BY <1>3 DEF IsSum
  <2>5. /\ h \in [0 .. n + 1 -> Nat] /\ h[0] = 0
        /\ \A k \in 1 .. n + 1 : h[k] = h[k - 1] + RlWeights(long, J)[k]
    BY <2>3 DEF IsSum
  <2>6. \A i \in 0 .. n : g[i] = h[i]
    <3>0. PICK u : u = [k \in 0 .. n |-> h[k]]
      OBVIOUS
    <3>1. IsSum(u, n, RlWeights(log, I))
      <4>1. u \in [0 .. n -> Nat] /\ u[0] = 0
        BY <1>1, <2>5, <3>0
      <4>2. ASSUME NEW k \in 1 .. n
            PROVE  u[k] = u[k - 1] + RlWeights(log, I)[k]
        <5>1. k \in 0 .. n /\ k - 1 \in 0 .. n /\ k \in 1 .. n + 1
          BY <1>1
        <5>2. u[k] = h[k] /\ u[k - 1] = h[k - 1]
          BY <3>0, <5>1
        <5> QED BY <5>1, <5>2, <2>2, <2>5
      <4> QED BY <4>1, <4>2 DEF IsSum
    <3>2. TAKE i \in 0 .. n
    <3>3. n <= n /\ \A k \in 1 .. n : RlWeights(log, I)[k] <= RlWeights(log, I)[k]
      BY <1>1, <1>2, SMTT(30)
    <3>4. g[i] <= u[i] /\ u[i] <= g[i]
      <4> HIDE DEF n
      <4> QED BY <1>1, <1>2, <1>3, <3>1, <3>3, SumMonotone
    <3>5. g[i] \in Nat /\ u[i] = h[i] /\ h[i] \in Nat
      <4>1. i \in 0 .. n + 1
        BY <1>1
      <4>2. g[i] \in Nat
        BY <2>4
      <4>3. h[i] \in Nat
        BY <2>5, <4>1
      <4> QED BY <3>0, <4>2, <4>3
    <3> QED BY <3>4, <3>5
  <2>7. /\ n + 1 \in 1 .. n + 1 /\ n \in 0 .. n /\ (n + 1) - 1 = n
    BY <1>1
  <2>8. h[n + 1] = h[n] + RlWeights(long, J)[n + 1]
    BY <2>5, <2>7
  <2> QED BY <1>3, <2>2, <2>3, <2>6, <2>7, <2>8
<1>5. RlBytesOf(log, I) \in Nat
  BY <1>1, <1>3 DEF IsSum
<1> QED BY <1>4, <1>5 DEF RlGrows

\* The level of a bucket: U says what it let pass since each entry of the log and T
\* when the entries came.  No window is over the limit, and a bucket that is not full
\* has a window that is used up.
RlMeter(U, T, level, now, limit) ==
  /\ level \in 0 .. limit.burst
  /\ \A i \in DOMAIN T :
       U[i] + level <= limit.burst + limit.rate * (now - T[i])
  /\ \/ level = limit.burst
     \/ \E i \in DOMAIN T : U[i] + level = limit.burst + limit.rate * (now - T[i])

\* Before an entry of the log of which an amount is used.
RlBefore(n, now, U, T) ==
  /\ n \in Nat /\ now \in Nat /\ U \in [1 .. n -> Nat] /\ T \in [1 .. n -> Nat]
  /\ \A i \in 1 .. n : T[i] <= now

\* Afterwards.
RlAfter(n, now, amount, U, T, V, S) ==
  /\ DOMAIN S = 1 .. n + 1
  /\ \A i \in 1 .. n : V[i] = U[i] + amount /\ S[i] = T[i]
  /\ V[n + 1] = amount /\ S[n + 1] = now

\* No window that ends now is over the limit.
RlWindowsHold(n, now, V, S, limit) ==
  \A i \in 1 .. n : V[i] <= limit.burst + limit.rate * (now - S[i])

\* Some window that ends now would be, with one amount more.
RlWindowOver(n, now, amount, V, S, limit) ==
  \E i \in 1 .. n : amount + V[i] > limit.burst + limit.rate * (now - S[i])

\* The factor of a rate.
LEMMA RateProduct ==
  ASSUME NEW r \in Nat, NEW d \in Nat
  PROVE  r * d \in Nat /\ r * (d + 1) = r * d + r /\ r * 0 = 0
OBVIOUS

\* A tick fills a bucket up by its rate, as long as it is not full.
LEMMA MeterTick ==
  ASSUME NEW limit \in RlLimit, NEW n, NEW now, NEW U, NEW T, RlBefore(n, now, U, T),
         NEW level, NEW next,
         RlMeter(U, T, level, now, limit),
         next = IF level + limit.rate <= limit.burst THEN level + limit.rate ELSE limit.burst
  PROVE  RlMeter(U, T, next, now + 1, limit)
<1> DEFINE B == limit.burst
           R == limit.rate
<1>b. /\ n \in Nat /\ now \in Nat /\ U \in [1 .. n -> Nat] /\ T \in [1 .. n -> Nat]
      /\ \A i \in 1 .. n : T[i] <= now
  BY DEF RlBefore
<1>1. B \in Nat /\ R \in Nat
  BY <1>b DEF RlLimit
<1>2. level \in 0 .. B /\ DOMAIN T = 1 .. n
  BY <1>b DEF RlMeter
<1>3. ASSUME NEW i \in 1 .. n
      PROVE  /\ R * (now - T[i]) \in Nat /\ U[i] \in Nat
             /\ R * ((now + 1) - T[i]) = R * (now - T[i]) + R
  <2>1. now - T[i] \in Nat /\ (now + 1) - T[i] = (now - T[i]) + 1 /\ T[i] \in Nat
    BY <1>b
  <2>2. R * (now - T[i]) \in Nat /\ R * ((now - T[i]) + 1) = R * (now - T[i]) + R
    BY <1>b, <1>1, <2>1, RateProduct
  <2> QED BY <1>b, <2>1, <2>2
<1>4. next \in 0 .. B /\ next <= level + R /\ (next = B \/ next = level + R)
  BY <1>b, <1>1, <1>2
<1>5. ASSUME NEW i \in 1 .. n
      PROVE  U[i] + next <= B + R * ((now + 1) - T[i])
  <2>1. U[i] + level <= B + R * (now - T[i])
    BY <1>b, <1>2 DEF RlMeter
  <2>2. PICK p \in Nat : p = R * (now - T[i])
    BY <1>b, <1>3
  <2>3. /\ R * ((now + 1) - T[i]) = p + R /\ U[i] \in Nat
        /\ U[i] + level <= B + p
    BY <1>b, <1>3, <2>1, <2>2
  <2> HIDE DEF B, R
  <2>4. U[i] + next <= B + (p + R)
    <3>1. PICK u \in Nat : u = U[i]
      BY <1>b, <2>3
    <3>2. u + level <= B + p
      BY <1>b, <2>3, <3>1
    <3>3. u + next <= B + (p + R)
      BY <1>b, <1>1, <1>2, <1>4, <3>2
    <3> QED BY <1>b, <3>1, <3>3
  <2> QED BY <1>b, <2>3, <2>4
<1>6. next = B \/ \E i \in 1 .. n : U[i] + next = B + R * ((now + 1) - T[i])
  <2>1. CASE level = B
    BY <1>b, <2>1, <1>1
  <2>2. ASSUME NEW i \in 1 .. n, U[i] + level = B + R * (now - T[i]), next # B
        PROVE  U[i] + next = B + R * ((now + 1) - T[i])
    <3>1. PICK p \in Nat : p = R * (now - T[i])
      BY <1>b, <1>3
    <3>2. /\ R * ((now + 1) - T[i]) = p + R /\ U[i] \in Nat
          /\ U[i] + level = B + p
      BY <1>b, <1>3, <2>2, <3>1
    <3> HIDE DEF B, R
    <3>3. U[i] + next = B + (p + R)
      <4>1. PICK u \in Nat : u = U[i]
        BY <1>b, <3>2
      <4>2. u + level = B + p
        BY <1>b, <3>2, <4>1
      <4>3. u + next = B + (p + R)
        <5>1. next = level + R /\ level \in Nat
          BY <1>b, <1>1, <1>2, <1>4, <2>2, SMTT(30)
        <5>2. u + (level + R) = B + (p + R)
          BY <1>b, <1>1, <4>2, <5>1
        <5> QED BY <1>b, <5>1, <5>2
      <4> QED BY <1>b, <4>1, <4>3
    <3> QED BY <1>b, <3>2, <3>3
  <2>3. level = B \/ \E i \in 1 .. n : U[i] + level = B + R * (now - T[i])
    BY <1>b, <1>2 DEF RlMeter
  <2> QED BY <1>b, <2>1, <2>2, <2>3
<1> QED BY <1>b, <1>2, <1>4, <1>5, <1>6 DEF RlMeter

\* One more entry, of which the bucket lets an amount pass that it has.
LEMMA MeterUse ==
  ASSUME NEW limit \in RlLimit, NEW n, NEW now, NEW U, NEW T, RlBefore(n, now, U, T),
         NEW level, NEW amount \in Nat, amount <= level,
         RlMeter(U, T, level, now, limit),
         NEW V, NEW S, RlAfter(n, now, amount, U, T, V, S)
  PROVE  /\ RlMeter(V, S, level - amount, now, limit)
         /\ RlWindowsHold(n + 1, now, V, S, limit)
<1> DEFINE B == limit.burst
           R == limit.rate
<1>b. /\ n \in Nat /\ now \in Nat /\ U \in [1 .. n -> Nat] /\ T \in [1 .. n -> Nat]
      /\ \A i \in 1 .. n : T[i] <= now
  BY DEF RlBefore
<1>a. /\ DOMAIN S = 1 .. n + 1
      /\ \A i \in 1 .. n : V[i] = U[i] + amount /\ S[i] = T[i]
      /\ V[n + 1] = amount /\ S[n + 1] = now
  BY DEF RlAfter
<1>1. B \in Nat /\ R \in Nat
  BY <1>a, <1>b DEF RlLimit
<1>2. level \in 0 .. B /\ DOMAIN T = 1 .. n /\ level \in Nat
  BY <1>a, <1>b, <1>1 DEF RlMeter
<1>3. \A i \in 1 .. n + 1 : i \in 1 .. n \/ i = n + 1
  BY <1>a, <1>b
<1>4. ASSUME NEW i \in 1 .. n
      PROVE  /\ U[i] \in Nat /\ R * (now - S[i]) \in Nat
             /\ U[i] + level <= B + R * (now - S[i])
             /\ (U[i] + level = B + R * (now - T[i]) => U[i] + level = B + R * (now - S[i]))
  <2>1. now - T[i] \in Nat /\ S[i] = T[i] /\ U[i] \in Nat
    BY <1>a, <1>b
  <2>2. R * (now - S[i]) \in Nat
    BY <1>a, <1>b, <1>1, <2>1, RateProduct
  <2>3. U[i] + level <= B + R * (now - T[i])
    BY <1>a, <1>b, <1>2 DEF RlMeter
  <2> QED BY <1>a, <1>b, <2>1, <2>2, <2>3
<1>5. R * (now - S[n + 1]) = 0
  <2>1. now - S[n + 1] = 0
    BY <1>a, <1>b
  <2> QED BY <1>a, <1>b, <1>1, <2>1, RateProduct
<1>6. level - amount \in 0 .. B
  BY <1>a, <1>b, <1>1, <1>2
<1>7. ASSUME NEW i \in 1 .. n + 1
      PROVE  /\ V[i] + (level - amount) <= B + R * (now - S[i])
             /\ V[i] <= B + R * (now - S[i])
  <2>1. CASE i \in 1 .. n
    <3>1. PICK p \in Nat : p = R * (now - S[i])
      BY <1>a, <1>b, <1>4, <2>1
    <3>2. U[i] \in Nat /\ U[i] + level <= B + p /\ V[i] = U[i] + amount
      BY <1>a, <1>b, <1>4, <2>1, <3>1
    <3>3. V[i] + (level - amount) <= B + p /\ V[i] <= B + p
      <4> HIDE DEF B
      <4>1. PICK u \in Nat : u = U[i]
        BY <1>a, <1>b, <3>2
      <4>2. u + level <= B + p /\ V[i] = u + amount
        BY <1>a, <1>b, <3>2, <4>1
      <4> QED BY <1>a, <1>b, <1>1, <1>2, <4>2
    <3> QED BY <1>a, <1>b, <3>1, <3>3
  <2>2. CASE i = n + 1
    BY <1>a, <1>b, <1>1, <1>2, <1>5, <2>2
  <2> QED BY <1>a, <1>b, <1>3, <2>1, <2>2
<1>8. \E i \in 1 .. n + 1 : V[i] + (level - amount) = B + R * (now - S[i])
  <2>1. CASE level = B
    <3>1. n + 1 \in 1 .. n + 1
      BY <1>a, <1>b
    <3>2. V[n + 1] + (level - amount) = B + R * (now - S[n + 1])
      BY <1>a, <1>b, <1>1, <1>2, <1>5, <2>1
    <3> QED BY <1>a, <1>b, <3>1, <3>2
  <2>2. ASSUME NEW i \in 1 .. n, U[i] + level = B + R * (now - T[i])
        PROVE  \E j \in 1 .. n + 1 : V[j] + (level - amount) = B + R * (now - S[j])
    <3>1. PICK p \in Nat : p = R * (now - S[i])
      BY <1>a, <1>b, <1>4
    <3>2. U[i] \in Nat /\ U[i] + level = B + p /\ V[i] = U[i] + amount /\ i \in 1 .. n + 1
      BY <1>a, <1>b, <1>4, <2>2, <3>1
    <3>3. V[i] + (level - amount) = B + p
      BY <1>a, <1>b, <1>1, <1>2, <3>2
    <3> QED BY <1>a, <1>b, <3>1, <3>2, <3>3
  <2>3. level = B \/ \E i \in 1 .. n : U[i] + level = B + R * (now - T[i])
    BY <1>a, <1>b, <1>2 DEF RlMeter
  <2> QED BY <1>a, <1>b, <2>1, <2>2, <2>3
<1> QED BY <1>a, <1>b, <1>6, <1>7, <1>8 DEF RlMeter, RlWindowsHold

\* An amount that the bucket does not have exceeds the limit in some window.
LEMMA MeterRefuse ==
  ASSUME NEW limit \in RlLimit, NEW n, NEW now, NEW U, NEW T, RlBefore(n, now, U, T),
         NEW level, NEW amount \in Nat, ~ (amount <= level),
         RlMeter(U, T, level, now, limit),
         NEW V, NEW S, RlAfter(n, now, 0, U, T, V, S)
  PROVE  RlWindowOver(n + 1, now, amount, V, S, limit)
<1> DEFINE B == limit.burst
           R == limit.rate
<1>b. /\ n \in Nat /\ now \in Nat /\ U \in [1 .. n -> Nat] /\ T \in [1 .. n -> Nat]
      /\ \A i \in 1 .. n : T[i] <= now
  BY DEF RlBefore
<1>a. /\ \A i \in 1 .. n : V[i] = U[i] /\ S[i] = T[i]
      /\ V[n + 1] = 0 /\ S[n + 1] = now
  BY <1>b DEF RlAfter
<1>1. B \in Nat /\ R \in Nat
  BY <1>a, <1>b DEF RlLimit
<1>2. level \in 0 .. B /\ DOMAIN T = 1 .. n /\ level \in Nat
  BY <1>a, <1>b, <1>1 DEF RlMeter
<1>3. R * (now - S[n + 1]) = 0
  <2>1. now - S[n + 1] = 0
    BY <1>a, <1>b
  <2> QED BY <1>a, <1>b, <1>1, <2>1, RateProduct
<1>4. CASE level = B
  <2>1. n + 1 \in 1 .. n + 1
    BY <1>a, <1>b
  <2>2. amount + V[n + 1] > B + R * (now - S[n + 1])
    BY <1>a, <1>b, <1>1, <1>2, <1>3, <1>4
  <2> QED BY <1>a, <1>b, <2>1, <2>2 DEF RlWindowOver
<1>5. ASSUME NEW i \in 1 .. n, U[i] + level = B + R * (now - T[i])
      PROVE  \E j \in 1 .. n + 1 : amount + V[j] > B + R * (now - S[j])
  <2>1. now - T[i] \in Nat /\ S[i] = T[i] /\ U[i] \in Nat /\ V[i] = U[i] /\ i \in 1 .. n + 1
    BY <1>a, <1>b
  <2>2. PICK p \in Nat : p = R * (now - S[i])
    BY <1>a, <1>b, <1>1, <2>1, RateProduct
  <2>3. U[i] + level = B + p
    BY <1>a, <1>b, <1>5, <2>1, <2>2
  <2>4. amount + V[i] > B + p
    BY <1>a, <1>b, <1>1, <1>2, <2>1, <2>3
  <2> QED BY <1>a, <1>b, <2>1, <2>2, <2>4
<1>6. level = B \/ \E i \in 1 .. n : U[i] + level = B + R * (now - T[i])
  BY <1>a, <1>b, <1>2 DEF RlMeter
<1> QED BY <1>b, <1>4, <1>5, <1>6 DEF RlWindowOver

\* The places from i to j of a log at which there is an event of E.
RlHits(log, E, i, j) == {k \in i .. j : log[k] \in E}

\* What the events of E cost, from i to j: their bytes, or one each.
RlUsed(kind, log, E, i, j) ==
  IF kind = "bytes" THEN RlBytesOf(log, RlHits(log, E, i, j))
  ELSE Cardinality(RlHits(log, E, i, j))

\* What one event costs.
RlCost(kind, e) == IF kind = "bytes" THEN e.size ELSE 1

\* The events of E have a cost.
RlCosts(kind, E) == kind = "bytes" => \A e \in E : e.size \in Nat

\* The events from i to j are finitely many and have a size.
LEMMA HitsFacts ==
  ASSUME NEW kind, NEW E, NEW log \in Seq(RlEvent), RlCosts(kind, E),
         NEW i \in Nat, NEW j \in Nat
  PROVE  /\ IsFiniteSet(RlHits(log, E, i, j))
         /\ kind = "bytes" => RlHolds(log, RlHits(log, E, i, j))
<1>1. IsFiniteSet(i .. j)
  BY FS_Interval
<1>2. IsFiniteSet(RlHits(log, E, i, j))
  BY <1>1, FS_Subset DEF RlHits
<1> QED BY <1>2 DEF RlHits, RlHolds, RlCosts

\* No events cost nothing.
LEMMA UsedNone ==
  ASSUME NEW kind, NEW E, NEW log \in Seq(RlEvent), RlCosts(kind, E)
  PROVE  RlUsed(kind, log, E, Len(log) + 1, Len(log)) = 0
<1>1. RlHits(log, E, Len(log) + 1, Len(log)) = {}
  BY DEF RlHits
<1>2. RlHolds(log, {})
  BY DEF RlHolds
<1>3. RlBytesOf(log, {}) = 0
  BY <1>2, BytesMonotone
<1>4. Cardinality({}) = 0
  BY FS_EmptySet
<1> QED BY <1>1, <1>3, <1>4 DEF RlUsed

\* More events cost more.
LEMMA UsedMonotone ==
  ASSUME NEW kind, NEW E, NEW F, NEW log \in Seq(RlEvent), RlCosts(kind, F),
         NEW i \in Nat, NEW j \in Nat,
         \A k \in i .. j : log[k] \in E => log[k] \in F
  PROVE  /\ RlUsed(kind, log, E, i, j) \in Nat /\ RlUsed(kind, log, F, i, j) \in Nat
         /\ RlUsed(kind, log, E, i, j) <= RlUsed(kind, log, F, i, j)
<1> DEFINE I == RlHits(log, E, i, j)
           J == RlHits(log, F, i, j)
<1>1. I \subseteq J
  BY DEF RlHits
<1>2. IsFiniteSet(J) /\ (kind = "bytes" => RlHolds(log, J))
  BY HitsFacts
<1> HIDE DEF I, J
<1>3. CASE kind = "bytes"
  <2>1. /\ RlBytesOf(log, I) \in Nat /\ RlBytesOf(log, J) \in Nat
        /\ RlBytesOf(log, I) <= RlBytesOf(log, J)
    BY <1>1, <1>2, <1>3, BytesMonotone
  <2> QED BY <1>3, <2>1 DEF RlUsed, I, J
<1>4. CASE kind # "bytes"
  <2>1. /\ Cardinality(I) \in Nat /\ Cardinality(J) \in Nat
        /\ Cardinality(I) <= Cardinality(J)
    BY <1>1, <1>2, FS_Subset, FS_CardinalityType
  <2> QED BY <1>4, <2>1 DEF RlUsed, I, J
<1> QED BY <1>3, <1>4

\* What one more entry changes.
RlOneMore(kind, log, long, E, n, amount) ==
  /\ \A i, j \in Nat : i > 0 /\ j <= n =>
       RlUsed(kind, long, E, i, j) = RlUsed(kind, log, E, i, j)
  /\ \A i \in 1 .. n + 1 :
       RlUsed(kind, long, E, i, n + 1) = RlUsed(kind, log, E, i, n) + amount

\* One more entry changes nothing of what was before, and counts if it is one of E.
LEMMA UsedAppend ==
  ASSUME NEW kind, NEW E, NEW log \in Seq(RlEvent), RlCosts(kind, E), NEW e \in RlEvent,
         NEW long, long = Append(log, e), NEW n, n = Len(log)
  PROVE  RlOneMore(kind, log, long, E, n, IF e \in E THEN RlCost(kind, e) ELSE 0)
<1>1. /\ n \in Nat /\ Len(long) = n + 1 /\ long \in Seq(RlEvent)
      /\ \A k \in 1 .. n : long[k] = log[k]
      /\ long[n + 1] = e /\ RlLonger(log, e, long)
  BY DEF RlLonger
<1>2. ASSUME NEW i \in Nat, NEW j \in Nat, i > 0, j <= n
      PROVE  RlUsed(kind, long, E, i, j) = RlUsed(kind, log, E, i, j)
  <2> DEFINE I == RlHits(log, E, i, j)
  <2>1. \A k \in i .. j : long[k] = log[k]
    BY <1>1, <1>2
  <2>2. RlHits(long, E, i, j) = I
    BY <2>1 DEF RlHits
  <2>3. I \subseteq 1 .. Len(log)
    BY <1>1, <1>2 DEF RlHits
  <2>4. kind = "bytes" => RlHolds(log, I)
    BY HitsFacts
  <2> HIDE DEF I
  <2>5. kind = "bytes" => RlBytesOf(long, I) = RlBytesOf(log, I)
    <3>1. SUFFICES ASSUME kind = "bytes"
                   PROVE  RlBytesOf(long, I) = RlBytesOf(log, I)
      OBVIOUS
    <3>2. RlHolds(log, I)
      BY <3>1, <2>4
    <3>3. RlSamePlaces(I, I, Len(log)) /\ Len(log) + 1 \notin I
      BY <1>1, <2>3 DEF RlSamePlaces
    <3>4. RlGrows(log, I, e, long, I)
      BY <1>1, <3>2, <3>3, BytesAppend
    <3> QED BY <3>3, <3>4 DEF RlGrows
  <2> QED BY <2>2, <2>5 DEF RlUsed, I
<1>3. ASSUME NEW i \in 1 .. n + 1
      PROVE  RlUsed(kind, long, E, i, n + 1)
               = RlUsed(kind, log, E, i, n) + (IF e \in E THEN RlCost(kind, e) ELSE 0)
  <2>i. PICK I : I = RlHits(log, E, i, n)
    OBVIOUS
  <2>0. i \in Nat /\ \A k \in i .. n + 1 : k \in i .. n \/ k = n + 1
    BY <1>1
  <2>1. /\ \A k \in i .. n : long[k] = log[k] /\ k \in i .. n + 1
        /\ n + 1 \in i .. n + 1 /\ n + 1 \notin 1 .. n
    BY <1>1
  <2>2. RlHits(long, E, i, n + 1) = IF e \in E THEN I \cup {n + 1} ELSE I
    <3>1. ASSUME NEW k
          PROVE  k \in RlHits(long, E, i, n + 1) <=> k \in IF e \in E THEN I \cup {n + 1} ELSE I
      BY <1>1, <2>0, <2>1, <2>i DEF RlHits
    <3> QED BY <3>1, Zenon
  <2>3. I \subseteq 1 .. Len(log)
    BY <1>1, <2>i DEF RlHits
  <2>4. IsFiniteSet(I) /\ (kind = "bytes" => RlHolds(log, I))
    BY <1>1, <2>0, <2>i, HitsFacts
  <2>5. CASE kind = "bytes"
    <3>1. RlBytesOf(long, I) = RlBytesOf(log, I)
      <4>1. RlHolds(log, I)
        BY <2>4, <2>5
      <4>2. RlSamePlaces(I, I, Len(log)) /\ Len(log) + 1 \notin I
        BY <1>1, <2>3 DEF RlSamePlaces
      <4>3. RlGrows(log, I, e, long, I)
        BY <1>1, <4>1, <4>2, BytesAppend
      <4> QED BY <4>2, <4>3 DEF RlGrows
    <3>2. RlBytesOf(log, I) \in Nat
      BY <2>4, <2>5, BytesMonotone
    <3>3. CASE e \in E
      <4>1. e.size \in Nat
        BY <2>5, <3>3 DEF RlCosts
      <4>2. RlBytesOf(long, I \cup {n + 1}) = RlBytesOf(log, I) + e.size
        <5>1. RlHolds(log, I)
          BY <2>4, <2>5
        <5>2. PICK J : J = I \cup {n + 1}
          OBVIOUS
        <5>3. RlSamePlaces(I, J, Len(log)) /\ Len(log) + 1 \in J
          BY <1>1, <5>2 DEF RlSamePlaces
        <5>4. RlGrows(log, I, e, long, J)
          BY <1>1, <4>1, <5>1, <5>3, BytesAppend
        <5> QED BY <5>2, <5>3, <5>4 DEF RlGrows
      <4>3. RlUsed(kind, long, E, i, n + 1) = RlBytesOf(long, I \cup {n + 1})
        BY <2>2, <2>5, <3>3 DEF RlUsed
      <4>4. RlUsed(kind, log, E, i, n) = RlBytesOf(log, I)
        BY <2>5, <2>i DEF RlUsed
      <4> QED BY <4>2, <4>3, <4>4, <2>5, <3>3 DEF RlCost
    <3>4. CASE e \notin E
      <4>1. RlUsed(kind, long, E, i, n + 1) = RlBytesOf(long, I)
        BY <2>2, <2>5, <3>4 DEF RlUsed
      <4>2. RlUsed(kind, log, E, i, n) = RlBytesOf(log, I)
        BY <2>5, <2>i DEF RlUsed
      <4> QED BY <3>1, <3>2, <3>4, <4>1, <4>2
    <3> QED BY <3>3, <3>4
  <2>6. CASE kind # "bytes"
    <3>1. Cardinality(I) \in Nat
      BY <2>4, FS_CardinalityType
    <3>2. n + 1 \notin I
      BY <1>1, <2>3
    <3>3. Cardinality(I \cup {n + 1}) = Cardinality(I) + 1
      BY <2>4, <3>2, FS_AddElement
    <3>4. RlUsed(kind, log, E, i, n) = Cardinality(I)
      BY <2>6, <2>i DEF RlUsed
    <3>5. CASE e \in E
      <4>1. RlUsed(kind, long, E, i, n + 1) = Cardinality(I \cup {n + 1})
        BY <2>2, <2>6, <3>5 DEF RlUsed
      <4> QED BY <3>3, <3>4, <3>5, <4>1, <2>6 DEF RlCost
    <3>6. CASE e \notin E
      <4>1. RlUsed(kind, long, E, i, n + 1) = Cardinality(I)
        BY <2>2, <2>6, <3>6 DEF RlUsed
      <4> QED BY <3>1, <3>4, <3>6, <4>1
    <3> QED BY <3>5, <3>6
  <2> QED BY <2>5, <2>6
<1> QED BY <1>2, <1>3 DEF RlOneMore

\* The level of a bucket at a time.
RlLevel(b, limit, now) ==
  IF b.tokens + limit.rate * (now - b.last_update) <= limit.burst
  THEN b.tokens + limit.rate * (now - b.last_update) ELSE limit.burst

\* The bucket b, by what it let pass (E) and what it refused (D): it meters what passed,
\* no window is over the limit, and what was refused would have been over it.
RlExact(kind, log, E, D, b, limit, now) ==
  /\ RlMeter([i \in 1 .. Len(log) |-> RlUsed(kind, log, E, i, Len(log))],
             [i \in 1 .. Len(log) |-> log[i].time], RlLevel(b, limit, now), now, limit)
  /\ \A i \in 1 .. Len(log) : \A j \in i .. Len(log) :
       RlUsed(kind, log, E, i, j) <= limit.burst + limit.rate * (log[j].time - log[i].time)
  /\ \A j \in 1 .. Len(log) : log[j] \in D =>
       \E i \in 1 .. j : RlCost(kind, log[j]) + RlUsed(kind, log, E, i, j - 1)
                           > limit.burst + limit.rate * (log[j].time - log[i].time)

\* The times of the log.
RlPast(log, now) == \A k \in 1 .. Len(log) : log[k].time \in Nat /\ log[k].time <= now

\* An event that arrives: it passes if the bucket has what it costs.
LEMMA ExactStep ==
  ASSUME NEW kind, NEW E, NEW D, NEW log \in Seq(RlEvent), RlCosts(kind, E),
         NEW limit \in RlLimit, NEW now \in Nat, RlPast(log, now),
         NEW b, RlExact(kind, log, E, D, b, limit, now),
         NEW e \in RlEvent, e.time = now, e \in E \/ e \in D => RlCost(kind, e) \in Nat,
         e \in E => RlCost(kind, e) <= RlLevel(b, limit, now),
         e \in D => ~ (RlCost(kind, e) <= RlLevel(b, limit, now)),
         e \in D => e \notin E,
         NEW nb,
         RlLevel(nb, limit, now)
           = RlLevel(b, limit, now) - (IF e \in E THEN RlCost(kind, e) ELSE 0)
  PROVE  RlExact(kind, Append(log, e), E, D, nb, limit, now)
<1> DEFINE n == Len(log)
           cost == RlCost(kind, e)
           amount == IF e \in E THEN cost ELSE 0
           level == RlLevel(b, limit, now)
           U == [i \in 1 .. n |-> RlUsed(kind, log, E, i, n)]
           T == [i \in 1 .. n |-> log[i].time]
<1>0. PICK long : long = Append(log, e)
  OBVIOUS
<1>1. /\ n \in Nat /\ Len(long) = n + 1 /\ long \in Seq(RlEvent)
      /\ \A k \in 1 .. n : long[k] = log[k]
      /\ long[n + 1] = e
  BY <1>0
<1>2. RlMeter(U, T, level, now, limit)
  BY DEF RlExact
<1> DEFINE V == [i \in 1 .. n + 1 |-> RlUsed(kind, long, E, i, n + 1)]
           S == [i \in 1 .. n + 1 |-> long[i].time]
<1>3. /\ \A i, j \in Nat : i > 0 /\ j <= n =>
           RlUsed(kind, long, E, i, j) = RlUsed(kind, log, E, i, j)
      /\ \A i \in 1 .. n + 1 :
           RlUsed(kind, long, E, i, n + 1) = RlUsed(kind, log, E, i, n) + amount
  <2>1. n = Len(log)
    OBVIOUS
  <2> HIDE DEF n
  <2>2. RlOneMore(kind, log, long, E, n, IF e \in E THEN RlCost(kind, e) ELSE 0)
    BY <1>0, <2>1, UsedAppend
  <2> QED BY <2>2 DEF RlOneMore
<1>4. \A i \in 1 .. n + 1 : RlUsed(kind, log, E, i, n) \in Nat
  <2>1. TAKE i \in 1 .. n + 1
  <2>2. i \in Nat
    BY <1>1
  <2> QED BY <1>1, <2>2, UsedMonotone
<1>5. RlUsed(kind, log, E, n + 1, n) = 0
  BY UsedNone
<1>6. /\ U \in [1 .. n -> Nat] /\ T \in [1 .. n -> Nat]
      /\ \A i \in 1 .. n : T[i] <= now
  <2>1. \A i \in 1 .. n : i \in 1 .. n + 1
    BY <1>1
  <2> QED BY <1>4, <2>1 DEF RlPast
<1>7. level \in 0 .. limit.burst /\ limit.burst \in Nat /\ level \in Nat
  BY <1>2 DEF RlMeter, RlLimit
<1>8. amount \in Nat /\ amount <= level
  <2>1. CASE e \in E
    <3>1. amount = cost /\ cost \in Nat /\ cost <= level
      BY <2>1
    <3> HIDE DEF amount, cost, level
    <3> QED BY <3>1
  <2>2. CASE e \notin E
    <3>1. amount = 0
      BY <2>2
    <3> HIDE DEF amount, level
    <3> QED BY <3>1, <1>7
  <2> QED BY <2>1, <2>2
<1>9. /\ DOMAIN S = 1 .. n + 1
      /\ \A i \in 1 .. n : V[i] = U[i] + amount /\ S[i] = T[i]
      /\ V[n + 1] = amount /\ S[n + 1] = now
  <2>1. n + 1 \in 1 .. n + 1 /\ \A i \in 1 .. n : i \in 1 .. n + 1
    BY <1>1
  <2>2. \A i \in 1 .. n + 1 : V[i] = RlUsed(kind, log, E, i, n) + amount /\ S[i] = long[i].time
    BY <1>3
  <2>3. \A i \in 1 .. n : U[i] = RlUsed(kind, log, E, i, n) /\ T[i] = long[i].time
    BY <1>1
  <2>4. V[n + 1] = 0 + amount /\ S[n + 1] = now
    BY <2>1, <2>2, <1>5, <1>1
  <2>5. 0 + amount = amount
    <3> HIDE DEF amount
    <3> QED BY <1>8
  <2> HIDE DEF amount, V, U, T
  <2>6. \A i \in 1 .. n : V[i] = U[i] + amount /\ S[i] = T[i]
    BY <2>1, <2>2, <2>3
  <2> QED BY <2>4, <2>5, <2>6
<1>10. /\ RlMeter(V, S, level - amount, now, limit)
       /\ \A i \in 1 .. n + 1 : V[i] <= limit.burst + limit.rate * (now - S[i])
  <2> HIDE DEF n, U, T, V, S, level, amount
  <2>1. RlBefore(n, now, U, T)
    BY <1>1, <1>6 DEF RlBefore
  <2>2. RlAfter(n, now, amount, U, T, V, S)
    BY <1>9 DEF RlAfter
  <2>3. /\ RlMeter(V, S, level - amount, now, limit)
        /\ RlWindowsHold(n + 1, now, V, S, limit)
    BY <1>2, <1>8, <2>1, <2>2, MeterUse
  <2> QED BY <2>3 DEF RlWindowsHold
<1>11. ASSUME NEW i \in 1 .. n + 1, NEW j \in i .. n + 1
       PROVE  RlUsed(kind, long, E, i, j)
                <= limit.burst + limit.rate * (long[j].time - long[i].time)
  <2>1. CASE j = n + 1
    <3>1. V[i] = RlUsed(kind, long, E, i, j) /\ S[i] = long[i].time /\ long[j].time = now
      BY <2>1, <1>1
    <3> HIDE DEF V, S, n
    <3> QED BY <3>1, <1>10
  <2>2. CASE j # n + 1
    <3>1. i \in 1 .. n /\ j \in i .. n /\ j \in 1 .. n /\ i \in Nat /\ j \in Nat /\ i > 0 /\ j <= n
      BY <1>1, <2>2
    <3>2. RlUsed(kind, log, E, i, j) <= limit.burst + limit.rate * (log[j].time - log[i].time)
      BY <3>1 DEF RlExact
    <3> QED BY <3>1, <3>2, <1>1, <1>3
  <2> QED BY <2>1, <2>2
<1>12. ASSUME NEW j \in 1 .. n + 1, long[j] \in D
       PROVE  \E i \in 1 .. j : RlCost(kind, long[j]) + RlUsed(kind, long, E, i, j - 1)
                                  > limit.burst + limit.rate * (long[j].time - long[i].time)
  <2>1. CASE j = n + 1
    <3> DEFINE W == [i \in 1 .. n + 1 |-> RlUsed(kind, log, E, i, n)]
    <3>0. cost \in Nat
      BY <1>1, <1>12, <2>1
    <3>1. /\ \A i \in 1 .. n : W[i] = U[i] /\ S[i] = T[i]
          /\ W[n + 1] = 0 /\ S[n + 1] = now
      <4>1. n + 1 \in 1 .. n + 1 /\ \A i \in 1 .. n : i \in 1 .. n + 1
        BY <1>1
      <4> QED BY <4>1, <1>5, <1>9
    <3>2. ~ (cost <= level)
      BY <1>1, <1>12, <2>1
    <3>3. \E i \in 1 .. n + 1 : cost + W[i] > limit.burst + limit.rate * (now - S[i])
      <4> HIDE DEF n, U, T, W, S, level, cost
      <4>1. RlBefore(n, now, U, T)
        BY <1>1, <1>6 DEF RlBefore
      <4>2. RlAfter(n, now, 0, U, T, W, S)
        BY <1>6, <1>9, <3>1 DEF RlAfter
      <4>3. RlWindowOver(n + 1, now, cost, W, S, limit)
        BY <1>2, <3>0, <3>2, <4>1, <4>2, MeterRefuse
      <4> QED BY <4>3 DEF RlWindowOver
    <3>4. PICK i \in 1 .. n + 1 : cost + W[i] > limit.burst + limit.rate * (now - S[i])
      BY <3>3
    <3>5. i \in Nat /\ i > 0 /\ n \in Nat /\ n <= n
      BY <1>1
    <3>6. /\ W[i] = RlUsed(kind, long, E, i, j - 1) /\ S[i] = long[i].time
          /\ long[j].time = now /\ RlCost(kind, long[j]) = cost
      <4>1. j - 1 = n
        BY <1>1, <2>1
      <4>2. RlUsed(kind, long, E, i, n) = RlUsed(kind, log, E, i, n)
        BY <3>5, <1>3
      <4> QED BY <4>1, <4>2, <2>1, <1>1
    <3> HIDE DEF W, S, cost
    <3> QED BY <3>4, <3>6, <2>1
  <2>2. CASE j # n + 1
    <3>1. j \in 1 .. n /\ long[j] = log[j]
      BY <1>1, <2>2
    <3>2. PICK i \in 1 .. j : RlCost(kind, log[j]) + RlUsed(kind, log, E, i, j - 1)
                                > limit.burst + limit.rate * (log[j].time - log[i].time)
      BY <3>1, <1>12 DEF RlExact
    <3>3. i \in Nat /\ i > 0 /\ j - 1 \in Nat /\ j - 1 <= n /\ i \in 1 .. n
      BY <1>1, <3>1
    <3>4. RlUsed(kind, long, E, i, j - 1) = RlUsed(kind, log, E, i, j - 1) /\ long[i] = log[i]
      BY <3>3, <1>1, <1>3
    <3> QED BY <3>1, <3>2, <3>4
  <2> QED BY <2>1, <2>2
<1>13. RlLevel(nb, limit, now) = level - amount
  OBVIOUS
<1> HIDE DEF level, amount
<1>14. RlMeter([i \in 1 .. Len(long) |-> RlUsed(kind, long, E, i, Len(long))],
               [i \in 1 .. Len(long) |-> long[i].time], RlLevel(nb, limit, now), now, limit)
  BY <1>1, <1>10, <1>13
<1>15. RlExact(kind, long, E, D, nb, limit, now)
  BY <1>1, <1>11, <1>12, <1>14 DEF RlExact
<1> QED BY <1>0, <1>15

\* Time that passes.
LEMMA ExactTick ==
  ASSUME NEW kind, NEW E, NEW D, NEW log \in Seq(RlEvent), RlCosts(kind, E),
         NEW limit \in RlLimit, NEW now \in Nat, RlPast(log, now),
         NEW b, b.tokens \in Nat, b.last_update \in Nat, b.last_update <= now,
         RlExact(kind, log, E, D, b, limit, now)
  PROVE  RlExact(kind, log, E, D, b, limit, now + 1)
<1> DEFINE n == Len(log)
           level == RlLevel(b, limit, now)
           next == RlLevel(b, limit, now + 1)
           U == [i \in 1 .. n |-> RlUsed(kind, log, E, i, n)]
           T == [i \in 1 .. n |-> log[i].time]
<1>1. n \in Nat /\ \A i \in 1 .. n : i \in Nat
  OBVIOUS
<1>2. RlMeter(U, T, level, now, limit)
  BY DEF RlExact
<1>3. /\ U \in [1 .. n -> Nat] /\ T \in [1 .. n -> Nat]
      /\ \A i \in 1 .. n : T[i] <= now
  <2>1. \A i \in 1 .. n : RlUsed(kind, log, E, i, n) \in Nat
    BY <1>1, UsedMonotone
  <2> QED BY <2>1 DEF RlPast
<1>4. limit.burst \in Nat /\ limit.rate \in Nat
  BY DEF RlLimit
<1>5. next = IF level + limit.rate <= limit.burst THEN level + limit.rate ELSE limit.burst
  <2>1. PICK B \in Nat, R \in Nat, t \in Nat, p \in Nat :
          /\ B = limit.burst /\ R = limit.rate /\ t = b.tokens
          /\ p = R * (now - b.last_update) /\ R * ((now + 1) - b.last_update) = p + R
    <3>1. now - b.last_update \in Nat /\ (now + 1) - b.last_update = (now - b.last_update) + 1
      OBVIOUS
    <3>2. /\ limit.rate * (now - b.last_update) \in Nat
          /\ limit.rate * ((now - b.last_update) + 1)
               = limit.rate * (now - b.last_update) + limit.rate
      BY <1>4, <3>1, RateProduct
    <3> QED BY <1>4, <3>1, <3>2
  <2>2. level = IF t + p <= B THEN t + p ELSE B
    BY <2>1 DEF RlLevel
  <2>3. next = IF t + (p + R) <= B THEN t + (p + R) ELSE B
    BY <2>1 DEF RlLevel
  <2>4. next = IF level + R <= B THEN level + R ELSE B
    <3> HIDE DEF next, level
    <3> QED BY <2>2, <2>3
  <2> QED BY <2>1, <2>4
<1>6. RlMeter(U, T, next, now + 1, limit)
  <2> HIDE DEF n, U, T, level, next
  <2>1. RlBefore(n, now, U, T)
    BY <1>1, <1>3 DEF RlBefore
  <2> QED BY <1>2, <1>5, <2>1, MeterTick
<1> QED BY <1>6 DEF RlExact

\* Nothing has arrived yet, and the bucket is full.
LEMMA ExactInit ==
  ASSUME NEW kind, NEW E, NEW D, NEW limit \in RlLimit, NEW b, b = configure(limit)
  PROVE  RlExact(kind, << >>, E, D, b, limit, 0)
<1>1. limit.burst \in Nat /\ limit.rate * 0 = 0
  BY RateProduct DEF RlLimit
<1>2. RlLevel(b, limit, 0) = limit.burst
  BY <1>1 DEF RlLevel, configure
<1>3. \A f, g : DOMAIN g = {} => RlMeter(f, g, limit.burst, 0, limit)
  BY <1>1 DEF RlMeter
<1>4. Len(<< >>) = 0 /\ 1 .. 0 = {}
  OBVIOUS
<1> QED BY <1>2, <1>3, <1>4 DEF RlExact

\* A bucket is never over its burst, and was last looked at in the past.
RlBucketFine(b, limit, now) == b.tokens \in 0 .. limit.burst /\ b.last_update \in 0 .. now

\* Refilled is the level.
LEMMA RefilledIs ==
  ASSUME rl_now \in Nat, NEW limit \in RlLimit, NEW b, RlBucketFine(b, limit, rl_now)
  PROVE  /\ Refilled(b, limit) = RlLevel(b, limit, rl_now)
         /\ RlLevel(b, limit, rl_now) \in 0 .. limit.burst
<1> DEFINE s == b.tokens + limit.rate * (rl_now - b.last_update)
<1>1. limit.burst \in Nat /\ limit.rate \in Nat
  BY DEF RlLimit
<1>2. b.tokens \in Nat /\ rl_now - b.last_update \in Nat
  BY <1>1 DEF RlBucketFine
<1>3. s \in Nat
  <2>1. limit.rate * (rl_now - b.last_update) \in Nat
    BY <1>1, <1>2, RateProduct
  <2> QED BY <1>2, <2>1
<1>4. Refilled(b, limit) = Min({limit.burst, s})
  BY DEF Refilled
<1>5. RlLevel(b, limit, rl_now) = IF s <= limit.burst THEN s ELSE limit.burst
  BY DEF RlLevel
<1> HIDE DEF s
<1>6. Min({limit.burst, s}) = IF s <= limit.burst THEN s ELSE limit.burst
  <2>1. \E x \in {limit.burst, s} : \A y \in {limit.burst, s} : x <= y
    BY <1>1, <1>3
  <2>2. /\ Min({limit.burst, s}) \in {limit.burst, s}
        /\ \A y \in {limit.burst, s} : Min({limit.burst, s}) <= y
    BY <2>1 DEF Min
  <2> QED BY <1>1, <1>3, <2>2
<1> QED BY <1>1, <1>3, <1>4, <1>5, <1>6

\* consume() of a bucket that is not disabled.
LEMMA ConsumeFacts ==
  ASSUME rl_now \in Nat, NEW limit \in RlLimit, NEW b, RlBucketFine(b, limit, rl_now),
         NEW amount \in Nat, ~ Disabled(limit)
  PROVE  /\ RlBucketFine(consume(b, limit, amount), limit, rl_now)
         /\ Consumes(b, limit, amount) <=> amount <= RlLevel(b, limit, rl_now)
         /\ RlLevel(consume(b, limit, amount), limit, rl_now)
              = RlLevel(b, limit, rl_now) - (IF Consumes(b, limit, amount) THEN amount ELSE 0)
<1> DEFINE L == RlLevel(b, limit, rl_now)
<1>1. Refilled(b, limit) = L /\ L \in 0 .. limit.burst /\ limit.burst \in Nat
  BY RefilledIs DEF RlLimit
<1>2. Consumes(b, limit, amount) <=> amount <= L
  <2> HIDE DEF L
  <2> QED BY <1>1 DEF Consumes
<1>3. consume(b, limit, amount)
        = [tokens |-> IF amount <= L THEN L - amount ELSE L, last_update |-> rl_now]
  <2> HIDE DEF L
  <2> QED BY <1>1 DEF consume
<1>4. PICK nb : nb = consume(b, limit, amount)
  OBVIOUS
<1>5. /\ nb.tokens = L - (IF Consumes(b, limit, amount) THEN amount ELSE 0)
      /\ nb.tokens \in 0 .. limit.burst /\ nb.last_update = rl_now
  <2> HIDE DEF L
  <2> QED BY <1>1, <1>2, <1>3, <1>4
<1>6. RlBucketFine(nb, limit, rl_now)
  BY <1>5 DEF RlBucketFine
<1>7. RlLevel(nb, limit, rl_now) = nb.tokens
  <2>1. rl_now - nb.last_update = 0 /\ limit.rate \in Nat
    BY <1>5 DEF RlLimit
  <2>2. limit.rate * (rl_now - nb.last_update) = 0
    BY <2>1, RateProduct
  <2> QED BY <1>1, <1>5, <2>2 DEF RlLevel
<1> QED BY <1>2, <1>4, <1>5, <1>6, <1>7

\* A limit for what events pass (E) or are refused (D): exact, or without effect.
RlLimited(kind, log, E, D, b, limit, now) ==
  IF Disabled(limit) THEN \A k \in 1 .. Len(log) : log[k] \notin D
  ELSE RlExact(kind, log, E, D, b, limit, now)

\* An event for which the bucket is asked.
LEMMA LimitedAsked ==
  ASSUME rl_now \in Nat, NEW kind, NEW E, NEW D, NEW log \in Seq(RlEvent), RlCosts(kind, E),
         NEW limit \in RlLimit, RlPast(log, rl_now),
         NEW b, RlBucketFine(b, limit, rl_now), RlLimited(kind, log, E, D, b, limit, rl_now),
         NEW e \in RlEvent, e.time = rl_now, NEW amount \in Nat, amount = RlCost(kind, e),
         e \in E <=> Consumes(b, limit, amount), e \in D => e \notin E,
         NEW nb, nb = consume(b, limit, amount)
  PROVE  /\ RlLimited(kind, Append(log, e), E, D, nb, limit, rl_now)
         /\ RlBucketFine(nb, limit, rl_now)
<1>1. CASE Disabled(limit)
  <2>1. e \notin D /\ nb = b
    BY <1>1 DEF Consumes, consume
  <2>2. \A k \in 1 .. Len(log) : log[k] \notin D
    BY <1>1 DEF RlLimited
  <2>3. \A k \in 1 .. Len(Append(log, e)) : Append(log, e)[k] \notin D
    BY <2>1, <2>2
  <2> QED BY <1>1, <2>1, <2>3 DEF RlLimited
<1>2. CASE ~ Disabled(limit)
  <2>1. RlExact(kind, log, E, D, b, limit, rl_now)
    BY <1>2 DEF RlLimited
  <2>2. /\ RlBucketFine(nb, limit, rl_now)
        /\ Consumes(b, limit, amount) <=> amount <= RlLevel(b, limit, rl_now)
        /\ RlLevel(nb, limit, rl_now)
             = RlLevel(b, limit, rl_now) - (IF Consumes(b, limit, amount) THEN amount ELSE 0)
    BY <1>2, ConsumeFacts
  <2>3. /\ e \in E \/ e \in D => RlCost(kind, e) \in Nat
        /\ e \in E => RlCost(kind, e) <= RlLevel(b, limit, rl_now)
        /\ e \in D => ~ (RlCost(kind, e) <= RlLevel(b, limit, rl_now))
        /\ RlLevel(nb, limit, rl_now)
             = RlLevel(b, limit, rl_now) - (IF e \in E THEN RlCost(kind, e) ELSE 0)
    BY <2>2
  <2>4. RlExact(kind, Append(log, e), E, D, nb, limit, rl_now)
    BY <2>1, <2>3, ExactStep
  <2> QED BY <1>2, <2>2, <2>4 DEF RlLimited
<1> QED BY <1>1, <1>2

\* An event for which it is not asked.
LEMMA LimitedOther ==
  ASSUME rl_now \in Nat, NEW kind, NEW E, NEW D, NEW log \in Seq(RlEvent), RlCosts(kind, E),
         NEW limit \in RlLimit, RlPast(log, rl_now),
         NEW b, RlBucketFine(b, limit, rl_now), RlLimited(kind, log, E, D, b, limit, rl_now),
         NEW e \in RlEvent, e.time = rl_now, e \notin E, e \notin D
  PROVE  RlLimited(kind, Append(log, e), E, D, b, limit, rl_now)
<1>1. CASE Disabled(limit)
  <2>1. \A k \in 1 .. Len(log) : log[k] \notin D
    BY <1>1 DEF RlLimited
  <2>2. \A k \in 1 .. Len(Append(log, e)) : Append(log, e)[k] \notin D
    BY <2>1
  <2> QED BY <1>1, <2>2 DEF RlLimited
<1>2. CASE ~ Disabled(limit)
  <2>1. RlExact(kind, log, E, D, b, limit, rl_now)
    BY <1>2 DEF RlLimited
  <2>2. RlLevel(b, limit, rl_now)
          = RlLevel(b, limit, rl_now) - (IF e \in E THEN RlCost(kind, e) ELSE 0)
    <3>1. RlLevel(b, limit, rl_now) \in 0 .. limit.burst /\ limit.burst \in Nat
      BY RefilledIs DEF RlLimit
    <3> QED BY <3>1
  <2>3. RlExact(kind, Append(log, e), E, D, b, limit, rl_now)
    BY <2>1, <2>2, ExactStep
  <2> QED BY <1>2, <2>3 DEF RlLimited
<1> QED BY <1>1, <1>2

\* Time that passes.
LEMMA LimitedTick ==
  ASSUME rl_now \in Nat, NEW kind, NEW E, NEW D, NEW log \in Seq(RlEvent), RlCosts(kind, E),
         NEW limit \in RlLimit, RlPast(log, rl_now),
         NEW b, RlBucketFine(b, limit, rl_now), RlLimited(kind, log, E, D, b, limit, rl_now)
  PROVE  /\ RlLimited(kind, log, E, D, b, limit, rl_now + 1)
         /\ RlBucketFine(b, limit, rl_now + 1)
<1>1. b.tokens \in Nat /\ b.last_update \in Nat /\ b.last_update <= rl_now
  BY DEF RlBucketFine, RlLimit
<1>2. RlBucketFine(b, limit, rl_now + 1)
  BY DEF RlBucketFine
<1>3. ~ Disabled(limit) => RlExact(kind, log, E, D, b, limit, rl_now + 1)
  <2>1. ~ Disabled(limit) => RlExact(kind, log, E, D, b, limit, rl_now)
    BY DEF RlLimited
  <2> QED BY <1>1, <2>1, ExactTick
<1> QED BY <1>2, <1>3 DEF RlLimited

\* What the buckets let pass, and what they refused.
RlMsgOk(c) == {e \in RlEvent : e.type = "message" /\ e.client = c /\ e.msg_ok}
RlMsgNo(c) == {e \in RlEvent : e.type = "message" /\ e.client = c /\ ~ e.msg_ok}
RlByteOk(c) == {e \in RlEvent : e.type = "message" /\ e.client = c /\ e.byte_ok}
RlByteNo(c) == {e \in RlEvent : e.type = "message" /\ e.client = c /\ ~ e.byte_ok}
RlRpcOk(c) == {e \in RlEvent : e.type = "rpc" /\ e.client = c /\ e.rpc_ok}
RlRpcNo(c) == {e \in RlEvent : e.type = "rpc" /\ e.client = c /\ ~ e.rpc_ok}
RlOneOk == {e \in RlEvent : e.type = "rpc" /\ e.run}
RlOneNo == {e \in RlEvent : e.type = "rpc" /\ e.rpc_ok /\ e.permitted /\ ~ e.run}

\* What runs was let pass by every bucket.
RlHonest(log) ==
  \A k \in 1 .. Len(log) :
    /\ log[k].type = "message" /\ log[k].run => log[k].msg_ok /\ log[k].byte_ok
    /\ log[k].type = "rpc" /\ log[k].run => log[k].rpc_ok

\* The bucket of one kind of call has no limit if its rate is 0.
RlOneLimited(log, b, now) ==
  IF RlOneRpc.rate = 0 THEN \A k \in 1 .. Len(log) : log[k] \notin RlOneNo
  ELSE RlExact("count", log, RlOneOk, RlOneNo, b, RlOneRpc, now)

\* The inductive invariant, for the log and the time of a state: all buckets are exact.
RlClientInv(c, log, now, m, b, r) ==
  /\ RlBucketFine(m, RlMessages, now) /\ RlBucketFine(b, RlBytes, now)
  /\ RlBucketFine(r, RlRpcs, now)
  /\ RlLimited("count", log, RlMsgOk(c), RlMsgNo(c), m, RlMessages, now)
  /\ RlLimited("bytes", log, RlByteOk(c), RlByteNo(c), b, RlBytes, now)
  /\ RlLimited("count", log, RlRpcOk(c), RlRpcNo(c), r, RlRpcs, now)

\* And over all clients.
RlInv ==
  /\ RlTypeOK /\ RlPast(rl_log, rl_now) /\ RlHonest(rl_log)
  /\ \A c \in RlClients : RlClientInv(c, rl_log, rl_now, rl_message[c], rl_byte[c], rl_rpc[c])
  /\ RlBucketFine(rl_one_rpc, RlOneRpc, rl_now)
  /\ RlOneLimited(rl_log, rl_one_rpc, rl_now)

\* The limits and the costs have their types.
LEMMA RlConstants ==
  /\ RlMessages \in RlLimit /\ RlBytes \in RlLimit /\ RlRpcs \in RlLimit
  /\ RlOneRpc \in RlLimit
  /\ RlSizes \subseteq Nat /\ RlMaxTime \in Nat /\ RlMaxEvents \in Nat
  /\ \A c : /\ RlCosts("count", RlMsgOk(c)) /\ RlCosts("bytes", RlByteOk(c))
            /\ RlCosts("count", RlRpcOk(c))
  /\ RlCosts("count", RlOneOk)
<1>1. /\ RlMessages \in RlLimit /\ RlBytes \in RlLimit /\ RlRpcs \in RlLimit
      /\ RlOneRpc \in RlLimit
      /\ RlSizes \subseteq Nat /\ RlMaxTime \in Nat /\ RlMaxEvents \in Nat
  BY RlAssumption
<1>2. \A e \in RlEvent : e.type = "message" => e.size \in RlSizes
  BY DEF RlEvent
<1>3. "count" # "bytes"
  OBVIOUS
<1>4. \A c : \A e \in RlByteOk(c) : e.size \in Nat
  BY <1>1, <1>2 DEF RlByteOk
<1>5. ASSUME NEW E PROVE RlCosts("count", E)
  BY <1>3 DEF RlCosts
<1>6. ASSUME NEW c PROVE RlCosts("bytes", RlByteOk(c))
  BY <1>4 DEF RlCosts
<1> QED BY <1>1, <1>5, <1>6

\* At the start the log is empty and the buckets are full.
LEMMA RlInitInv == RateLimitsInit => RlInv
<1>1. SUFFICES ASSUME RateLimitsInit PROVE RlInv
  OBVIOUS
<1>2. /\ rl_now = 0 /\ rl_log = << >> /\ Len(rl_log) = 0 /\ 1 .. 0 = {}
      /\ rl_one_rpc = configure(RlOneRpc)
      /\ \A c \in RlClients : /\ rl_message[c] = configure(RlMessages)
                              /\ rl_byte[c] = configure(RlBytes)
                              /\ rl_rpc[c] = configure(RlRpcs)
  BY <1>1 DEF RateLimitsInit
<1>3. \A limit \in RlLimit : /\ configure(limit) \in Bucket
                             /\ configure(limit).tokens <= limit.burst
                             /\ RlBucketFine(configure(limit), limit, 0)
  BY RlConstants DEF configure, RlLimit, Bucket, RlBucketFine
<1>4. RlTypeOK
  BY <1>1, <1>3, RlConstants DEF RlTypeOK, RateLimitsInit
<1>5. RlPast(rl_log, rl_now) /\ RlHonest(rl_log)
  BY <1>2 DEF RlPast, RlHonest
<1>6. ASSUME NEW kind, NEW E, NEW D, NEW limit \in RlLimit
      PROVE  /\ RlExact(kind, << >>, E, D, configure(limit), limit, 0)
             /\ RlLimited(kind, << >>, E, D, configure(limit), limit, 0)
  <2>1. RlExact(kind, << >>, E, D, configure(limit), limit, 0)
    BY ExactInit
  <2>2. \A k \in 1 .. Len(<< >>) : << >>[k] \notin D
    OBVIOUS
  <2> QED BY <2>1, <2>2 DEF RlLimited
<1>7. ASSUME NEW c \in RlClients
      PROVE  RlClientInv(c, rl_log, rl_now, rl_message[c], rl_byte[c], rl_rpc[c])
  BY <1>2, <1>3, <1>6, RlConstants DEF RlClientInv
<1>8. RlOneLimited(rl_log, rl_one_rpc, rl_now)
  <2>1. \A k \in 1 .. Len(rl_log) : rl_log[k] \notin RlOneNo
    BY <1>2
  <2>2. RlExact("count", rl_log, RlOneOk, RlOneNo, rl_one_rpc, RlOneRpc, rl_now)
    BY <1>2, <1>6, RlConstants
  <2> QED BY <2>1, <2>2 DEF RlOneLimited
<1> QED BY <1>2, <1>3, <1>4, <1>5, <1>7, <1>8, RlConstants DEF RlInv

\* One more entry that came now, and runs only if it passed.
LEMMA LogAppend ==
  ASSUME RlInv, NEW e \in RlEvent, e.time = rl_now,
         e.type = "message" /\ e.run => e.msg_ok /\ e.byte_ok,
         e.type = "rpc" /\ e.run => e.rpc_ok
  PROVE  /\ Append(rl_log, e) \in Seq(RlEvent)
         /\ RlPast(Append(rl_log, e), rl_now) /\ RlHonest(Append(rl_log, e))
<1>1. rl_log \in Seq(RlEvent) /\ rl_now \in Nat
  BY RlConstants DEF RlInv, RlTypeOK
<1>2. RlPast(rl_log, rl_now) /\ RlHonest(rl_log)
  BY DEF RlInv
<1>3. PICK long : long = Append(rl_log, e)
  OBVIOUS
<1>4. /\ long \in Seq(RlEvent) /\ Len(long) = Len(rl_log) + 1
      /\ \A k \in 1 .. Len(long) :
           long[k] = e \/ (k \in 1 .. Len(rl_log) /\ long[k] = rl_log[k])
  BY <1>1, <1>3
<1>5. RlPast(long, rl_now)
  BY <1>1, <1>2, <1>4 DEF RlPast
<1>6. RlHonest(long)
  BY <1>2, <1>4 DEF RlHonest
<1> QED BY <1>3, <1>4, <1>5, <1>6

\* The event of a message, and the sets it is in.
LEMMA MessageEvent ==
  ASSUME NEW c \in RlClients, NEW size \in RlSizes, NEW now \in 0 .. RlMaxTime,
         NEW m \in BOOLEAN, NEW b \in BOOLEAN,
         NEW e, e = [type |-> "message", client |-> c, time |-> now, size |-> size,
                     msg_ok |-> m, byte_ok |-> b, run |-> m /\ b]
  PROVE  /\ e \in RlEvent /\ e.time = now /\ e.type = "message" /\ e.size = size
         /\ e.run => e.msg_ok /\ e.byte_ok
         /\ e \in RlMsgOk(c) <=> m
         /\ e \in RlByteOk(c) <=> b
         /\ e \in RlMsgNo(c) => e \notin RlMsgOk(c)
         /\ e \in RlByteNo(c) => e \notin RlByteOk(c)
         /\ \A d : d # c => /\ e \notin RlMsgOk(d) /\ e \notin RlMsgNo(d)
                            /\ e \notin RlByteOk(d) /\ e \notin RlByteNo(d)
         /\ \A d : e \notin RlRpcOk(d) /\ e \notin RlRpcNo(d)
         /\ e \notin RlOneOk /\ e \notin RlOneNo
<1>1. PICK r \in BOOLEAN : r <=> m /\ b
  OBVIOUS
<1>2. e = [type |-> "message", client |-> c, time |-> now, size |-> size,
           msg_ok |-> m, byte_ok |-> b, run |-> r]
  BY <1>1
<1>3. /\ e.type = "message" /\ e.client = c /\ e.time = now /\ e.size = size
      /\ e.msg_ok = m /\ e.byte_ok = b /\ e.run = r
  BY <1>2
<1>4. e \in [type : {"message"}, client : RlClients, time : 0 .. RlMaxTime, size : RlSizes,
             msg_ok : BOOLEAN, byte_ok : BOOLEAN, run : BOOLEAN]
  BY <1>2
<1>5. e \in RlEvent
  BY <1>4 DEF RlEvent
<1>6. "message" # "rpc"
  OBVIOUS
<1>7. e.run => e.msg_ok /\ e.byte_ok
  BY <1>1, <1>3, Zenon
<1>8. /\ e \in RlMsgOk(c) <=> m
      /\ e \in RlByteOk(c) <=> b
  BY <1>3, <1>5, Zenon DEF RlMsgOk, RlByteOk
<1>9. /\ e \in RlMsgNo(c) => e \notin RlMsgOk(c)
      /\ e \in RlByteNo(c) => e \notin RlByteOk(c)
  BY Zenon DEF RlMsgOk, RlByteOk, RlMsgNo, RlByteNo
<1>10. \A d : d # c => /\ e \notin RlMsgOk(d) /\ e \notin RlMsgNo(d)
                       /\ e \notin RlByteOk(d) /\ e \notin RlByteNo(d)
  BY <1>3 DEF RlMsgOk, RlByteOk, RlMsgNo, RlByteNo
<1>11. /\ \A d : e \notin RlRpcOk(d) /\ e \notin RlRpcNo(d)
       /\ e \notin RlOneOk /\ e \notin RlOneNo
  BY <1>3, <1>6 DEF RlRpcOk, RlRpcNo, RlOneOk, RlOneNo
<1> QED BY <1>3, <1>5, <1>7, <1>8, <1>9, <1>10, <1>11, Zenon

\* The event of a call.
LEMMA CallEvent ==
  ASSUME NEW c \in RlClients, NEW now \in 0 .. RlMaxTime,
         NEW ok \in BOOLEAN, NEW p \in BOOLEAN, NEW a \in BOOLEAN,
         NEW e, e = [type |-> "rpc", client |-> c, time |-> now, rpc_ok |-> ok,
                     permitted |-> p, run |-> (ok /\ p) /\ a]
  PROVE  /\ e \in RlEvent /\ e.time = now /\ e.type = "rpc"
         /\ e.run => e.rpc_ok
         /\ e \in RlRpcOk(c) <=> ok
         /\ e \in RlRpcNo(c) => e \notin RlRpcOk(c)
         /\ \A d : d # c => e \notin RlRpcOk(d) /\ e \notin RlRpcNo(d)
         /\ \A d : /\ e \notin RlMsgOk(d) /\ e \notin RlMsgNo(d)
                   /\ e \notin RlByteOk(d) /\ e \notin RlByteNo(d)
         /\ e \in RlOneOk <=> (ok /\ p) /\ a
         /\ e \in RlOneNo <=> (ok /\ p) /\ ~ a
<1>1. PICK r \in BOOLEAN : r <=> (ok /\ p) /\ a
  OBVIOUS
<1>2. e = [type |-> "rpc", client |-> c, time |-> now, rpc_ok |-> ok,
           permitted |-> p, run |-> r]
  BY <1>1
<1>3. /\ e.type = "rpc" /\ e.client = c /\ e.time = now
      /\ e.rpc_ok = ok /\ e.permitted = p /\ e.run = r
  BY <1>2
<1>4. e \in [type : {"rpc"}, client : RlClients, time : 0 .. RlMaxTime, rpc_ok : BOOLEAN,
             permitted : BOOLEAN, run : BOOLEAN]
  BY <1>2
<1>5. e \in RlEvent
  BY <1>4 DEF RlEvent
<1>6. "message" # "rpc"
  OBVIOUS
<1>7. e.run => e.rpc_ok
  BY <1>1, <1>3, Zenon
<1>8. /\ e \in RlRpcOk(c) <=> ok
      /\ e \in RlOneOk <=> r
  BY <1>3, <1>5, Zenon DEF RlRpcOk, RlOneOk
<1>9. e \in RlOneNo <=> ok /\ p /\ ~ r
  BY <1>3, <1>5, Zenon DEF RlOneNo
<1>10. /\ e \in RlRpcNo(c) => e \notin RlRpcOk(c)
       /\ \A d : d # c => e \notin RlRpcOk(d) /\ e \notin RlRpcNo(d)
  BY <1>3, Zenon DEF RlRpcOk, RlRpcNo
<1>11. \A d : /\ e \notin RlMsgOk(d) /\ e \notin RlMsgNo(d)
              /\ e \notin RlByteOk(d) /\ e \notin RlByteNo(d)
  BY <1>3, <1>6 DEF RlMsgOk, RlByteOk, RlMsgNo, RlByteNo
<1> QED BY <1>1, <1>3, <1>5, <1>7, <1>8, <1>9, <1>10, <1>11, Zenon

\* The buckets of the calls of one kind, when the bucket is not asked.
LEMMA OneOther ==
  ASSUME RlInv, NEW e \in RlEvent, e.time = rl_now, e \notin RlOneOk, e \notin RlOneNo
  PROVE  RlOneLimited(Append(rl_log, e), rl_one_rpc, rl_now)
<1>1. /\ rl_log \in Seq(RlEvent) /\ rl_now \in Nat /\ RlPast(rl_log, rl_now)
      /\ RlBucketFine(rl_one_rpc, RlOneRpc, rl_now)
      /\ RlOneLimited(rl_log, rl_one_rpc, rl_now)
      /\ RlOneRpc \in RlLimit /\ RlCosts("count", RlOneOk)
  BY RlConstants DEF RlInv, RlTypeOK
<1>2. CASE RlOneRpc.rate = 0
  <2>1. \A k \in 1 .. Len(rl_log) : rl_log[k] \notin RlOneNo
    BY <1>1, <1>2 DEF RlOneLimited
  <2>2. \A k \in 1 .. Len(Append(rl_log, e)) : Append(rl_log, e)[k] \notin RlOneNo
    BY <1>1, <2>1
  <2> QED BY <1>2, <2>2 DEF RlOneLimited
<1>3. CASE RlOneRpc.rate # 0
  <2>1. RlExact("count", rl_log, RlOneOk, RlOneNo, rl_one_rpc, RlOneRpc, rl_now)
    BY <1>1, <1>3 DEF RlOneLimited
  <2>2. RlLevel(rl_one_rpc, RlOneRpc, rl_now)
          = RlLevel(rl_one_rpc, RlOneRpc, rl_now)
              - (IF e \in RlOneOk THEN RlCost("count", e) ELSE 0)
    <3>1. /\ RlLevel(rl_one_rpc, RlOneRpc, rl_now) \in 0 .. RlOneRpc.burst
          /\ RlOneRpc.burst \in Nat
      BY <1>1, RefilledIs DEF RlLimit
    <3> QED BY <3>1
  <2>3. RlExact("count", Append(rl_log, e), RlOneOk, RlOneNo, rl_one_rpc, RlOneRpc, rl_now)
    BY <1>1, <2>1, <2>2, ExactStep
  <2> QED BY <1>3, <2>3 DEF RlOneLimited
<1> QED BY <1>2, <1>3

\* A bucket that is asked for a client, and the others.
LEMMA MessageStep ==
  ASSUME RlInv, NEW c \in RlClients, NEW size \in RlSizes, allow_message(c, size)
  PROVE  RlInv'
<1> DEFINE msg_ok == Consumes(rl_message[c], RlMessages, 1)
           byte_ok == Consumes(rl_byte[c], RlBytes, size)
<1>1. PICK m \in BOOLEAN, b \in BOOLEAN : (m <=> msg_ok) /\ (b <=> byte_ok)
  OBVIOUS
<1>2. PICK e : e = [type |-> "message", client |-> c, time |-> rl_now, size |-> size,
                    msg_ok |-> m, byte_ok |-> b, run |-> m /\ b]
  OBVIOUS
<1>3. /\ rl_now \in 0 .. RlMaxTime /\ rl_now \in Nat /\ rl_log \in Seq(RlEvent)
      /\ RlPast(rl_log, rl_now) /\ RlTypeOK /\ size \in Nat
  BY RlConstants DEF RlInv, RlTypeOK
<1>4. /\ e \in RlEvent /\ e.time = rl_now /\ e.type = "message" /\ e.size = size
      /\ e.run => e.msg_ok /\ e.byte_ok
      /\ e \in RlMsgOk(c) <=> m
      /\ e \in RlByteOk(c) <=> b
      /\ e \in RlMsgNo(c) => e \notin RlMsgOk(c)
      /\ e \in RlByteNo(c) => e \notin RlByteOk(c)
      /\ \A d : d # c => /\ e \notin RlMsgOk(d) /\ e \notin RlMsgNo(d)
                         /\ e \notin RlByteOk(d) /\ e \notin RlByteNo(d)
      /\ \A d : e \notin RlRpcOk(d) /\ e \notin RlRpcNo(d)
      /\ e \notin RlOneOk /\ e \notin RlOneNo
  BY <1>2, <1>3, MessageEvent
<1>5. /\ rl_log' = Append(rl_log, e)
      /\ rl_message' = [rl_message EXCEPT ![c] = consume(@, RlMessages, 1)]
      /\ rl_byte' = [rl_byte EXCEPT ![c] = consume(@, RlBytes, size)]
      /\ rl_now' = rl_now /\ rl_rpc' = rl_rpc /\ rl_one_rpc' = rl_one_rpc
  <2>1. rl_log' = Append(rl_log,
          [type |-> "message", client |-> c, time |-> rl_now, size |-> size,
           msg_ok |-> msg_ok, byte_ok |-> byte_ok, run |-> msg_ok /\ byte_ok])
    BY DEF allow_message
  <2>2. m = msg_ok /\ b = byte_ok
    BY <1>1 DEF Consumes
  <2>3. rl_log' = Append(rl_log, e)
    BY <1>2, <2>1, <2>2
  <2> QED BY <2>3 DEF allow_message
<1> HIDE DEF msg_ok, byte_ok
<1>6. Append(rl_log, e) \in Seq(RlEvent) /\ RlPast(rl_log', rl_now') /\ RlHonest(rl_log')
  <2>1. "message" # "rpc"
    OBVIOUS
  <2> QED BY <1>4, <1>5, <2>1, LogAppend
<1>7. \A d \in RlClients : RlClientInv(d, rl_log, rl_now, rl_message[d], rl_byte[d], rl_rpc[d])
  BY DEF RlInv
<1>8. /\ RlMessages \in RlLimit /\ RlBytes \in RlLimit /\ RlRpcs \in RlLimit
      /\ \A d : /\ RlCosts("count", RlMsgOk(d)) /\ RlCosts("bytes", RlByteOk(d))
                /\ RlCosts("count", RlRpcOk(d))
      /\ RlCost("count", e) = 1 /\ RlCost("bytes", e) = size
  BY <1>4, RlConstants DEF RlCost
<1>9. ASSUME NEW d \in RlClients
      PROVE  /\ RlBucketFine(rl_rpc[d], RlRpcs, rl_now)
             /\ RlLimited("count", Append(rl_log, e), RlRpcOk(d), RlRpcNo(d), rl_rpc[d], RlRpcs,
                          rl_now)
  <2>1. /\ RlBucketFine(rl_rpc[d], RlRpcs, rl_now)
        /\ RlLimited("count", rl_log, RlRpcOk(d), RlRpcNo(d), rl_rpc[d], RlRpcs, rl_now)
    BY <1>7 DEF RlClientInv
  <2> QED BY <1>3, <1>4, <1>8, <2>1, LimitedOther
<1>10. ASSUME NEW d \in RlClients, d # c
       PROVE  RlClientInv(d, Append(rl_log, e), rl_now, rl_message[d], rl_byte[d], rl_rpc[d])
  <2>1. /\ RlBucketFine(rl_message[d], RlMessages, rl_now)
        /\ RlBucketFine(rl_byte[d], RlBytes, rl_now)
        /\ RlLimited("count", rl_log, RlMsgOk(d), RlMsgNo(d), rl_message[d], RlMessages, rl_now)
        /\ RlLimited("bytes", rl_log, RlByteOk(d), RlByteNo(d), rl_byte[d], RlBytes, rl_now)
    BY <1>7 DEF RlClientInv
  <2>2. RlLimited("count", Append(rl_log, e), RlMsgOk(d), RlMsgNo(d), rl_message[d], RlMessages,
                  rl_now)
    BY <1>3, <1>4, <1>8, <1>10, <2>1, LimitedOther
  <2>3. RlLimited("bytes", Append(rl_log, e), RlByteOk(d), RlByteNo(d), rl_byte[d], RlBytes,
                  rl_now)
    BY <1>3, <1>4, <1>8, <1>10, <2>1, LimitedOther
  <2> QED BY <1>9, <2>1, <2>2, <2>3 DEF RlClientInv
<1>11. RlClientInv(c, Append(rl_log, e), rl_now, consume(rl_message[c], RlMessages, 1),
                   consume(rl_byte[c], RlBytes, size), rl_rpc[c])
  <2>1. /\ RlBucketFine(rl_message[c], RlMessages, rl_now)
        /\ RlBucketFine(rl_byte[c], RlBytes, rl_now)
        /\ RlLimited("count", rl_log, RlMsgOk(c), RlMsgNo(c), rl_message[c], RlMessages, rl_now)
        /\ RlLimited("bytes", rl_log, RlByteOk(c), RlByteNo(c), rl_byte[c], RlBytes, rl_now)
    BY <1>7 DEF RlClientInv
  <2>2. /\ e \in RlMsgOk(c) <=> Consumes(rl_message[c], RlMessages, 1)
        /\ e \in RlByteOk(c) <=> Consumes(rl_byte[c], RlBytes, size)
    BY <1>1, <1>4 DEF msg_ok, byte_ok
  <2>3. PICK nm : nm = consume(rl_message[c], RlMessages, 1)
    OBVIOUS
  <2>4. PICK nb : nb = consume(rl_byte[c], RlBytes, size)
    OBVIOUS
  <2>5. /\ RlLimited("count", Append(rl_log, e), RlMsgOk(c), RlMsgNo(c), nm, RlMessages, rl_now)
        /\ RlBucketFine(nm, RlMessages, rl_now)
    <3>1. 1 \in Nat /\ 1 = RlCost("count", e)
      BY <1>8
    <3> QED BY <1>3, <1>4, <1>8, <2>1, <2>2, <2>3, <3>1, LimitedAsked
  <2>6. /\ RlLimited("bytes", Append(rl_log, e), RlByteOk(c), RlByteNo(c), nb, RlBytes, rl_now)
        /\ RlBucketFine(nb, RlBytes, rl_now)
    BY <1>3, <1>4, <1>8, <2>1, <2>2, <2>4, LimitedAsked
  <2> QED BY <1>9, <2>3, <2>4, <2>5, <2>6 DEF RlClientInv
<1>12. /\ \A d \in RlClients : d # c =>
            rl_message'[d] = rl_message[d] /\ rl_byte'[d] = rl_byte[d]
       /\ rl_message'[c] = consume(rl_message[c], RlMessages, 1)
       /\ rl_byte'[c] = consume(rl_byte[c], RlBytes, size)
  BY <1>3, <1>5 DEF RlTypeOK
<1>13. \A d \in RlClients :
         RlClientInv(d, rl_log', rl_now', rl_message'[d], rl_byte'[d], rl_rpc'[d])
  <2>1. ASSUME NEW d \in RlClients, d # c
        PROVE  RlClientInv(d, rl_log', rl_now', rl_message'[d], rl_byte'[d], rl_rpc'[d])
    BY <1>5, <1>10, <1>12, <2>1
  <2>2. RlClientInv(c, rl_log', rl_now', rl_message'[c], rl_byte'[c], rl_rpc'[c])
    BY <1>5, <1>11, <1>12
  <2> QED BY <2>1, <2>2
<1>14. RlBucketFine(rl_one_rpc', RlOneRpc, rl_now') /\ RlOneLimited(rl_log', rl_one_rpc', rl_now')
  <2>1. RlOneLimited(Append(rl_log, e), rl_one_rpc, rl_now)
    BY <1>4, OneOther
  <2> QED BY <1>5, <2>1 DEF RlInv
<1>15. RlTypeOK'
  <2>1. ASSUME NEW limit \in RlLimit, NEW w \in Bucket, NEW n, RlBucketFine(n, limit, rl_now),
               NEW amount, n = consume(w, limit, amount)
        PROVE  n \in Bucket
    <3>1. CASE Disabled(limit)
      BY <2>1, <3>1 DEF consume
    <3>2. CASE ~ Disabled(limit)
      <4>1. PICK t : n = [tokens |-> t, last_update |-> rl_now]
        BY <2>1, <3>2 DEF consume
      <4>2. t \in Nat
        BY <2>1, <4>1 DEF RlBucketFine, RlLimit
      <4> QED BY <1>3, <4>1, <4>2 DEF Bucket
    <3> QED BY <3>1, <3>2
  <2>2. /\ RlBucketFine(rl_message'[c], RlMessages, rl_now)
        /\ RlBucketFine(rl_byte'[c], RlBytes, rl_now)
    BY <1>5, <1>13 DEF RlClientInv
  <2>3. rl_message'[c] \in Bucket /\ rl_byte'[c] \in Bucket
    BY <1>3, <1>8, <1>12, <2>1, <2>2 DEF RlTypeOK
  <2>4. \A d \in RlClients : rl_message'[d].tokens <= RlMessages.burst
    BY <1>13, <1>8 DEF RlClientInv, RlBucketFine, RlLimit
  <2>5. rl_message' \in [RlClients -> Bucket] /\ rl_byte' \in [RlClients -> Bucket]
    BY <1>3, <1>5, <1>12, <2>3 DEF RlTypeOK
  <2> QED BY <1>3, <1>5, <1>6, <2>4, <2>5 DEF RlTypeOK
<1> QED BY <1>6, <1>13, <1>14, <1>15 DEF RlInv

\* The bucket of one kind of call, when it is asked.
LEMMA OneAsked ==
  ASSUME RlInv, NEW e \in RlEvent, e.time = rl_now,
         e \in RlOneOk <=> OneRpcAllows, e \in RlOneNo <=> ~ OneRpcAllows
  PROVE  /\ RlOneLimited(Append(rl_log, e), one_rpc_consume, rl_now)
         /\ RlBucketFine(one_rpc_consume, RlOneRpc, rl_now)
         /\ one_rpc_consume \in Bucket
<1>1. /\ rl_log \in Seq(RlEvent) /\ rl_now \in Nat /\ RlPast(rl_log, rl_now)
      /\ RlBucketFine(rl_one_rpc, RlOneRpc, rl_now)
      /\ RlOneLimited(rl_log, rl_one_rpc, rl_now)
      /\ RlOneRpc \in RlLimit /\ RlCosts("count", RlOneOk)
      /\ rl_now \in 0 .. RlMaxTime /\ rl_one_rpc \in Bucket
  BY RlConstants DEF RlInv, RlTypeOK
<1>2. CASE RlOneRpc.rate = 0
  <2>1. e \notin RlOneNo /\ one_rpc_consume = rl_one_rpc
    BY <1>2 DEF OneRpcAllows, one_rpc_consume
  <2>2. \A k \in 1 .. Len(rl_log) : rl_log[k] \notin RlOneNo
    BY <1>1, <1>2 DEF RlOneLimited
  <2>3. \A k \in 1 .. Len(Append(rl_log, e)) : Append(rl_log, e)[k] \notin RlOneNo
    BY <1>1, <2>1, <2>2
  <2> QED BY <1>1, <1>2, <2>1, <2>3 DEF RlOneLimited
<1>3. CASE RlOneRpc.rate # 0
  <2> DEFINE L == RlLevel(rl_one_rpc, RlOneRpc, rl_now)
  <2>1. RlExact("count", rl_log, RlOneOk, RlOneNo, rl_one_rpc, RlOneRpc, rl_now)
    BY <1>1, <1>3 DEF RlOneLimited
  <2>2. Refilled(rl_one_rpc, RlOneRpc) = L /\ L \in 0 .. RlOneRpc.burst /\ RlOneRpc.burst \in Nat
    BY <1>1, RefilledIs DEF RlLimit
  <2>3. OneRpcAllows <=> 1 <= L
    <3> HIDE DEF L
    <3> QED BY <1>3, <2>2 DEF OneRpcAllows
  <2>4. one_rpc_consume = [tokens |-> IF 1 <= L THEN L - 1 ELSE L, last_update |-> rl_now]
    <3> HIDE DEF L
    <3> QED BY <1>3, <2>2, <2>3 DEF one_rpc_consume
  <2>5. PICK nb : nb = one_rpc_consume
    OBVIOUS
  <2>6. /\ nb.tokens = L - (IF e \in RlOneOk THEN 1 ELSE 0)
        /\ nb.tokens \in 0 .. RlOneRpc.burst /\ nb.last_update = rl_now
        /\ nb \in Bucket
    <3> HIDE DEF L
    <3>1. (IF 1 <= L THEN L - 1 ELSE L) \in 0 .. RlOneRpc.burst
      BY <2>2
    <3>2. nb \in Bucket
      BY <1>1, <2>2, <2>4, <2>5, <3>1 DEF Bucket
    <3> QED BY <2>2, <2>3, <2>4, <2>5, <3>1, <3>2
  <2>7. RlLevel(nb, RlOneRpc, rl_now) = nb.tokens
    <3>1. rl_now - nb.last_update = 0 /\ RlOneRpc.rate \in Nat
      BY <1>1, <2>6 DEF RlLimit
    <3>2. RlOneRpc.rate * (rl_now - nb.last_update) = 0
      BY <3>1, RateProduct
    <3> QED BY <2>2, <2>6, <3>2 DEF RlLevel
  <2>8. RlCost("count", e) = 1
    BY DEF RlCost
  <2>9. /\ e \in RlOneOk \/ e \in RlOneNo => RlCost("count", e) \in Nat
        /\ e \in RlOneOk => RlCost("count", e) <= L
        /\ e \in RlOneNo => ~ (RlCost("count", e) <= L)
        /\ e \in RlOneNo => e \notin RlOneOk
        /\ RlLevel(nb, RlOneRpc, rl_now) = L - (IF e \in RlOneOk THEN RlCost("count", e) ELSE 0)
    <3> HIDE DEF L
    <3> QED BY <2>3, <2>6, <2>7, <2>8
  <2>10. RlExact("count", Append(rl_log, e), RlOneOk, RlOneNo, nb, RlOneRpc, rl_now)
    BY <1>1, <2>1, <2>9, ExactStep
  <2>11. RlBucketFine(nb, RlOneRpc, rl_now)
    BY <1>1, <2>6 DEF RlBucketFine
  <2> QED BY <1>3, <2>5, <2>6, <2>10, <2>11 DEF RlOneLimited
<1> QED BY <1>2, <1>3

\* A call asks the bucket of its client and then the one of its kind.
LEMMA CallStep ==
  ASSUME RlInv, NEW c \in RlClients, NEW p \in BOOLEAN, receive_rpc(c, p)
  PROVE  RlInv'
<1> DEFINE rpc_ok == Consumes(rl_rpc[c], RlRpcs, 1)
<1>1. PICK ok \in BOOLEAN, a \in BOOLEAN : (ok <=> rpc_ok) /\ (a <=> OneRpcAllows)
  OBVIOUS
<1>2. PICK e : e = [type |-> "rpc", client |-> c, time |-> rl_now, rpc_ok |-> ok,
                    permitted |-> p, run |-> (ok /\ p) /\ a]
  OBVIOUS
<1>3. /\ rl_now \in 0 .. RlMaxTime /\ rl_now \in Nat /\ rl_log \in Seq(RlEvent)
      /\ RlPast(rl_log, rl_now) /\ RlTypeOK
  BY RlConstants DEF RlInv, RlTypeOK
<1>4. /\ e \in RlEvent /\ e.time = rl_now /\ e.type = "rpc"
      /\ e.run => e.rpc_ok
      /\ e \in RlRpcOk(c) <=> ok
      /\ e \in RlRpcNo(c) => e \notin RlRpcOk(c)
      /\ \A d : d # c => e \notin RlRpcOk(d) /\ e \notin RlRpcNo(d)
      /\ \A d : /\ e \notin RlMsgOk(d) /\ e \notin RlMsgNo(d)
                /\ e \notin RlByteOk(d) /\ e \notin RlByteNo(d)
      /\ e \in RlOneOk <=> (ok /\ p) /\ a
      /\ e \in RlOneNo <=> (ok /\ p) /\ ~ a
  BY <1>2, <1>3, CallEvent
<1>5. /\ rl_log' = Append(rl_log, e)
      /\ rl_rpc' = [rl_rpc EXCEPT ![c] = consume(@, RlRpcs, 1)]
      /\ rl_one_rpc' = IF ok /\ p THEN one_rpc_consume ELSE rl_one_rpc
      /\ rl_now' = rl_now /\ rl_message' = rl_message /\ rl_byte' = rl_byte
  <2>1. /\ rl_log' = Append(rl_log,
             [type |-> "rpc", client |-> c, time |-> rl_now, rpc_ok |-> rpc_ok,
              permitted |-> p, run |-> (rpc_ok /\ p) /\ OneRpcAllows])
        /\ rl_one_rpc' = IF rpc_ok /\ p THEN one_rpc_consume ELSE rl_one_rpc
    BY DEF receive_rpc
  <2>2. ok = rpc_ok /\ a = OneRpcAllows
    BY <1>1 DEF Consumes, OneRpcAllows
  <2>3. rl_log' = Append(rl_log, e)
    BY <1>2, <2>1, <2>2
  <2>4. rl_one_rpc' = IF ok /\ p THEN one_rpc_consume ELSE rl_one_rpc
    BY <2>1, <1>1
  <2> QED BY <2>3, <2>4 DEF receive_rpc
<1> HIDE DEF rpc_ok
<1>6. Append(rl_log, e) \in Seq(RlEvent) /\ RlPast(rl_log', rl_now') /\ RlHonest(rl_log')
  <2>1. "message" # "rpc"
    OBVIOUS
  <2> QED BY <1>4, <1>5, <2>1, LogAppend
<1>7. \A d \in RlClients : RlClientInv(d, rl_log, rl_now, rl_message[d], rl_byte[d], rl_rpc[d])
  BY DEF RlInv
<1>8. /\ RlMessages \in RlLimit /\ RlBytes \in RlLimit /\ RlRpcs \in RlLimit
      /\ \A d : /\ RlCosts("count", RlMsgOk(d)) /\ RlCosts("bytes", RlByteOk(d))
                /\ RlCosts("count", RlRpcOk(d))
      /\ RlCost("count", e) = 1
  BY RlConstants DEF RlCost
<1>9. ASSUME NEW d \in RlClients
      PROVE  /\ RlBucketFine(rl_message[d], RlMessages, rl_now)
             /\ RlBucketFine(rl_byte[d], RlBytes, rl_now)
             /\ RlLimited("count", Append(rl_log, e), RlMsgOk(d), RlMsgNo(d), rl_message[d],
                          RlMessages, rl_now)
             /\ RlLimited("bytes", Append(rl_log, e), RlByteOk(d), RlByteNo(d), rl_byte[d],
                          RlBytes, rl_now)
  <2>1. /\ RlBucketFine(rl_message[d], RlMessages, rl_now)
        /\ RlBucketFine(rl_byte[d], RlBytes, rl_now)
        /\ RlLimited("count", rl_log, RlMsgOk(d), RlMsgNo(d), rl_message[d], RlMessages, rl_now)
        /\ RlLimited("bytes", rl_log, RlByteOk(d), RlByteNo(d), rl_byte[d], RlBytes, rl_now)
    BY <1>7 DEF RlClientInv
  <2>2. RlLimited("count", Append(rl_log, e), RlMsgOk(d), RlMsgNo(d), rl_message[d], RlMessages,
                  rl_now)
    BY <1>3, <1>4, <1>8, <2>1, LimitedOther
  <2>3. RlLimited("bytes", Append(rl_log, e), RlByteOk(d), RlByteNo(d), rl_byte[d], RlBytes,
                  rl_now)
    BY <1>3, <1>4, <1>8, <2>1, LimitedOther
  <2> QED BY <2>1, <2>2, <2>3
<1>10. ASSUME NEW d \in RlClients, d # c
       PROVE  RlClientInv(d, Append(rl_log, e), rl_now, rl_message[d], rl_byte[d], rl_rpc[d])
  <2>1. /\ RlBucketFine(rl_rpc[d], RlRpcs, rl_now)
        /\ RlLimited("count", rl_log, RlRpcOk(d), RlRpcNo(d), rl_rpc[d], RlRpcs, rl_now)
    BY <1>7 DEF RlClientInv
  <2>2. RlLimited("count", Append(rl_log, e), RlRpcOk(d), RlRpcNo(d), rl_rpc[d], RlRpcs, rl_now)
    BY <1>3, <1>4, <1>8, <1>10, <2>1, LimitedOther
  <2> QED BY <1>9, <2>1, <2>2 DEF RlClientInv
<1>11. RlClientInv(c, Append(rl_log, e), rl_now, rl_message[c], rl_byte[c],
                   consume(rl_rpc[c], RlRpcs, 1))
  <2>1. /\ RlBucketFine(rl_rpc[c], RlRpcs, rl_now)
        /\ RlLimited("count", rl_log, RlRpcOk(c), RlRpcNo(c), rl_rpc[c], RlRpcs, rl_now)
    BY <1>7 DEF RlClientInv
  <2>2. e \in RlRpcOk(c) <=> Consumes(rl_rpc[c], RlRpcs, 1)
    BY <1>1, <1>4 DEF rpc_ok
  <2>3. PICK nr : nr = consume(rl_rpc[c], RlRpcs, 1)
    OBVIOUS
  <2>4. /\ RlLimited("count", Append(rl_log, e), RlRpcOk(c), RlRpcNo(c), nr, RlRpcs, rl_now)
        /\ RlBucketFine(nr, RlRpcs, rl_now)
    <3>1. 1 \in Nat /\ 1 = RlCost("count", e)
      BY <1>8
    <3> QED BY <1>3, <1>4, <1>8, <2>1, <2>2, <2>3, <3>1, LimitedAsked
  <2> QED BY <1>9, <2>3, <2>4 DEF RlClientInv
<1>12. /\ \A d \in RlClients : d # c => rl_rpc'[d] = rl_rpc[d]
       /\ rl_rpc'[c] = consume(rl_rpc[c], RlRpcs, 1)
  BY <1>3, <1>5 DEF RlTypeOK
<1>13. \A d \in RlClients :
         RlClientInv(d, rl_log', rl_now', rl_message'[d], rl_byte'[d], rl_rpc'[d])
  <2>1. ASSUME NEW d \in RlClients, d # c
        PROVE  RlClientInv(d, rl_log', rl_now', rl_message'[d], rl_byte'[d], rl_rpc'[d])
    BY <1>5, <1>10, <1>12, <2>1
  <2>2. RlClientInv(c, rl_log', rl_now', rl_message'[c], rl_byte'[c], rl_rpc'[c])
    BY <1>5, <1>11, <1>12
  <2> QED BY <2>1, <2>2
<1>14. /\ RlBucketFine(rl_one_rpc', RlOneRpc, rl_now')
       /\ RlOneLimited(rl_log', rl_one_rpc', rl_now') /\ rl_one_rpc' \in Bucket
  <2>1. CASE ok /\ p
    <3>1. (e \in RlOneOk <=> OneRpcAllows) /\ (e \in RlOneNo <=> ~ OneRpcAllows)
      BY <1>1, <1>4, <2>1
    <3>2. /\ RlOneLimited(Append(rl_log, e), one_rpc_consume, rl_now)
          /\ RlBucketFine(one_rpc_consume, RlOneRpc, rl_now)
          /\ one_rpc_consume \in Bucket
      BY <1>4, <3>1, OneAsked
    <3>3. rl_one_rpc' = one_rpc_consume
      BY <1>5, <2>1
    <3> QED BY <1>5, <3>2, <3>3
  <2>2. CASE ~ (ok /\ p)
    <3>1. e \notin RlOneOk /\ e \notin RlOneNo
      BY <1>4, <2>2
    <3>2. RlOneLimited(Append(rl_log, e), rl_one_rpc, rl_now)
      BY <1>4, <3>1, OneOther
    <3>3. rl_one_rpc' = rl_one_rpc
      BY <1>5, <2>2
    <3> QED BY <1>5, <3>2, <3>3 DEF RlInv, RlTypeOK
  <2> QED BY <2>1, <2>2
<1>15. RlTypeOK'
  <2>1. RlBucketFine(rl_rpc'[c], RlRpcs, rl_now)
    BY <1>5, <1>13 DEF RlClientInv
  <2>2. rl_rpc'[c] \in Bucket
    <3>1. rl_rpc[c] \in Bucket
      BY <1>3 DEF RlTypeOK
    <3>2. CASE Disabled(RlRpcs)
      BY <1>12, <3>1, <3>2 DEF consume
    <3>3. CASE ~ Disabled(RlRpcs)
      <4>1. PICK t : rl_rpc'[c] = [tokens |-> t, last_update |-> rl_now]
        BY <1>12, <3>3 DEF consume
      <4>2. t \in Nat
        BY <1>8, <2>1, <4>1 DEF RlBucketFine, RlLimit
      <4> QED BY <1>3, <4>1, <4>2 DEF Bucket
    <3> QED BY <3>2, <3>3
  <2>3. rl_rpc' \in [RlClients -> Bucket]
    BY <1>3, <1>5, <1>12, <2>2 DEF RlTypeOK
  <2> QED BY <1>3, <1>5, <1>6, <1>14, <2>3 DEF RlTypeOK
<1> QED BY <1>6, <1>13, <1>14, <1>15 DEF RlInv

\* Time passes for all of them.
LEMMA RlTickStep ==
  ASSUME RlInv, rl_tick
  PROVE  RlInv'
<1>1. /\ rl_now' = rl_now + 1 /\ rl_now < RlMaxTime
      /\ rl_log' = rl_log /\ rl_message' = rl_message /\ rl_byte' = rl_byte
      /\ rl_rpc' = rl_rpc /\ rl_one_rpc' = rl_one_rpc
  BY DEF rl_tick
<1>2. /\ rl_now \in 0 .. RlMaxTime /\ rl_now \in Nat /\ rl_log \in Seq(RlEvent)
      /\ RlPast(rl_log, rl_now) /\ RlTypeOK /\ RlHonest(rl_log)
      /\ RlBucketFine(rl_one_rpc, RlOneRpc, rl_now)
      /\ RlOneLimited(rl_log, rl_one_rpc, rl_now)
  BY RlConstants DEF RlInv, RlTypeOK
<1>3. /\ RlMessages \in RlLimit /\ RlBytes \in RlLimit /\ RlRpcs \in RlLimit
      /\ RlOneRpc \in RlLimit
      /\ \A d : /\ RlCosts("count", RlMsgOk(d)) /\ RlCosts("bytes", RlByteOk(d))
                /\ RlCosts("count", RlRpcOk(d))
      /\ RlCosts("count", RlOneOk)
  BY RlConstants
<1>4. ASSUME NEW d \in RlClients
      PROVE  RlClientInv(d, rl_log, rl_now + 1, rl_message[d], rl_byte[d], rl_rpc[d])
  <2>1. RlClientInv(d, rl_log, rl_now, rl_message[d], rl_byte[d], rl_rpc[d])
    BY DEF RlInv
  <2>2. /\ RlBucketFine(rl_message[d], RlMessages, rl_now)
        /\ RlBucketFine(rl_byte[d], RlBytes, rl_now)
        /\ RlBucketFine(rl_rpc[d], RlRpcs, rl_now)
        /\ RlLimited("count", rl_log, RlMsgOk(d), RlMsgNo(d), rl_message[d], RlMessages, rl_now)
        /\ RlLimited("bytes", rl_log, RlByteOk(d), RlByteNo(d), rl_byte[d], RlBytes, rl_now)
        /\ RlLimited("count", rl_log, RlRpcOk(d), RlRpcNo(d), rl_rpc[d], RlRpcs, rl_now)
    BY <2>1 DEF RlClientInv
  <2>3. /\ RlBucketFine(rl_message[d], RlMessages, rl_now + 1)
        /\ RlLimited("count", rl_log, RlMsgOk(d), RlMsgNo(d), rl_message[d], RlMessages, rl_now + 1)
    BY <1>2, <1>3, <2>2, LimitedTick
  <2>4. /\ RlBucketFine(rl_byte[d], RlBytes, rl_now + 1)
        /\ RlLimited("bytes", rl_log, RlByteOk(d), RlByteNo(d), rl_byte[d], RlBytes, rl_now + 1)
    BY <1>2, <1>3, <2>2, LimitedTick
  <2>5. /\ RlBucketFine(rl_rpc[d], RlRpcs, rl_now + 1)
        /\ RlLimited("count", rl_log, RlRpcOk(d), RlRpcNo(d), rl_rpc[d], RlRpcs, rl_now + 1)
    BY <1>2, <1>3, <2>2, LimitedTick
  <2> QED BY <2>3, <2>4, <2>5 DEF RlClientInv
<1>5. RlBucketFine(rl_one_rpc, RlOneRpc, rl_now + 1) /\ RlOneLimited(rl_log, rl_one_rpc, rl_now + 1)
  <2>1. /\ rl_one_rpc.tokens \in Nat /\ rl_one_rpc.last_update \in Nat
        /\ rl_one_rpc.last_update <= rl_now
    BY <1>2, <1>3 DEF RlBucketFine, RlLimit
  <2>2. RlOneRpc.rate # 0 =>
          RlExact("count", rl_log, RlOneOk, RlOneNo, rl_one_rpc, RlOneRpc, rl_now + 1)
    <3>1. RlOneRpc.rate # 0 =>
            RlExact("count", rl_log, RlOneOk, RlOneNo, rl_one_rpc, RlOneRpc, rl_now)
      BY <1>2 DEF RlOneLimited
    <3> QED BY <1>2, <1>3, <2>1, <3>1, ExactTick
  <2>3. RlBucketFine(rl_one_rpc, RlOneRpc, rl_now + 1)
    BY <1>2 DEF RlBucketFine
  <2> QED BY <1>2, <2>2, <2>3 DEF RlOneLimited
<1>6. RlPast(rl_log, rl_now + 1)
  BY <1>2 DEF RlPast
<1>7. RlTypeOK'
  BY <1>1, <1>2, RlConstants DEF RlTypeOK
<1> QED BY <1>1, <1>2, <1>4, <1>5, <1>6, <1>7 DEF RlInv

\* Every step keeps the inductive invariant.
LEMMA RlStepInv == RlInv /\ [RateLimitsNext]_rl_vars => RlInv'
<1>1. SUFFICES ASSUME RlInv, [RateLimitsNext]_rl_vars PROVE RlInv'
  OBVIOUS
<1>2. CASE \E c \in RlClients : \E s \in RlSizes : allow_message(c, s)
  BY <1>1, <1>2, MessageStep
<1>3. CASE \E c \in RlClients : \E p \in BOOLEAN : receive_rpc(c, p)
  BY <1>1, <1>3, CallStep
<1>4. CASE rl_tick
  BY <1>1, <1>4, RlTickStep
<1>5. CASE UNCHANGED rl_vars
  BY <1>1, <1>5 DEF rl_vars, RlInv, RlTypeOK
<1> QED BY <1>1, <1>2, <1>3, <1>4, <1>5 DEF RateLimitsNext

\* The messages and the calls of a client that ran.
RlMsgRun(c) == {e \in RlEvent : e.type = "message" /\ e.client = c /\ e.run}
RlRpcRun(c) == {e \in RlEvent : e.type = "rpc" /\ e.client = c /\ e.run}

\* The sets the properties speak of.
LEMMA RlIndexHits ==
  ASSUME rl_log \in Seq(RlEvent), NEW c \in RlClients,
         NEW i \in Nat, NEW j \in Nat, i > 0, j <= Len(rl_log)
  PROVE  /\ {k \in RlIndex("message", c, i, j) : rl_log[k].run}
              = RlHits(rl_log, RlMsgRun(c), i, j)
         /\ {k \in RlIndex("message", c, i, j) : rl_log[k].msg_ok}
              = RlHits(rl_log, RlMsgOk(c), i, j)
         /\ {k \in RlIndex("message", c, i, j) : rl_log[k].byte_ok}
              = RlHits(rl_log, RlByteOk(c), i, j)
         /\ {k \in RlIndex("rpc", c, i, j) : rl_log[k].run}
              = RlHits(rl_log, RlRpcRun(c), i, j)
         /\ {k \in RlIndex("rpc", c, i, j) : rl_log[k].rpc_ok}
              = RlHits(rl_log, RlRpcOk(c), i, j)
<1>1. \A k \in i .. j : rl_log[k] \in RlEvent
  OBVIOUS
<1>2. {k \in RlIndex("message", c, i, j) : rl_log[k].run} = RlHits(rl_log, RlMsgRun(c), i, j)
  BY <1>1, Zenon DEF RlIndex, RlHits, RlMsgRun
<1>3. {k \in RlIndex("message", c, i, j) : rl_log[k].msg_ok} = RlHits(rl_log, RlMsgOk(c), i, j)
  BY <1>1, Zenon DEF RlIndex, RlHits, RlMsgOk
<1>4. {k \in RlIndex("message", c, i, j) : rl_log[k].byte_ok} = RlHits(rl_log, RlByteOk(c), i, j)
  BY <1>1, Zenon DEF RlIndex, RlHits, RlByteOk
<1>5. {k \in RlIndex("rpc", c, i, j) : rl_log[k].run} = RlHits(rl_log, RlRpcRun(c), i, j)
  BY <1>1, Zenon DEF RlIndex, RlHits, RlRpcRun
<1>6. {k \in RlIndex("rpc", c, i, j) : rl_log[k].rpc_ok} = RlHits(rl_log, RlRpcOk(c), i, j)
  BY <1>1, Zenon DEF RlIndex, RlHits, RlRpcOk
<1> QED BY <1>2, <1>3, <1>4, <1>5, <1>6

\* The calls of one kind that ran, from all clients.
LEMMA RlIndexHitsOne ==
  ASSUME rl_log \in Seq(RlEvent), NEW i \in Nat, NEW j \in Nat, i > 0, j <= Len(rl_log)
  PROVE  {k \in UNION {RlIndex("rpc", c, i, j) : c \in RlClients} : rl_log[k].run}
           = RlHits(rl_log, RlOneOk, i, j)
<1>1. \A k \in i .. j : rl_log[k] \in RlEvent
  OBVIOUS
<1>2. \A e \in RlEvent : e.client \in RlClients
  BY DEF RlEvent
<1>3. ASSUME NEW k
      PROVE  k \in UNION {RlIndex("rpc", c, i, j) : c \in RlClients}
               <=> k \in i .. j /\ rl_log[k].type = "rpc"
  <2>1. ASSUME k \in UNION {RlIndex("rpc", c, i, j) : c \in RlClients}
        PROVE  k \in i .. j /\ rl_log[k].type = "rpc"
    <3>1. PICK c \in RlClients : k \in RlIndex("rpc", c, i, j)
      BY <2>1
    <3> QED BY <3>1 DEF RlIndex
  <2>2. ASSUME k \in i .. j, rl_log[k].type = "rpc"
        PROVE  k \in UNION {RlIndex("rpc", c, i, j) : c \in RlClients}
    <3>1. PICK c \in RlClients : c = rl_log[k].client
      BY <1>1, <1>2, <2>2
    <3>2. k \in RlIndex("rpc", c, i, j)
      BY <2>2, <3>1 DEF RlIndex
    <3> QED BY <3>2
  <2> QED BY <2>1, <2>2
<1> QED BY <1>1, <1>3, Zenon DEF RlHits, RlOneOk

\* No window is over a limit.
LEMMA RlInvWithin == RlInv => RlWithinLimits
<1>1. SUFFICES ASSUME RlInv PROVE RlWithinLimits
  OBVIOUS
<1>2. /\ rl_log \in Seq(RlEvent) /\ RlHonest(rl_log)
      /\ \A c \in RlClients :
           RlClientInv(c, rl_log, rl_now, rl_message[c], rl_byte[c], rl_rpc[c])
      /\ RlOneLimited(rl_log, rl_one_rpc, rl_now)
  BY <1>1 DEF RlInv, RlTypeOK
<1>3. ASSUME NEW i \in DOMAIN rl_log, NEW j \in i .. Len(rl_log)
      PROVE  /\ i \in Nat /\ j \in Nat /\ i > 0 /\ j <= Len(rl_log)
             /\ i \in 1 .. Len(rl_log)
             /\ \A k \in i .. j : k \in 1 .. Len(rl_log) /\ rl_log[k] \in RlEvent
  BY <1>2
<1>4. ASSUME NEW limit \in RlLimit, NEW i \in DOMAIN rl_log, NEW j \in i .. Len(rl_log)
      PROVE  RlWindow(limit, i, j) \in Int
  <2>1. \A k \in 1 .. Len(rl_log) : rl_log[k].time \in Nat
    BY <1>1 DEF RlInv, RlPast
  <2>2. j \in 1 .. Len(rl_log)
    BY <1>3
  <2>3. rl_log[i].time \in Nat /\ rl_log[j].time \in Nat
    BY <1>3, <2>1, <2>2
  <2>4. limit.burst \in Nat /\ limit.rate \in Nat
    BY DEF RlLimit
  <2> QED BY <2>3, <2>4 DEF RlWindow
<1>5. ASSUME NEW i \in DOMAIN rl_log, NEW j \in i .. Len(rl_log),
             NEW kind, NEW E, NEW F, NEW D, NEW b, NEW limit \in RlLimit,
             RlExact(kind, rl_log, F, D, b, limit, rl_now), RlCosts(kind, F),
             \A k \in i .. j : rl_log[k] \in E => rl_log[k] \in F
      PROVE  RlUsed(kind, rl_log, E, i, j) <= RlWindow(limit, i, j)
  <2>1. RlUsed(kind, rl_log, F, i, j) <= RlWindow(limit, i, j)
    BY <1>3, <1>5 DEF RlExact, RlWindow
  <2>2. /\ RlUsed(kind, rl_log, E, i, j) \in Nat /\ RlUsed(kind, rl_log, F, i, j) \in Nat
        /\ RlUsed(kind, rl_log, E, i, j) <= RlUsed(kind, rl_log, F, i, j)
    BY <1>2, <1>3, <1>5, UsedMonotone
  <2>3. RlWindow(limit, i, j) \in Int
    BY <1>4
  <2> QED BY <2>1, <2>2, <2>3
<1>6. ASSUME NEW i \in DOMAIN rl_log, NEW j \in i .. Len(rl_log), NEW c \in RlClients
      PROVE  /\ \A k \in i .. j : rl_log[k] \in RlMsgRun(c) => rl_log[k] \in RlMsgOk(c)
             /\ \A k \in i .. j : rl_log[k] \in RlMsgRun(c) => rl_log[k] \in RlByteOk(c)
             /\ \A k \in i .. j : rl_log[k] \in RlRpcRun(c) => rl_log[k] \in RlRpcOk(c)
             /\ \A k \in i .. j : rl_log[k] \in RlOneOk => rl_log[k] \in RlOneOk
  BY <1>2, <1>3, Zenon DEF RlHonest, RlMsgRun, RlMsgOk, RlByteOk, RlRpcRun, RlRpcOk
<1>7. ASSUME NEW i \in DOMAIN rl_log, NEW j \in i .. Len(rl_log), NEW c \in RlClients
      PROVE  /\ Disabled(RlMessages) \/
                  Cardinality({k \in RlIndex("message", c, i, j) : rl_log[k].run})
                    <= RlWindow(RlMessages, i, j)
             /\ Disabled(RlBytes) \/
                  RlBytesOf(rl_log, {k \in RlIndex("message", c, i, j) : rl_log[k].run})
                    <= RlWindow(RlBytes, i, j)
             /\ Disabled(RlRpcs) \/
                  Cardinality({k \in RlIndex("rpc", c, i, j) : rl_log[k].run})
                    <= RlWindow(RlRpcs, i, j)
  <2>1. /\ {k \in RlIndex("message", c, i, j) : rl_log[k].run}
             = RlHits(rl_log, RlMsgRun(c), i, j)
        /\ {k \in RlIndex("rpc", c, i, j) : rl_log[k].run}
             = RlHits(rl_log, RlRpcRun(c), i, j)
    BY <1>2, <1>3, RlIndexHits
  <2>2. /\ RlUsed("count", rl_log, RlMsgRun(c), i, j)
             = Cardinality(RlHits(rl_log, RlMsgRun(c), i, j))
        /\ RlUsed("bytes", rl_log, RlMsgRun(c), i, j)
             = RlBytesOf(rl_log, RlHits(rl_log, RlMsgRun(c), i, j))
        /\ RlUsed("count", rl_log, RlRpcRun(c), i, j)
             = Cardinality(RlHits(rl_log, RlRpcRun(c), i, j))
    BY DEF RlUsed
  <2>3. RlClientInv(c, rl_log, rl_now, rl_message[c], rl_byte[c], rl_rpc[c])
    BY <1>2
  <2>4. ~ Disabled(RlMessages) =>
          RlUsed("count", rl_log, RlMsgRun(c), i, j) <= RlWindow(RlMessages, i, j)
    <3>1. SUFFICES ASSUME ~ Disabled(RlMessages)
                   PROVE  RlUsed("count", rl_log, RlMsgRun(c), i, j) <= RlWindow(RlMessages, i, j)
      OBVIOUS
    <3>2. RlExact("count", rl_log, RlMsgOk(c), RlMsgNo(c), rl_message[c], RlMessages, rl_now)
      BY <2>3, <3>1 DEF RlClientInv, RlLimited
    <3> QED BY <1>5, <1>6, <3>2, RlConstants
  <2>5. ~ Disabled(RlBytes) =>
          RlUsed("bytes", rl_log, RlMsgRun(c), i, j) <= RlWindow(RlBytes, i, j)
    <3>1. SUFFICES ASSUME ~ Disabled(RlBytes)
                   PROVE  RlUsed("bytes", rl_log, RlMsgRun(c), i, j) <= RlWindow(RlBytes, i, j)
      OBVIOUS
    <3>2. RlExact("bytes", rl_log, RlByteOk(c), RlByteNo(c), rl_byte[c], RlBytes, rl_now)
      BY <2>3, <3>1 DEF RlClientInv, RlLimited
    <3> QED BY <1>5, <1>6, <3>2, RlConstants
  <2>6. ~ Disabled(RlRpcs) =>
          RlUsed("count", rl_log, RlRpcRun(c), i, j) <= RlWindow(RlRpcs, i, j)
    <3>1. SUFFICES ASSUME ~ Disabled(RlRpcs)
                   PROVE  RlUsed("count", rl_log, RlRpcRun(c), i, j) <= RlWindow(RlRpcs, i, j)
      OBVIOUS
    <3>2. RlExact("count", rl_log, RlRpcOk(c), RlRpcNo(c), rl_rpc[c], RlRpcs, rl_now)
      BY <2>3, <3>1 DEF RlClientInv, RlLimited
    <3> QED BY <1>5, <1>6, <3>2, RlConstants
  <2> QED BY <2>1, <2>2, <2>4, <2>5, <2>6
<1>8. ASSUME NEW i \in DOMAIN rl_log, NEW j \in i .. Len(rl_log)
      PROVE  RlOneRpc.rate = 0 \/
               Cardinality({k \in UNION {RlIndex("rpc", c, i, j) : c \in RlClients} :
                              rl_log[k].run}) <= RlWindow(RlOneRpc, i, j)
  <2>1. {k \in UNION {RlIndex("rpc", c, i, j) : c \in RlClients} : rl_log[k].run}
          = RlHits(rl_log, RlOneOk, i, j)
    BY <1>2, <1>3, RlIndexHitsOne
  <2>2. RlUsed("count", rl_log, RlOneOk, i, j) = Cardinality(RlHits(rl_log, RlOneOk, i, j))
    BY DEF RlUsed
  <2>3. RlOneRpc.rate # 0 => RlUsed("count", rl_log, RlOneOk, i, j) <= RlWindow(RlOneRpc, i, j)
    <3>1. SUFFICES ASSUME RlOneRpc.rate # 0
                   PROVE  RlUsed("count", rl_log, RlOneOk, i, j) <= RlWindow(RlOneRpc, i, j)
      OBVIOUS
    <3>2. RlExact("count", rl_log, RlOneOk, RlOneNo, rl_one_rpc, RlOneRpc, rl_now)
      BY <1>2, <3>1 DEF RlOneLimited
    <3>3. \A k \in i .. j : rl_log[k] \in RlOneOk => rl_log[k] \in RlOneOk
      OBVIOUS
    <3> QED BY <1>5, <3>2, <3>3, RlConstants
  <2> QED BY <2>1, <2>2, <2>3
<1> QED BY <1>7, <1>8 DEF RlWithinLimits

\* What is refused would have been over a limit.
LEMMA RlInvRefused == RlInv => RlRefusedForALimit
<1>1. SUFFICES ASSUME RlInv PROVE RlRefusedForALimit
  OBVIOUS
<1>2. /\ rl_log \in Seq(RlEvent)
      /\ \A c \in RlClients :
           RlClientInv(c, rl_log, rl_now, rl_message[c], rl_byte[c], rl_rpc[c])
      /\ RlOneLimited(rl_log, rl_one_rpc, rl_now)
  BY <1>1 DEF RlInv, RlTypeOK
<1>3. ASSUME NEW j \in DOMAIN rl_log
      PROVE  /\ j \in 1 .. Len(rl_log) /\ j - 1 \in Nat /\ j - 1 <= Len(rl_log)
             /\ rl_log[j] \in RlEvent /\ rl_log[j].client \in RlClients
             /\ \A i \in 1 .. j : i \in Nat /\ i > 0
  <2>1. \A e \in RlEvent : e.client \in RlClients
    BY DEF RlEvent
  <2> QED BY <1>2, <2>1
<1>4. ASSUME NEW j \in DOMAIN rl_log, NEW kind, NEW E, NEW D, NEW b, NEW limit,
             RlExact(kind, rl_log, E, D, b, limit, rl_now), rl_log[j] \in D
      PROVE  \E i \in 1 .. j : RlCost(kind, rl_log[j]) + RlUsed(kind, rl_log, E, i, j - 1)
                                 > RlWindow(limit, i, j)
  BY <1>3, <1>4 DEF RlExact, RlWindow
<1>5. ASSUME NEW j \in DOMAIN rl_log, NEW kind, NEW E, NEW D, NEW b, NEW limit,
             RlLimited(kind, rl_log, E, D, b, limit, rl_now), rl_log[j] \in D
      PROVE  \E i \in 1 .. j : RlCost(kind, rl_log[j]) + RlUsed(kind, rl_log, E, i, j - 1)
                                 > RlWindow(limit, i, j)
  <2>1. RlExact(kind, rl_log, E, D, b, limit, rl_now)
    BY <1>3, <1>5 DEF RlLimited
  <2> QED BY <1>4, <1>5, <2>1
<1>6. ASSUME NEW j \in DOMAIN rl_log, rl_log[j].type = "message", ~ rl_log[j].msg_ok
      PROVE  \E i \in 1 .. j :
               1 + Cardinality({k \in RlIndex("message", rl_log[j].client, i, j - 1) :
                                  rl_log[k].msg_ok}) > RlWindow(RlMessages, i, j)
  <2>1. PICK c \in RlClients : c = rl_log[j].client
    BY <1>3
  <2>2. rl_log[j] \in RlMsgNo(c)
    BY <1>3, <1>6, <2>1, Zenon DEF RlMsgNo
  <2>3. RlLimited("count", rl_log, RlMsgOk(c), RlMsgNo(c), rl_message[c], RlMessages, rl_now)
    BY <1>2 DEF RlClientInv
  <2>4. PICK i \in 1 .. j :
            RlCost("count", rl_log[j])
              + RlUsed("count", rl_log, RlMsgOk(c), i, j - 1)
                              > RlWindow(RlMessages, i, j)
    BY <1>5, <2>2, <2>3
  <2>5. {k \in RlIndex("message", c, i, j - 1) : rl_log[k].msg_ok}
          = RlHits(rl_log, RlMsgOk(c), i, j - 1)
    <3>1. i \in Nat /\ i > 0 /\ j - 1 \in Nat /\ j - 1 <= Len(rl_log)
      BY <1>3
    <3> QED BY <1>2, <3>1, RlIndexHits
  <2>6. /\ RlCost("count", rl_log[j]) = 1
        /\ RlUsed("count", rl_log, RlMsgOk(c), i, j - 1)
             = Cardinality(RlHits(rl_log, RlMsgOk(c), i, j - 1))
    BY DEF RlCost, RlUsed
  <2> QED BY <2>1, <2>4, <2>5, <2>6
<1>7. ASSUME NEW j \in DOMAIN rl_log, rl_log[j].type = "message", ~ rl_log[j].byte_ok
      PROVE  \E i \in 1 .. j :
               rl_log[j].size
                 + RlBytesOf(rl_log, {k \in RlIndex("message", rl_log[j].client, i, j - 1) :
                                        rl_log[k].byte_ok}) > RlWindow(RlBytes, i, j)
  <2>1. PICK c \in RlClients : c = rl_log[j].client
    BY <1>3
  <2>2. rl_log[j] \in RlByteNo(c)
    BY <1>3, <1>7, <2>1, Zenon DEF RlByteNo
  <2>3. RlLimited("bytes", rl_log, RlByteOk(c), RlByteNo(c), rl_byte[c], RlBytes, rl_now)
    BY <1>2 DEF RlClientInv
  <2>4. PICK i \in 1 .. j :
            RlCost("bytes", rl_log[j])
              + RlUsed("bytes", rl_log, RlByteOk(c), i, j - 1)
                              > RlWindow(RlBytes, i, j)
    BY <1>5, <2>2, <2>3
  <2>5. {k \in RlIndex("message", c, i, j - 1) : rl_log[k].byte_ok}
          = RlHits(rl_log, RlByteOk(c), i, j - 1)
    <3>1. i \in Nat /\ i > 0 /\ j - 1 \in Nat /\ j - 1 <= Len(rl_log)
      BY <1>3
    <3> QED BY <1>2, <3>1, RlIndexHits
  <2>6. /\ RlCost("bytes", rl_log[j]) = rl_log[j].size
        /\ RlUsed("bytes", rl_log, RlByteOk(c), i, j - 1)
             = RlBytesOf(rl_log, RlHits(rl_log, RlByteOk(c), i, j - 1))
    BY DEF RlCost, RlUsed
  <2> QED BY <2>1, <2>4, <2>5, <2>6
<1>8. ASSUME NEW j \in DOMAIN rl_log, rl_log[j].type = "rpc", ~ rl_log[j].rpc_ok
      PROVE  \E i \in 1 .. j :
               1 + Cardinality({k \in RlIndex("rpc", rl_log[j].client, i, j - 1) :
                                  rl_log[k].rpc_ok}) > RlWindow(RlRpcs, i, j)
  <2>1. PICK c \in RlClients : c = rl_log[j].client
    BY <1>3
  <2>2. rl_log[j] \in RlRpcNo(c)
    BY <1>3, <1>8, <2>1, Zenon DEF RlRpcNo
  <2>3. RlLimited("count", rl_log, RlRpcOk(c), RlRpcNo(c), rl_rpc[c], RlRpcs, rl_now)
    BY <1>2 DEF RlClientInv
  <2>4. PICK i \in 1 .. j :
            RlCost("count", rl_log[j])
              + RlUsed("count", rl_log, RlRpcOk(c), i, j - 1)
                              > RlWindow(RlRpcs, i, j)
    BY <1>5, <2>2, <2>3
  <2>5. {k \in RlIndex("rpc", c, i, j - 1) : rl_log[k].rpc_ok}
          = RlHits(rl_log, RlRpcOk(c), i, j - 1)
    <3>1. i \in Nat /\ i > 0 /\ j - 1 \in Nat /\ j - 1 <= Len(rl_log)
      BY <1>3
    <3> QED BY <1>2, <3>1, RlIndexHits
  <2>6. /\ RlCost("count", rl_log[j]) = 1
        /\ RlUsed("count", rl_log, RlRpcOk(c), i, j - 1)
             = Cardinality(RlHits(rl_log, RlRpcOk(c), i, j - 1))
    BY DEF RlCost, RlUsed
  <2> QED BY <2>1, <2>4, <2>5, <2>6
<1>9. ASSUME NEW j \in DOMAIN rl_log, rl_log[j].type = "rpc", rl_log[j].rpc_ok,
             rl_log[j].permitted, ~ rl_log[j].run
      PROVE  \E i \in 1 .. j :
               1 + Cardinality({k \in UNION {RlIndex("rpc", c, i, j - 1) : c \in RlClients} :
                                  rl_log[k].run}) > RlWindow(RlOneRpc, i, j)
  <2>1. rl_log[j] \in RlOneNo
    BY <1>3, <1>9, Zenon DEF RlOneNo
  <2>2. RlExact("count", rl_log, RlOneOk, RlOneNo, rl_one_rpc, RlOneRpc, rl_now)
    BY <1>2, <1>3, <2>1 DEF RlOneLimited
  <2>3. PICK i \in 1 .. j : RlCost("count", rl_log[j]) + RlUsed("count", rl_log, RlOneOk, i, j - 1)
                              > RlWindow(RlOneRpc, i, j)
    BY <1>4, <2>1, <2>2
  <2>4. {k \in UNION {RlIndex("rpc", c, i, j - 1) : c \in RlClients} : rl_log[k].run}
          = RlHits(rl_log, RlOneOk, i, j - 1)
    BY <1>2, <1>3, RlIndexHitsOne
  <2>5. /\ RlCost("count", rl_log[j]) = 1
        /\ RlUsed("count", rl_log, RlOneOk, i, j - 1)
             = Cardinality(RlHits(rl_log, RlOneOk, i, j - 1))
    BY DEF RlCost, RlUsed
  <2> QED BY <2>3, <2>4, <2>5
<1> QED BY <1>6, <1>7, <1>8, <1>9, Zenon DEF RlRefusedForALimit

\* The buckets of rate_limiter.cpp and of rpc_manager.cpp are exact, for all limits,
\* clients, sizes and times: no window of time lets more through than burst and rate
\* allow, and nothing is refused that would not have been over a limit.
THEOREM RateLimitsInvHolds == RateLimitsSpec => []RateLimitsInv
<1>1. RlInv => RateLimitsInv
  BY RlInvWithin, RlInvRefused DEF RlInv, RateLimitsInv
<1> QED BY <1>1, RlInitInv, RlStepInv, PTL DEF RateLimitsSpec

-----------------------------------------------------------------------------
(* The services together.                                                  *)

\* A step of the services is a step of one of them, and the others stay as they are.
LEMMA ServicesStep ==
  ASSUME [Next]_vars
  PROVE  /\ [NetworkTimeNext]_ts_vars /\ [ConnectionTokenNext]_tok_vars
         /\ [NetworkClockNext]_clk_vars /\ [InputBufferNext]_ib_vars
         /\ [LagNext]_lag_vars /\ [SnapshotInterpolationNext]_sb_vars
         /\ [SpatialInterestNext]_sp_vars /\ [RateLimitsNext]_rl_vars
<1>1. CASE Rate(RateLimitsNext)
  BY <1>1 DEF Rate
<1>2. CASE Time(NetworkTimeNext)
  BY <1>2 DEF Time
<1>3. CASE Tokens(ConnectionTokenNext)
  BY <1>3 DEF Tokens
<1>4. CASE Clock(NetworkClockNext)
  BY <1>4 DEF Clock
<1>5. CASE Input(InputBufferNext)
  BY <1>5 DEF Input
<1>6. CASE Lag(LagNext)
  BY <1>6 DEF Lag
<1>7. CASE Snapshot(SnapshotInterpolationNext)
  BY <1>7 DEF Snapshot
<1>8. CASE Spatial(SpatialInterestNext)
  BY <1>8 DEF Spatial
<1>9. CASE Stream(BitStreamNext)
  BY <1>9 DEF Stream
<1>10. CASE UNCHANGED vars
  BY <1>10 DEF vars
<1> QED
  BY <1>1, <1>2, <1>3, <1>4, <1>5, <1>6, <1>7, <1>8, <1>9, <1>10 DEF Next

\* The services together are each of them, for what it does and when it starts.
THEOREM ServicesCompose ==
  Spec => /\ NetworkTimeSpec /\ ConnectionTokenSpec /\ InputBufferSpec /\ LagSpec
          /\ SnapshotInterpolationSpec /\ SpatialInterestSpec /\ RateLimitsSpec
          /\ NetworkClockInit /\ [][NetworkClockNext]_clk_vars
<1>1. Init => /\ NetworkTimeInit /\ ConnectionTokenInit /\ InputBufferInit /\ LagInit
              /\ SnapshotInterpolationInit /\ SpatialInterestInit /\ NetworkClockInit
              /\ RateLimitsInit
  BY DEF Init
<1>2. [Next]_vars => /\ [NetworkTimeNext]_ts_vars /\ [ConnectionTokenNext]_tok_vars
                     /\ [NetworkClockNext]_clk_vars /\ [InputBufferNext]_ib_vars
                     /\ [LagNext]_lag_vars /\ [SnapshotInterpolationNext]_sb_vars
                     /\ [SpatialInterestNext]_sp_vars /\ [RateLimitsNext]_rl_vars
  BY ServicesStep
<1> QED
  BY <1>1, <1>2, PTL DEF Spec, NetworkTimeSpec, ConnectionTokenSpec, InputBufferSpec,
     LagSpec, SnapshotInterpolationSpec, SpatialInterestSpec, RateLimitsSpec

\* The rings that are looked up by wrapping ticks, ids or times (lag_compensator.cpp,
\* prediction.cpp, snapshot_interpolation.cpp) find what was asked for, as long as the
\* ticks of the run fit their width and the ring is longer than the input is ahead.
THEOREM RingsInvHolds ==
  ASSUME IbFits
  PROVE  Spec => []RingsInv
<1>1. LagSpec => [](LagTypeOK /\ LagRewinds)
  BY LagRewindsHolds
<1>2. InputBufferSpec => []InputBufferInv
  BY InputBufferInvHolds
<1> QED BY <1>1, <1>2, SbBracketsHolds, ServicesCompose, PTL DEF RingsInv

\* What a client knows of the server's time and tick (network_time.cpp,
\* network_clock.cpp) stays in its ranges, and the smoothed offset is no worse than the
\* worst sample, as long as no snapshot is later than the clocks may be apart.
THEOREM ClocksInvHolds ==
  ASSUME ClkNear
  PROVE  Spec => []ClocksInv
<1>1. NetworkClockInit /\ [][NetworkClockNext]_clk_vars => []ClkTypeOK
  BY ClkTypeCorrect
<1> QED BY <1>1, TsErrorBoundedHolds, ServicesCompose, PTL DEF ClocksInv
=============================================================================
