----------------------- MODULE TimetableExtractProofs -----------------------
(***************************************************************************)
(* The extract and the lookup, for any timetable, settings, shards and     *)
(* number of failed extractions: how old the extract in a shard's cache    *)
(* can be, and that a bus is matched to its own stops nevertheless.        *)
(***************************************************************************)
EXTENDS TimetableExtract, SequenceTheorems, FiniteSetTheorems,
        WellFoundedInduction, TLAPS

LEMMA Settings ==
  /\ DayLength \in Nat \ {0} /\ Period \in Nat \ {0}
  /\ Window \in Nat /\ LateRunning \in Nat /\ Bounds \in Nat
  /\ Early \in Nat /\ Late \in Nat /\ MaxFaults \in Nat /\ MinTime \in Nat /\ MaxTime \in Nat
  BY ExtractAssumption

LEMMA MaxAgeType == MaxAge \in Nat
  BY Settings DEF MaxAge

-----------------------------------------------------------------------------
(* Arithmetic: days, and when an extraction is due. *)

LEMMA DivMod ==
  ASSUME NEW a \in Int, NEW p \in Nat \ {0}
  PROVE  /\ a \div p \in Int /\ a % p \in 0 .. p - 1
         /\ a = p * (a \div p) + (a % p)
  OBVIOUS

LEMMA AtLeastOnce == ASSUME NEW p \in Nat \ {0}, NEW z \in Int, z > 0 PROVE p * z >= p
  OBVIOUS

LEMMA TimesMonotonic ==
  ASSUME NEW p \in Nat, NEW y \in Nat, NEW z \in Nat, y <= z PROVE p * y <= p * z
  OBVIOUS

\* The quotient is the only number of times that leaves a remainder.
LEMMA OneQuotient ==
  ASSUME NEW p \in Nat \ {0}, NEW d \in Int, NEW t \in Int, d * p <= t, t < (d + 1) * p
  PROVE  t \div p = d /\ t % p = t - d * p
<1> DEFINE q == t \div p
<1>1. q \in Int /\ t = p * q + (t % p) /\ t % p \in 0 .. p - 1
  BY DivMod
<1> HIDE DEF q
<1>2. /\ p * q - p * d = p * (q - d) /\ p * d - p * q = p * (d - q)
      /\ d * p = p * d /\ (d + 1) * p = p * d + p
  BY <1>1
<1>3. ~(q > d) /\ ~(q < d)
  BY <1>1, <1>2, AtLeastOnce
<1> QED BY <1>1, <1>2, <1>3 DEF q

LEMMA DateOf == ASSUME NEW d \in Int, NEW t \in Int, d * DayLength <= t, t < (d + 1) * DayLength
                PROVE  Date(t) = d
  BY OneQuotient, Settings DEF Date

LEMMA NextDayStarts ==
  ASSUME NEW d \in Int
  PROVE  d * DayLength \in Int /\ d + 1 \in Int /\ (d + 1) * DayLength = d * DayLength + DayLength
  BY Settings

\* An extraction is due at least once in a period.
LEMMA DueSoon ==
  ASSUME NEW x \in Int
  PROVE  \E m \in Int : m % Period = 0 /\ x < m /\ m <= x + Period
<1> DEFINE q == x \div Period
           m == (q + 1) * Period
<1>1. q \in Int /\ x = Period * q + (x % Period) /\ x % Period \in 0 .. Period - 1
  BY DivMod, Settings
<1> HIDE DEF q
<1>2. m = Period * q + Period /\ m \in Int /\ m < (q + 2) * Period /\ q + 1 \in Int
  BY <1>1, Settings
<1>3. m % Period = m - (q + 1) * Period
  <2>1. (q + 1) * Period <= m /\ m < ((q + 1) + 1) * Period
    BY <1>1, <1>2, Settings
  <2> HIDE DEF m
  <2> QED BY <1>2, <2>1, OneQuotient, Settings
<1>4. m % Period = 0
  BY <1>2, <1>3
<1>5. x < m /\ m <= x + Period
  BY <1>1, <1>2, Settings
<1> HIDE DEF m
<1> QED BY <1>2, <1>4, <1>5

-----------------------------------------------------------------------------
(* How old the extract in a cache is. *)

\* Shard s has an extract at most n periods older than the last one.
Behind(s, n) == \E a \in Int :
    cache[s] = Around(a) /\ MinTime <= a /\ a <= ran /\ ran - a <= Period * n

\* No moment at which an extraction is due has passed since the last one.
OnSchedule == \A m \in Int : m % Period = 0 /\ ran < m => now <= m

AgeInv ==
    /\ now \in Nat /\ ran \in Nat /\ MinTime <= ran /\ ran <= now
    /\ faults \in 0 .. MaxFaults
    /\ running \in {"no", "put"}
    /\ running = "put" \/ pending # {} => ran = now
    /\ extract = Around(ran)
    /\ OnSchedule
    /\ cache = [s \in Shards |-> cache[s]]
    /\ \A s \in Shards :
          Behind(s, IF running = "put" \/ s \in pending THEN faults + 1 ELSE faults)

LEMMA AgeInit == ExtractInit => AgeInv
<1> SUFFICES ASSUME ExtractInit PROVE AgeInv
  OBVIOUS
<1> USE DEF ExtractInit
<1>1. now = MinTime /\ ran = MinTime /\ faults = 0 /\ MinTime \in Nat /\ MaxFaults \in Nat
  BY Settings
<1>2. OnSchedule
  BY <1>1 DEF OnSchedule
<1>3. ASSUME NEW s \in Shards
      PROVE  Behind(s, IF running = "put" \/ s \in pending THEN faults + 1 ELSE faults)
  <2>1. cache[s] = Around(MinTime) /\ MinTime \in Int /\ ran - MinTime <= Period * 0
    BY <1>1, Settings
  <2> QED BY <1>1, <2>1 DEF Behind
<1> QED BY <1>1, <1>2, <1>3 DEF AgeInv

\* The age is that of the last extraction, and what a later one adds to it.
LEMMA BehindMore ==
  ASSUME AgeInv, NEW s \in Shards, NEW n \in Nat, NEW k \in Nat, n <= k, Behind(s, n)
  PROVE  Behind(s, k)
<1>1. PICK a \in Int : cache[s] = Around(a) /\ MinTime <= a /\ a <= ran /\ ran - a <= Period * n
  BY DEF Behind
<1>2. Period * n <= Period * k /\ Period * n \in Int /\ Period * k \in Int
  BY TimesMonotonic, Settings
<1>3. ran - a <= Period * k
  BY <1>1, <1>2 DEF AgeInv
<1> QED BY <1>1, <1>3 DEF Behind

LEMMA SincePeriod == ASSUME AgeInv PROVE now - ran <= Period
<1>1. PICK m \in Int : m % Period = 0 /\ ran < m /\ m <= ran + Period
  BY DueSoon DEF AgeInv
<1> QED BY <1>1, Settings DEF AgeInv, OnSchedule

LEMMA AgeStep == AgeInv /\ [ExtractNext]_extractVars => AgeInv'
<1> SUFFICES ASSUME AgeInv, [ExtractNext]_extractVars PROVE AgeInv'
  OBVIOUS
<1>0. now \in Nat /\ ran \in Nat /\ faults \in Nat /\ faults + 1 \in Nat
  BY Settings DEF AgeInv
<1>1. CASE PutExtract
  <2>1. /\ ran' = now /\ now' = now /\ extract' = Around(now) /\ running' = "put"
        /\ faults' = faults /\ cache' = cache /\ running = "no" /\ pending = {}
    BY <1>1 DEF PutExtract, AgeInv
  <2>2. ASSUME NEW s \in Shards PROVE Behind(s, faults + 1)'
    <3>1. PICK a \in Int : cache[s] = Around(a) /\ MinTime <= a /\ a <= ran /\ ran - a <= Period * faults
      BY <2>1 DEF AgeInv, Behind
    <3>2. Period * (faults + 1) = Period * faults + Period /\ Period * faults \in Int
      BY <1>0, Settings
    <3>3. now - a <= Period * (faults + 1) /\ a <= now
      BY <3>1, <3>2, <1>0, SincePeriod, Settings DEF AgeInv
    <3> QED BY <2>1, <3>1, <3>3 DEF Behind
  <2>3. OnSchedule'
    BY <2>1, <1>0 DEF OnSchedule
  <2> QED BY <2>1, <2>2, <2>3, <1>0, Settings DEF AgeInv
<1>2. CASE NotifyShards
  <2>1. /\ UNCHANGED <<now, ran, extract, cache>> /\ running = "put" /\ running' = "no"
        /\ faults' \in 0 .. MaxFaults /\ faults' \in Nat
        /\ faults' = faults + 1 \/ (faults' = faults /\ pending' = Shards)
    BY <1>2, <1>0, Settings DEF NotifyShards, AgeInv
  <2>2. ASSUME NEW s \in Shards
        PROVE  Behind(s, IF running = "put" \/ s \in pending THEN faults + 1 ELSE faults)'
    <3>1. Behind(s, faults + 1)
      BY <2>1 DEF AgeInv
    <3>2. Behind(s, faults')
      \/ (faults' = faults /\ s \in pending')
      BY <2>1, <3>1
    <3>3. Behind(s, faults' + 1)
      BY <3>1, <2>1, <1>0, BehindMore
    <3>4. \A n : Behind(s, n) => Behind(s, n)'
      BY <2>1 DEF Behind
    <3> QED BY <3>2, <3>3, <3>4, <2>1
  <2> QED BY <2>1, <2>2 DEF AgeInv, OnSchedule
<1>3. CASE Tick
  <2>1. /\ now' = now + 1 /\ running = "no" /\ pending = {} /\ (now % Period = 0 => ran = now)
        /\ UNCHANGED <<extract, ran, running, pending, cache, faults>>
    BY <1>3 DEF Tick
  <2>2. OnSchedule'
    BY <2>1, <1>0 DEF AgeInv, OnSchedule
  <2> QED BY <2>1, <2>2, <1>0 DEF AgeInv, Behind
<1>4. ASSUME NEW s \in Shards, RefreshCache(s) PROVE AgeInv'
  <2>1. /\ pending' = pending \ {s} /\ cache' = [cache EXCEPT ![s] = extract]
        /\ UNCHANGED <<now, extract, ran, running, faults>>
    BY <1>4 DEF RefreshCache
  <2>2. ASSUME NEW r \in Shards
        PROVE  Behind(r, IF running = "put" \/ r \in pending THEN faults + 1 ELSE faults)'
    <3>1. CASE r = s
      <4>1. \A n \in Nat : Period * n >= 0
        BY Settings
      <4>2. cache'[r] = Around(ran) /\ MinTime <= ran /\ ran \in Int
        BY <2>1, <3>1 DEF AgeInv
      <4>3. \A n \in Nat : Behind(r, n)'
        BY <4>1, <4>2, <2>1, <1>0 DEF Behind
      <4> QED BY <4>3, <2>1, <1>0
    <3>2. CASE r # s
      <4>1. cache'[r] = cache[r] /\ (r \in pending <=> r \in pending')
        BY <2>1, <3>2 DEF AgeInv
      <4> QED BY <4>1, <2>1 DEF AgeInv, Behind
    <3> QED BY <3>1, <3>2
  <2> QED BY <2>1, <2>2 DEF AgeInv, OnSchedule
<1>5. ASSUME NEW j \in Journeys, RecordAvl(j) PROVE AgeInv'
  BY <1>5 DEF RecordAvl, AgeInv, OnSchedule, Behind
<1>6. CASE UNCHANGED extractVars
  BY <1>6 DEF extractVars, AgeInv, OnSchedule, Behind
<1> QED BY <1>1, <1>2, <1>3, <1>4, <1>5, <1>6 DEF ExtractNext

-----------------------------------------------------------------------------
(* What is in an extract. *)

\* The dates for which the query asks include the service day.
LEMMA DayIsAsked ==
  ASSUME SettingsAgree, NEW j \in Journeys, WithinItsDay(j),
         NEW a \in Int, First(j) \in Int, Last(j) \in Int,
         First(j) - Early - MaxAge <= a, a <= Last(j) + Late
  PROVE  ServiceDay[j] \in {Date(a + Window), Date(a), Date(a - Window - LateRunning)}
<1> DEFINE d == ServiceDay[j]
           start == d * DayLength
<1>0. /\ d \in Int /\ start \in Int /\ (d + 1) * DayLength = start + DayLength
      /\ MaxAge \in Nat
  BY ExtractAssumption, Settings, MaxAgeType
<1>1. start <= First(j) - Early /\ Last(j) + Late < start + DayLength + Window + LateRunning
  BY <1>0 DEF WithinItsDay
<1> HIDE DEF start
<1>2. CASE a < start
  <2>1. start <= a + Window /\ a + Window < start + DayLength
    BY <1>0, <1>1, <1>2, Settings DEF SettingsAgree
  <2> QED BY <2>1, <1>0, DateOf, Settings DEF start
<1>3. CASE start <= a /\ a < start + DayLength
  BY <1>3, <1>0, DateOf DEF start
<1>4. CASE start + DayLength <= a
  <2>1. start <= a - Window - LateRunning /\ a - Window - LateRunning < start + DayLength
    BY <1>0, <1>1, <1>4, Settings DEF SettingsAgree
  <2> QED BY <2>1, <1>0, DateOf, Settings DEF start
<1> QED BY <1>0, <1>2, <1>3, <1>4, Settings

LEMMA LowestIndex ==
  ASSUME NEW T, T \subseteq Nat, T # {}
  PROVE  \E l \in T : \A m \in T : l <= m
<1>1. PICK l \in T : \A m \in T : ~(<<m, l>> \in OpToRel(<, Nat))
  BY NatLessThanWellFounded, WFMin
<1>2. ASSUME NEW m \in T PROVE l <= m
  <2>1. m \in Nat /\ l \in Nat /\ ~(<<m, l>> \in OpToRel(<, Nat))
    BY <1>1
  <2> QED BY <2>1 DEF OpToRel
<1> QED BY <1>2

LEMMA DeparturesType ==
  ASSUME NEW j \in Journeys
  PROVE  /\ Departures[j] \in Seq(Int) /\ Len(Departures[j]) \in Nat \ {0}
         /\ DOMAIN Departures[j] = 1 .. Len(Departures[j])
         /\ \A i \in DOMAIN Departures[j] : Departures[j][i] \in Int
         /\ First(j) \in Int /\ Last(j) \in Int
<1>1. Departures[j] \in Seq(Int) /\ Departures[j] # <<>>
  BY ExtractAssumption
<1>2. Len(Departures[j]) \in Nat /\ Len(Departures[j]) # 0
  BY <1>1, EmptySeq, LenProperties
<1> QED BY <1>1, <1>2, LenProperties, ElementOfSeq DEF First, Last

\* A journey under way is in every extract that is not too old.
LEMMA UnderWayIsIn ==
  ASSUME SettingsAgree, NEW j \in Journeys, Served(j), NEW a \in Int,
         First(j) - Early - MaxAge <= a, a <= Last(j) + Late
  PROVE  j \in Around(a)
<1> DEFINE d == Departures[j]
           T == {i \in DOMAIN d : a - Window <= d[i]}
<1>1. /\ d \in Seq(Int) /\ Len(d) \in Nat \ {0} /\ DOMAIN d = 1 .. Len(d)
      /\ \A i \in DOMAIN d : d[i] \in Int
      /\ First(j) = d[1] /\ Last(j) = d[Len(d)] /\ MaxAge \in Nat
  BY DeparturesType, MaxAgeType DEF First, Last
<1>2. Len(d) \in T /\ T \subseteq Nat
  BY <1>1, Settings DEF SettingsAgree
<1>3. PICK i \in T : \A m \in T : i <= m
  BY <1>2, LowestIndex
<1>4. d[i] <= a + Window
  <2>1. CASE i = 1
    BY <2>1, <1>1, Settings DEF SettingsAgree
  <2>2. CASE i # 1
    <3>1. i \in Nat /\ i \in 1 .. Len(d) /\ i \in DOMAIN d
      BY <1>1, <1>2
    <3>2. i - 1 \in DOMAIN d /\ i = (i - 1) + 1 /\ ~(i <= i - 1)
      BY <3>1, <1>1, <2>2
    <3>3. ~(a - Window <= d[i - 1])
      BY <3>2, <1>3
    <3>4. d[i] - d[i - 1] <= 2 * Window
      BY <3>1, <3>2 DEF Served, NoLongPause
    <3>5. d[i] \in Int /\ d[i - 1] \in Int
      BY <3>1, <3>2, <1>1
    <3> HIDE DEF d
    <3> QED BY <3>3, <3>4, <3>5, Settings
  <2> QED BY <2>1, <2>2
<1>5. i \in DOMAIN d /\ d[i] \in (a - Window) .. (a + Window)
  BY <1>1, <1>3, <1>4, Settings
<1>6. ServiceDay[j] \in {Date(a + Window), Date(a), Date(a - Window - LateRunning)}
  BY DayIsAsked, DeparturesType DEF Served
<1> QED BY <1>5, <1>6 DEF Around

-----------------------------------------------------------------------------
(* Lowest and highest members, as the lookup takes them. *)

LEMMA MinIs ==
  ASSUME NEW S, S \subseteq Int, NEW x \in S, \A y \in S : x <= y
  PROVE  Min(S) = x
<1>1. \E m \in S : \A y \in S : m <= y
  OBVIOUS
<1>2. Min(S) \in S /\ \A y \in S : Min(S) <= y
  BY <1>1, Zenon DEF Min
<1>3. Min(S) <= x /\ x <= Min(S) /\ Min(S) \in Int /\ x \in Int
  BY <1>2
<1> QED BY <1>3

LEMMA MaxIs ==
  ASSUME NEW S, S \subseteq Int, NEW x \in S, \A y \in S : y <= x
  PROVE  Max(S) = x
<1>1. \E m \in S : \A y \in S : m >= y
  OBVIOUS
<1>2. Max(S) \in S /\ \A y \in S : Max(S) >= y
  BY <1>1, Zenon DEF Max
<1>3. x <= Max(S) /\ Max(S) <= x /\ Max(S) \in Int /\ x \in Int
  BY <1>2
<1> QED BY <1>3

\* A set of numbers above a bound has a lowest one.
LEMMA MinAbove ==
  ASSUME NEW S, S \subseteq Int, S # {}, NEW b \in Int, \A y \in S : y > b
  PROVE  Min(S) \in Int /\ Min(S) > b
<1> DEFINE T == {y - b : y \in S}
<1>0. \A y \in S : y \in Int /\ y - b \in Nat
  <2> TAKE y \in S
  <2>1. y \in Int /\ y > b
    OBVIOUS
  <2> QED BY <2>1
<1>1. T \subseteq Nat /\ T # {}
  BY <1>0
<1>2. PICK l \in T : \A m \in T : l <= m
  BY <1>1, LowestIndex
<1>3. PICK x \in S : l = x - b
  OBVIOUS
<1>4. ASSUME NEW y \in S PROVE x <= y
  <2>1. l <= y - b /\ y \in Int /\ x \in Int
    BY <1>0, <1>2
  <2> QED BY <2>1, <1>3
<1> QED BY <1>3, <1>4, MinIs

\* A finite set of numbers has a highest one.
LEMMA HighestExists ==
  ASSUME NEW S, S \subseteq Int, S # {}, IsFiniteSet(S)
  PROVE  \E h \in S : \A y \in S : y <= h
<1> DEFINE Bad(T) == /\ T \subseteq Int /\ T # {} /\ IsFiniteSet(T)
                     /\ ~\E h \in T : \A y \in T : y <= h
           Sizes == {n \in Nat : \E T \in SUBSET Int : Bad(T) /\ Cardinality(T) = n}
<1> SUFFICES ASSUME Bad(S) PROVE FALSE
  OBVIOUS
<1>1. Cardinality(S) \in Sizes
  BY FS_CardinalityType
<1>2. PICK n \in Sizes : \A m \in Sizes : n <= m
  BY <1>1, LowestIndex
<1>3. PICK T \in SUBSET Int : Bad(T) /\ Cardinality(T) = n
  BY <1>2
<1>4. PICK x \in T : TRUE
  BY <1>3
<1>5. T \ {x} # {}
  <2>1. x \in Int /\ x <= x
    BY <1>3, <1>4
  <2> QED BY <2>1, <1>3, <1>4
<1>6. IsFiniteSet(T \ {x}) /\ Cardinality(T \ {x}) = n - 1 /\ n \in Nat
  BY <1>3, <1>4, FS_RemoveElement, FS_CardinalityType
<1>7. ~Bad(T \ {x})
  <2>1. Cardinality(T \ {x}) \in Nat /\ ~(n <= Cardinality(T \ {x}))
    BY <1>6, FS_CardinalityType
  <2>2. Cardinality(T \ {x}) \notin Sizes
    BY <1>2, <2>1
  <2> QED BY <1>3, <2>1, <2>2
<1>8. PICK h \in T \ {x} : \A y \in T \ {x} : y <= h
  BY <1>3, <1>5, <1>6, <1>7
<1>9. h \in Int /\ x \in Int /\ \A y \in T : y \in Int
  BY <1>3, <1>4, <1>8
<1>10. CASE h <= x
  BY <1>3, <1>4, <1>8, <1>9, <1>10
<1>11. CASE x <= h
  BY <1>3, <1>8, <1>9, <1>11
<1> QED BY <1>9, <1>10, <1>11

-----------------------------------------------------------------------------
(* Which index a journey has in an extract, and what is found under it. *)

LEMMA AppendToPair ==
  ASSUME NEW a, NEW b, NEW c
  PROVE  /\ Len(Append(<<a, b>>, c)) = 3
         /\ Append(<<a, b>>, c)[1] = a /\ Append(<<a, b>>, c)[2] = b /\ Append(<<a, b>>, c)[3] = c
<1> DEFINE S == {a, b, c}
<1>1. <<a, b>> \in Seq(S) /\ c \in S /\ Len(<<a, b>>) = 2
  OBVIOUS
<1> HIDE DEF S
<1> QED BY <1>1, AppendProperties

\* Plain and directed indexes are told apart, and so are groups, days and directions.
LEMMA IndexesApart ==
  ASSUME NEW g, NEW d, NEW x, NEW h, NEW f, NEW y
  PROVE  /\ <<g, d>> = <<h, f>> => g = h /\ d = f
         /\ Append(<<g, d>>, x) = Append(<<h, f>>, y) => g = h /\ d = f /\ x = y
<1>1. <<g, d>> = <<h, f>> => g = h /\ d = f
  OBVIOUS
<1>2. ASSUME Append(<<g, d>>, x) = Append(<<h, f>>, y) PROVE g = h /\ d = f /\ x = y
  BY <1>2, AppendToPair
<1> QED BY <1>1, <1>2

LEMMA PlainNotDirected ==
  ASSUME NEW g, NEW d, NEW h, NEW f, NEW y
  PROVE  <<g, d>> # Append(<<h, f>>, y)
  BY AppendToPair

\* The one index of a group whose journeys in the extract all have a direction of their own.
LEMMA IndexIs ==
  ASSUME NEW e, NEW j \in e
  PROVE  \/ /\ Index(e, j) = <<Group[j], ServiceDay[j]>>
            /\ \A k \in e : GroupId(k) = GroupId(j) => Direction[k] = Direction[j]
         \/ /\ Index(e, j) = Append(<<Group[j], ServiceDay[j]>>, Direction[j])
            /\ \E k \in e : GroupId(k) = GroupId(j) /\ Direction[k] # Direction[j]
  BY DEF Index, GroupId

LEMMA IndexIsKey == ASSUME NEW e, NEW j \in e PROVE Index(e, j) # NoKey
<1> DEFINE plain == <<Group[j], ServiceDay[j]>>
<1>1. plain # NoKey /\ Append(plain, Direction[j]) # NoKey
  BY AppendToPair DEF NoKey
<1>2. Index(e, j) = plain \/ Index(e, j) = Append(plain, Direction[j])
  BY IndexIs
<1> QED BY <1>1, <1>2

LEMMA PlainIndex ==
  ASSUME NEW e, NEW k \in e, NEW g, NEW d, Index(e, k) = <<g, d>>
  PROVE  /\ Group[k] = g /\ ServiceDay[k] = d
         /\ \A l \in e : GroupId(l) = GroupId(k) => Direction[l] = Direction[k]
<1>1. <<g, d>> # Append(<<Group[k], ServiceDay[k]>>, Direction[k])
  BY PlainNotDirected
<1>2. /\ <<g, d>> = <<Group[k], ServiceDay[k]>>
      /\ \A l \in e : GroupId(l) = GroupId(k) => Direction[l] = Direction[k]
  BY <1>1, IndexIs
<1> QED BY <1>2

LEMMA DirectedIndex ==
  ASSUME NEW e, NEW k \in e, NEW g, NEW d, NEW x, Index(e, k) = Append(<<g, d>>, x)
  PROVE  Group[k] = g /\ ServiceDay[k] = d /\ Direction[k] = x
<1>1. <<Group[k], ServiceDay[k]>> # Append(<<g, d>>, x)
  BY PlainNotDirected
<1>2. Append(<<g, d>>, x) = Append(<<Group[k], ServiceDay[k]>>, Direction[k])
  BY <1>1, IndexIs
<1> QED BY <1>2, IndexesApart

LEMMA SameIndex ==
  ASSUME NEW e, NEW j \in e, NEW k \in e, Index(e, k) = Index(e, j)
  PROVE  GroupId(k) = GroupId(j) /\ Direction[k] = Direction[j]
<1>1. CASE Index(e, j) = <<Group[j], ServiceDay[j]>>
  <2>1. Group[k] = Group[j] /\ ServiceDay[k] = ServiceDay[j]
    BY <1>1, PlainIndex
  <2>2. \A l \in e : GroupId(l) = GroupId(j) => Direction[l] = Direction[j]
    BY <1>1, PlainIndex
  <2> QED BY <2>1, <2>2 DEF GroupId
<1>2. CASE Index(e, j) = Append(<<Group[j], ServiceDay[j]>>, Direction[j])
  BY <1>2, DirectedIndex DEF GroupId
<1> QED BY <1>1, <1>2, IndexIs

\* A journey without a twin has its index, and with it the route, to itself.
LEMMA RouteIsOwn ==
  ASSUME NEW e, e \subseteq Journeys, NEW j \in e, ~\E k \in Journeys : Twin(j, k)
  PROVE  Route(e, Index(e, j)) = [i \in DOMAIN Departures[j] |-> j]
<1> DEFINE sharing == {k \in e : Index(e, k) = Index(e, j)}
           Latest(i) == CHOOSE n \in sharing : /\ i \in DOMAIN Departures[n]
                                               /\ \A k \in sharing : i \in DOMAIN Departures[k] =>
                                                     Departures[k][i] <= Departures[n][i]
<1>1. sharing = {j}
  BY SameIndex DEF Twin
<1>2. UNION {DOMAIN Departures[k] : k \in sharing} = DOMAIN Departures[j]
  BY <1>1
<1>3. ASSUME NEW i \in DOMAIN Departures[j] PROVE Latest(i) = j
  <2>1. Departures[j][i] <= Departures[j][i]
    BY DeparturesType
  <2> QED BY <1>1, <2>1
<1>4. Route(e, Index(e, j)) = [i \in UNION {DOMAIN Departures[k] : k \in sharing} |-> Latest(i)]
  BY DEF Route
<1> QED BY <1>2, <1>3, <1>4

LEMMA TimesOfOwn ==
  ASSUME NEW e, e \subseteq Journeys, NEW j \in e, ~\E k \in Journeys : Twin(j, k), InOrder(j)
  PROVE  Min(TimesOf(e, Index(e, j))) = First(j) /\ Max(TimesOf(e, Index(e, j))) = Last(j)
<1> DEFINE d == Departures[j]
           times == {d[i] : i \in DOMAIN d}
<1>1. TimesOf(e, Index(e, j)) = times
  BY RouteIsOwn DEF TimesOf
<1>2. /\ DOMAIN d = 1 .. Len(d) /\ Len(d) \in Nat \ {0} /\ \A i \in DOMAIN d : d[i] \in Int
      /\ First(j) = d[1] /\ Last(j) = d[Len(d)]
  BY DeparturesType DEF First, Last
<1>3. \A i \in DOMAIN d : d[1] <= d[i] /\ d[i] <= d[Len(d)]
  BY <1>2 DEF InOrder
<1>4. times \subseteq Int /\ First(j) \in times /\ Last(j) \in times
  BY <1>2
<1>5. \A y \in times : First(j) <= y /\ y <= Last(j)
  BY <1>2, <1>3
<1> HIDE DEF times
<1> QED BY <1>1, <1>4, <1>5, MinIs, MaxIs

LEMMA OwnFits ==
  ASSUME SettingsAgree, NEW e, e \subseteq Journeys, NEW j \in e, ~\E k \in Journeys : Twin(j, k),
         InOrder(j), NEW t \in Int, First(j) - Early <= t, t <= Last(j) + Late
  PROVE  Fits(e, Index(e, j), t)
<1>1. First(j) \in Int /\ Last(j) \in Int
  BY DeparturesType
<1>2. First(j) - Bounds <= t /\ t <= Last(j) + Bounds
  BY <1>1, Settings DEF SettingsAgree
<1> QED BY <1>1, <1>2, TimesOfOwn, Settings DEF Fits, Indexes

\* No index of the group on the next day has a time near t.
LEMMA NextDayNotFitting ==
  ASSUME SettingsAgree, NEW e, e \subseteq Journeys, NEW j \in Journeys, ApartFromNextDay(j),
         NEW t \in Int, t <= Last(j) + Late,
         NEW index,
         \A k \in e : Index(e, k) = index => Group[k] = Group[j] /\ ServiceDay[k] = ServiceDay[j] + 1
  PROVE  ~Fits(e, index, t)
<1> SUFFICES ASSUME index \in Indexes(e) PROVE ~(t >= Min(TimesOf(e, index)) - Bounds)
  BY DEF Fits
<1> DEFINE sharing == {k \in e : Index(e, k) = index}
           stops == UNION {DOMAIN Departures[k] : k \in sharing}
           At(i) == {n \in sharing : i \in DOMAIN Departures[n]}
           Latest(i) == CHOOSE n \in sharing : /\ i \in DOMAIN Departures[n]
                                               /\ \A k \in sharing : i \in DOMAIN Departures[k] =>
                                                     Departures[k][i] <= Departures[n][i]
           route == [i \in stops |-> Latest(i)]
           times == {Departures[route[i]][i] : i \in stops}
           bound == Last(j) + Late + Bounds
<1>1. TimesOf(e, index) = times
  BY DEF TimesOf, Route
<1>2. PICK k \in sharing : TRUE
  BY DEF Indexes
<1>3. 1 \in DOMAIN Departures[k]
  BY <1>2, DeparturesType
<1>4. times # {}
  <2>1. 1 \in stops
    BY <1>2, <1>3
  <2> HIDE DEF stops, route
  <2> QED BY <2>1
<1>5. ASSUME NEW i \in stops
      PROVE  Latest(i) \in sharing /\ i \in DOMAIN Departures[Latest(i)]
  <2> DEFINE values == {Departures[n][i] : n \in At(i)}
  <2>1. IsFiniteSet(At(i))
    BY ExtractAssumption, FS_Subset
  <2>2. values # {} /\ values \subseteq Int
    <3>1. At(i) # {} /\ \A n \in At(i) : n \in Journeys /\ i \in DOMAIN Departures[n]
      OBVIOUS
    <3>2. \A n \in At(i) : Departures[n][i] \in Int
      BY <3>1, DeparturesType
    <3> HIDE DEF At
    <3> QED BY <3>1, <3>2
  <2>3. IsFiniteSet(values)
    <3> DEFINE f == [n \in At(i) |-> Departures[n][i]]
    <3>1. f \in Surjection(At(i), values)
      BY DEF Surjection
    <3> QED BY <2>1, <3>1, FS_Surjection
  <2>4. PICK h \in values : \A y \in values : y <= h
    BY <2>2, <2>3, HighestExists
  <2>5. PICK n \in At(i) : h = Departures[n][i]
    OBVIOUS
  <2>6. \A m \in sharing : i \in DOMAIN Departures[m] => Departures[m][i] <= Departures[n][i]
    BY <2>4, <2>5
  <2> QED BY <2>5, <2>6
<1>6. ASSUME NEW i \in stops PROVE Departures[route[i]][i] \in Int /\ Departures[route[i]][i] > bound
  <2> DEFINE n == Latest(i)
  <2>1. n \in sharing /\ i \in DOMAIN Departures[n] /\ route[i] = n
    BY <1>5
  <2> HIDE DEF n, route
  <2>2. n \in e /\ n \in Journeys /\ Group[n] = Group[j] /\ ServiceDay[n] = ServiceDay[j] + 1
    BY <2>1
  <2>3. Departures[n][i] \in Int /\ Last(j) \in Int
    BY <2>1, <2>2, DeparturesType
  <2>4. Departures[n][i] - Bounds > Last(j) + Late
    BY <2>1, <2>2 DEF ApartFromNextDay
  <2> QED BY <2>1, <2>3, <2>4, Settings
<1>7. times \subseteq Int /\ (\A y \in times : y > bound) /\ bound \in Int /\ Last(j) \in Int
  <2>1. Last(j) \in Int /\ bound \in Int
    BY DeparturesType, Settings
  <2> HIDE DEF stops, route, bound
  <2> QED BY <1>6, <2>1
<1> HIDE DEF times, bound
<1>8. Min(times) \in Int /\ Min(times) > bound
  BY <1>4, <1>7, MinAbove
<1> QED BY <1>1, <1>7, <1>8, Settings DEF bound

\* What the lookup finds for a journey that is in the extract.
LEMMA LookupFindsOwn ==
  ASSUME SettingsAgree, NEW e, e \subseteq Journeys, NEW j \in e, ~\E k \in Journeys : Twin(j, k),
         Served(j), NEW t \in Int, First(j) - Early <= t, t <= Last(j) + Late
  PROVE  Lookup(e, j, t) = Index(e, j)
<1> DEFINE day == ServiceDay[j]
           plain(d) == <<Group[j], d>>
           directed(d) == Append(<<Group[j], d>>, Direction[j])
           C == Candidates(j, t)
           fitting == {i \in 1 .. 4 : Fits(e, C[i], t)}
<1>0. day \in Int /\ Group[j] = Group[j] /\ First(j) \in Int /\ Last(j) \in Int
  BY ExtractAssumption, DeparturesType
<1>1. /\ C[1] = plain(Date(t)) /\ C[2] = directed(Date(t))
      /\ C[3] = plain(Date(t) - 1) /\ C[4] = directed(Date(t) - 1)
  BY DEF Candidates
<1>2. Lookup(e, j, t) = IF fitting = {} THEN NoKey ELSE C[Min(fitting)]
  BY DEF Lookup
<1>3. Fits(e, Index(e, j), t)
  BY OwnFits DEF Served
<1>4. Index(e, j) = plain(day) \/ (Index(e, j) = directed(day) /\ ~Fits(e, plain(day), t))
  <2>1. CASE Index(e, j) = directed(day)
             /\ \E k \in e : GroupId(k) = GroupId(j) /\ Direction[k] # Direction[j]
    <3>1. ASSUME NEW k \in e, Index(e, k) = plain(day) PROVE FALSE
      <4>1. /\ Group[k] = Group[j] /\ ServiceDay[k] = day
            /\ \A l \in e : GroupId(l) = GroupId(k) => Direction[l] = Direction[k]
        BY <3>1, PlainIndex
      <4>2. GroupId(k) = GroupId(j)
        BY <4>1 DEF GroupId
      <4> QED BY <2>1, <4>1, <4>2
    <3> QED BY <2>1, <3>1 DEF Fits, Indexes
  <2> QED BY <2>1, IndexIs
<1>5. Date(t) = day \/ (Date(t) = day + 1 /\ ~Fits(e, plain(day + 1), t) /\ ~Fits(e, directed(day + 1), t))
  <2> DEFINE start == day * DayLength
  <2>1. /\ start \in Int /\ (day + 1) * DayLength = start + DayLength
        /\ ((day + 1) + 1) * DayLength = start + DayLength + DayLength
    BY <1>0, NextDayStarts, Settings
  <2>2. start <= t /\ t < start + DayLength + DayLength
    BY <1>0, <2>1, Settings DEF Served, WithinItsDay, SettingsAgree
  <2>3. t < start + DayLength => Date(t) = day
    BY <1>0, <2>1, <2>2, DateOf
  <2>4. ~(t < start + DayLength) => Date(t) = day + 1
    <3> HIDE DEF start
    <3> SUFFICES ASSUME ~(t < start + DayLength) PROVE Date(t) = day + 1
      OBVIOUS
    <3>1. day + 1 \in Int /\ (day + 1) * DayLength <= t /\ t < ((day + 1) + 1) * DayLength
      BY <1>0, <2>1, <2>2, Settings
    <3> QED BY <3>1, DateOf
  <2>5. ASSUME NEW index, index = plain(day + 1) \/ index = directed(day + 1)
        PROVE  ~Fits(e, index, t)
    <3>1. ASSUME NEW k \in e, Index(e, k) = index
          PROVE  Group[k] = Group[j] /\ ServiceDay[k] = day + 1
      BY <3>1, <2>5, PlainIndex, DirectedIndex
    <3> QED BY <3>1, NextDayNotFitting DEF Served
  <2> QED BY <2>3, <2>4, <2>5
<1>6. PICK n \in 1 .. 4 : C[n] = Index(e, j) /\ \A i \in 1 .. 4 : i < n => ~Fits(e, C[i], t)
  <2>1. CASE Date(t) = day /\ Index(e, j) = plain(day)
    BY <1>1, <2>1
  <2>2. CASE Date(t) = day /\ Index(e, j) = directed(day) /\ ~Fits(e, plain(day), t)
    BY <1>1, <2>2
  <2>0. Date(t) = day + 1 => /\ C[1] = plain(day + 1) /\ C[2] = directed(day + 1)
                             /\ C[3] = plain(day) /\ C[4] = directed(day)
    <3>1. (day + 1) - 1 = day
      BY <1>0
    <3> QED BY <1>1, <3>1
  <2> HIDE DEF C, plain, directed
  <2>3. CASE /\ Date(t) = day + 1 /\ ~Fits(e, plain(day + 1), t) /\ ~Fits(e, directed(day + 1), t)
             /\ Index(e, j) = plain(day)
    BY <2>0, <2>3
  <2>4. CASE /\ Date(t) = day + 1 /\ ~Fits(e, plain(day + 1), t) /\ ~Fits(e, directed(day + 1), t)
             /\ Index(e, j) = directed(day) /\ ~Fits(e, plain(day), t)
    BY <2>0, <2>4
  <2> QED BY <1>4, <1>5, <2>1, <2>2, <2>3, <2>4
<1>7. n \in fitting /\ fitting \subseteq Int /\ \A i \in fitting : n <= i
  BY <1>3, <1>6
<1> HIDE DEF fitting, C
<1> QED BY <1>2, <1>6, <1>7, MinIs

-----------------------------------------------------------------------------
\* Once the shards have read what they were told of, a cache has the extract of a
\* moment not long ago.
NotTooOld == running = "no" /\ pending = {} =>
    \A s \in Shards : \E a \in Int : cache[s] = Around(a) /\ now - MaxAge <= a /\ a <= now

LEMMA AgeBoundsCache == AgeInv => NotTooOld
<1> SUFFICES ASSUME AgeInv, running = "no", pending = {}, NEW s \in Shards
             PROVE  \E a \in Int : cache[s] = Around(a) /\ now - MaxAge <= a /\ a <= now
  BY DEF NotTooOld
<1>0. now \in Nat /\ ran \in Nat /\ faults \in Nat /\ faults <= MaxFaults
  BY Settings DEF AgeInv
<1>1. PICK a \in Int : cache[s] = Around(a) /\ a <= ran /\ ran - a <= Period * faults
  BY DEF AgeInv, Behind
<1>2. Period * faults <= Period * MaxFaults /\ Period * faults \in Int
  BY <1>0, TimesMonotonic, Settings
<1>3. MaxAge = Period * MaxFaults + Period
  BY Settings DEF MaxAge
<1>4. now - MaxAge <= a /\ a <= now
  BY <1>0, <1>1, <1>2, <1>3, SincePeriod, Settings DEF AgeInv
<1> QED BY <1>1, <1>4

LEMMA FreshCacheFindsOwn == SettingsAgree /\ (\A j \in Journeys : Served(j)) /\ AgeInv => OwnRoute
<1> SUFFICES ASSUME SettingsAgree, \A j \in Journeys : Served(j), AgeInv,
                    running = "no", pending = {}, NEW j \in Journeys,
                    now \in (First(j) - Early) .. (Last(j) + Late),
                    ~\E k \in Journeys : Twin(j, k)
             PROVE  LET e == cache[ShardOf[j]]
                        index == Lookup(e, j, now)
                    IN index # NoKey /\ Route(e, index) = [i \in DOMAIN Departures[j] |-> j]
  BY DEF OwnRoute
<1> DEFINE e == cache[ShardOf[j]]
<1>1. ShardOf[j] \in Shards
  BY ExtractAssumption
<1>2. PICK a \in Int : e = Around(a) /\ now - MaxAge <= a /\ a <= now
  BY <1>1, AgeBoundsCache DEF NotTooOld
<1>3. /\ now \in Int /\ First(j) \in Int /\ Last(j) \in Int /\ MaxAge \in Nat
      /\ First(j) - Early <= now /\ now <= Last(j) + Late
  BY DeparturesType, MaxAgeType, Settings DEF AgeInv
<1>4. First(j) - Early - MaxAge <= a /\ a <= Last(j) + Late
  BY <1>2, <1>3, Settings
<1>5. j \in e /\ e \subseteq Journeys
  BY <1>2, <1>4, UnderWayIsIn DEF Around
<1>6. Lookup(e, j, now) = Index(e, j)
  BY <1>3, <1>5, LookupFindsOwn
<1>7. Index(e, j) # NoKey
  BY <1>5, IndexIsKey
<1> QED BY <1>5, <1>6, <1>7, RouteIsOwn

LEMMA AgeInvariant == ExtractSpec => []AgeInv
<1> QED BY AgeInit, AgeStep, PTL DEF ExtractSpec

(* However many notifications fail, up to the bound, no shard looks up AVLs *)
(* in an extract more than that many periods, and one, old.                 *)
THEOREM CachesStayFresh == ExtractSpec => []NotTooOld
  BY AgeInvariant, AgeBoundsCache, PTL

(* A bus that is not too early or late is matched to the stops of its own   *)
(* journey, for every timetable whose journeys are Served and settings that *)
(* agree: the extract that its shard has, though old, has the journey, and  *)
(* of the four indexes tried the first that fits is its own.                *)
THEOREM BusesFindOwnRoute ==
    SettingsAgree /\ (\A j \in Journeys : Served(j)) => (ExtractSpec => []OwnRoute)
<1> SUFFICES ASSUME SettingsAgree /\ \A j \in Journeys : Served(j)
             PROVE  ExtractSpec => []OwnRoute
  OBVIOUS
<1>1. AgeInv => OwnRoute
  BY FreshCacheFindsOwn
<1> QED BY <1>1, AgeInvariant, PTL
=============================================================================
