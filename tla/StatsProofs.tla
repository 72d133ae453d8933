---------------------------- MODULE StatsProofs ----------------------------
(***************************************************************************)
(* For every finite set of files and mirrors, every file size, calendar    *)
(* and capacity of countChan: no increment received by the counter is      *)
(* lost, the hashes of Redis agree with one another, and a report is the   *)
(* sum of its days.                                                        *)
(***************************************************************************)
EXTENDS Stats, FiniteSums

CountersOK ==
    /\ countChan \in Seq(Item)
    /\ today \in Day
    /\ mapStats \in [Key -> Nat] /\ saved \in [Key -> Nat]
    /\ received \in [Key -> Nat] /\ replayed \in [Key -> Nat]

IInv == CountersOK /\ NothingLost

LEMMA IncrementType ==
    ASSUME NEW item \in Item, NEW k \in Key
    PROVE  Increment(item, k) \in Nat
<1>1. Size[item.file] \in Nat
    BY StatsAssumption DEF Item
<1> QED BY <1>1 DEF Increment

\* A push keeps every increment where it is, or moves it from the map to Redis.
LEMMA PushKeeps ==
    ASSUME IInv, pushStats
    PROVE  /\ mapStats' \in [Key -> Nat] /\ saved' \in [Key -> Nat]
           /\ replayed' \in [Key -> Nat]
           /\ \A k \in Key : saved'[k] + mapStats'[k] = received[k] + replayed'[k]
<1> USE DEF IInv, CountersOK, NothingLost
<1>1. CASE PushNothing \/ PushDown
    BY <1>1 DEF PushNothing, PushDown, redisVars
<1>2. CASE PushOk
    <2>1. /\ saved' = [k \in Key |-> saved[k] + mapStats[k]]
          /\ mapStats' = [k \in Key |-> 0] /\ replayed' = replayed
        BY <1>2 DEF PushOk, Apply
    <2> QED BY <2>1
<1>3. CASE PushError
    <2>1. mapStats' = mapStats
        BY <1>3 DEF PushError
    <2>2. CASE UNCHANGED <<redisVars, replayed>>
        BY <2>1, <2>2 DEF redisVars
    <2>3. CASE Apply /\ replayed' = [k \in Key |-> replayed[k] + mapStats[k]]
        <3>1. saved' = [k \in Key |-> saved[k] + mapStats[k]]
            BY <2>3 DEF Apply
        <3> QED BY <2>1, <2>3, <3>1
    <2> QED BY <1>3, <2>2, <2>3 DEF PushError
<1> QED BY <1>1, <1>2, <1>3 DEF pushStats

LEMMA InvStep == IInv /\ [Next]_vars => IInv'
<1> SUFFICES ASSUME IInv, [Next]_vars PROVE IInv'
    OBVIOUS
<1> USE DEF redisVars, historyVars
<1>1. ASSUME NEW m \in Mirror, NEW f \in File, CountDownload(m, f) PROVE IInv'
    <2>1. [mirror |-> m, file |-> f, day |-> today] \in Item
        BY DEF IInv, CountersOK, Item
    <2>2. countChan' \in Seq(Item)
        BY <1>1, <2>1 DEF IInv, CountersOK, CountDownload
    <2> QED BY <1>1, <2>2 DEF IInv, CountersOK, NothingLost, CountDownload
<1>2. ASSUME Receive PROVE IInv'
    <2>1. Head(countChan) \in Item /\ countChan' \in Seq(Item)
        BY <1>2 DEF IInv, CountersOK, Receive
    <2>2. \A k \in Key : Increment(Head(countChan), k) \in Nat
        BY <2>1, IncrementType
    <2>3. /\ mapStats' \in [Key -> Nat] /\ received' \in [Key -> Nat]
          /\ \A k \in Key :
                /\ mapStats'[k] = mapStats[k] + Increment(Head(countChan), k)
                /\ received'[k] = received[k] + Increment(Head(countChan), k)
        BY <1>2, <2>2 DEF IInv, CountersOK, Receive
    <2>4. UNCHANGED <<today, saved, replayed>>
        BY <1>2 DEF Receive
    <2>5. NothingLost'
        <3> SUFFICES ASSUME NEW k \in Key
                     PROVE  saved'[k] + mapStats'[k] = received'[k] + replayed'[k]
            BY DEF NothingLost
        <3> DEFINE n == Increment(Head(countChan), k)
        <3>1. /\ n \in Nat /\ saved[k] \in Nat /\ mapStats[k] \in Nat
              /\ received[k] \in Nat /\ replayed[k] \in Nat
            BY <2>2 DEF IInv, CountersOK
        <3>2. saved[k] + mapStats[k] = received[k] + replayed[k]
            BY DEF IInv, NothingLost
        <3>3. mapStats'[k] = mapStats[k] + n /\ received'[k] = received[k] + n
            BY <2>3
        <3>4. saved'[k] = saved[k] /\ replayed'[k] = replayed[k]
            BY <2>4
        <3> HIDE DEF n
        <3> QED BY <3>1, <3>2, <3>3, <3>4
    <2> QED BY <2>1, <2>3, <2>4, <2>5 DEF IInv, CountersOK
<1>3. ASSUME Tick \/ Finish PROVE IInv'
    <2>1. pushStats /\ UNCHANGED <<today, countChan, received>>
        BY <1>3 DEF Tick, Finish
    <2> QED BY <2>1, PushKeeps DEF IInv, CountersOK, NothingLost
<1>4. ASSUME Terminate \/ RedisFails \/ RedisRecovers \/ UNCHANGED vars PROVE IInv'
    BY <1>4 DEF IInv, CountersOK, NothingLost, Terminate, RedisFails, RedisRecovers, vars
<1>5. ASSUME Midnight PROVE IInv'
    BY <1>5, StatsAssumption DEF IInv, CountersOK, NothingLost, Midnight, Day
<1> QED BY <1>1, <1>2, <1>3, <1>4, <1>5 DEF Next

\* Every increment that the goroutine receives stays in mapStats or in Redis,
\* through any sequence of failed, ambiguous and successful pushes.
THEOREM StatsNothingLost == Spec => []NothingLost
<1>1. Init => IInv
    BY StatsAssumption DEF Init, IInv, CountersOK, NothingLost, Day
<1>2. IInv /\ [Next]_vars => IInv'
    BY InvStep
<1>3. IInv => NothingLost
    BY DEF IInv
<1> QED BY <1>1, <1>2, <1>3, PTL DEF Spec

-----------------------------------------------------------------------------
(* The hashes of Redis agree.                                              *)

\* The keys of one kind are as many as their days and objects.
LEMMA KeysFinite ==
    ASSUME NEW kind, NEW Object, IsFiniteSet(Object),
           NEW K, \A k \in K : \E d \in Day, o \in Object : k = <<kind, d, o>>
    PROVE  IsFiniteSet(K)
<1> DEFINE f == [k \in K |-> <<k[2], k[3]>>]
<1>1. IsFiniteSet(Day)
  BY StatsAssumption, FS_Interval DEF Day
<1>2. IsFiniteSet(Day \X Object)
  BY <1>1, FS_Product
<1>3. f \in Injection(K, Day \X Object)
  <2>1. f \in [K -> Day \X Object]
    OBVIOUS
  <2>2. ASSUME NEW j \in K, NEW k \in K, f[j] = f[k]
        PROVE  j = k
    <3>1. j[2] = k[2] /\ j[3] = k[3]
      BY <2>2
    <3> QED BY <3>1
  <2> HIDE DEF f
  <2>3. DOMAIN f = K
    BY <2>1
  <2> QED BY <2>1, <2>2, <2>3 DEF Injection, IsInjective
<1> HIDE DEF f
<1> QED BY <1>2, <1>3, FS_Injection

LEMMA KeysOK ==
    /\ IsFiniteSet(Key) /\ IsFiniteSet(FileKeys) /\ IsFiniteSet(MirrorKeys)
    /\ FileKeys \subseteq Key /\ MirrorKeys \subseteq Key
<1>1. IsFiniteSet(FileKeys)
  <2>1. \A k \in FileKeys : \E d \in Day, o \in File : k = <<"f", d, o>>
    BY DEF FileKeys, FileKey
  <2> QED BY <2>1, KeysFinite, StatsAssumption
<1>2. IsFiniteSet(MirrorKeys)
  <2>1. \A k \in MirrorKeys : \E d \in Day, o \in Mirror : k = <<"m", d, o>>
    BY DEF MirrorKeys, MirrorKey
  <2> QED BY <2>1, KeysFinite, StatsAssumption
<1>3. IsFiniteSet(BytesKeys)
  <2>1. \A k \in BytesKeys : \E d \in Day, o \in Mirror : k = <<"s", d, o>>
    BY DEF BytesKeys, BytesKey
  <2> QED BY <2>1, KeysFinite, StatsAssumption
<1>4. IsFiniteSet(FileKeys \cup MirrorKeys)
  BY <1>1, <1>2, FS_Union
<1>5. IsFiniteSet((FileKeys \cup MirrorKeys) \cup BytesKeys)
  BY <1>3, <1>4, FS_Union
<1> QED BY <1>1, <1>2, <1>5 DEF Key

\* The days of a period, and their keys.
LEMMA PeriodDays ==
    ASSUME NEW p \in Period
    PROVE  Within(p) \subseteq Day
BY DEF Period, Within

LEMMA PeriodKeys ==
    ASSUME NEW a \in PeriodKey
    PROVE  KeysOf(a) \subseteq Key /\ IsFiniteSet(KeysOf(a))
<1>1. /\ a[2] \in Period
      /\ \/ a[1] = "f" /\ a[3] \in File
         \/ a[1] \in {"m", "s"} /\ a[3] \in Mirror
  BY DEF PeriodKey
<1>2. Within(a[2]) \subseteq Day
  BY <1>1, PeriodDays
<1>3. ASSUME NEW d \in Day
      PROVE  <<a[1], d, a[3]>> \in Key
  BY <1>1 DEF Key, FileKeys, FileKey, MirrorKeys, MirrorKey, BytesKeys, BytesKey
<1>4. KeysOf(a) \subseteq Key
  BY <1>2, <1>3 DEF KeysOf
<1> QED BY <1>4, KeysOK, FS_Subset

\* The sums of the model are counts of units.
LEMMA OverCount ==
    ASSUME mapStats \in [Key -> Nat], NEW D \in SUBSET Key, IsFiniteSet(D)
    PROVE  Over(D) = Count(mapStats, D)
<1>1. Over(D) = SumOf(mapStats, D)
  BY DEF Over, MapThenSumSet, MapThenFoldSet, SumOf, IsSum, Chosen
<1>2. \A k \in D : mapStats[k] \in Nat
  OBVIOUS
<1> QED BY <1>1, <1>2, SumIsCount

LEMMA SavedCount ==
    ASSUME saved \in [Key -> Nat], NEW D \in SUBSET Key, IsFiniteSet(D)
    PROVE  SumSaved(D) = Count(saved, D)
<1>1. SumSaved(D) = SumOf(saved, D)
  BY DEF SumSaved, MapThenSumSet, MapThenFoldSet, SumOf, IsSum, Chosen
<1>2. \A k \in D : saved[k] \in Nat
  OBVIOUS
<1> QED BY <1>1, <1>2, SumIsCount

\* What Redis holds agrees, and what is about to be pushed will not change that.
HashesAgree ==
    /\ total \in Nat /\ savedPeriod \in [PeriodKey -> Nat]
    /\ Count(mapStats, FileKeys) = Count(mapStats, MirrorKeys)
    /\ total = Count(saved, FileKeys)
    /\ total = Count(saved, MirrorKeys)
    /\ \A a \in PeriodKey : savedPeriod[a] = Count(saved, KeysOf(a))

LEMMA ApplyCounts ==
    ASSUME CountersOK, Apply, NEW D \in SUBSET Key, IsFiniteSet(D)
    PROVE  Count(saved', D) = Count(saved, D) + Over(D) /\ Over(D) \in Nat
<1>1. \A k \in D : /\ saved[k] \in Nat /\ mapStats[k] \in Nat
                   /\ saved'[k] = saved[k] + mapStats[k]
  BY DEF CountersOK, Apply
<1>2. Count(saved', D) = Count(saved, D) + Count(mapStats, D)
  BY <1>1, CountAdds
<1>3. Over(D) = Count(mapStats, D)
  BY OverCount DEF CountersOK
<1>4. Count(mapStats, D) \in Nat
  <2>1. \A k \in D : mapStats[k] \in Nat
    BY <1>1
  <2> QED BY <2>1, CountStep
<1> QED BY <1>2, <1>3, <1>4

LEMMA ApplyAgrees ==
    ASSUME CountersOK, HashesAgree, Apply
    PROVE  /\ total' \in Nat /\ savedPeriod' \in [PeriodKey -> Nat]
           /\ total' = Count(saved', FileKeys)
           /\ total' = Count(saved', MirrorKeys)
           /\ \A a \in PeriodKey : savedPeriod'[a] = Count(saved', KeysOf(a))
<1>1. /\ Count(saved', FileKeys) = Count(saved, FileKeys) + Over(FileKeys)
      /\ Over(FileKeys) \in Nat
  BY KeysOK, ApplyCounts
<1>2. Count(saved', MirrorKeys) = Count(saved, MirrorKeys) + Over(MirrorKeys)
  BY KeysOK, ApplyCounts
<1>3. Over(FileKeys) = Over(MirrorKeys)
  BY KeysOK, OverCount DEF CountersOK, HashesAgree
<1>4. total' = total + Over(FileKeys)
  BY DEF Apply
<1>5. ASSUME NEW a \in PeriodKey
      PROVE  /\ savedPeriod[a] + Over(KeysOf(a)) = Count(saved', KeysOf(a))
             /\ savedPeriod[a] + Over(KeysOf(a)) \in Nat
  <2>1. /\ Count(saved', KeysOf(a)) = Count(saved, KeysOf(a)) + Over(KeysOf(a))
        /\ Over(KeysOf(a)) \in Nat
    BY PeriodKeys, ApplyCounts
  <2>2. savedPeriod[a] \in Nat /\ savedPeriod[a] = Count(saved, KeysOf(a))
    BY DEF HashesAgree
  <2> QED BY <2>1, <2>2
<1>6. savedPeriod' = [a \in PeriodKey |-> savedPeriod[a] + Over(KeysOf(a))]
  BY DEF Apply
<1>7. total \in Nat /\ total = Count(saved, FileKeys) /\ total = Count(saved, MirrorKeys)
  BY DEF HashesAgree
<1>8. /\ total' \in Nat
      /\ total' = Count(saved', FileKeys) /\ total' = Count(saved', MirrorKeys)
  BY <1>1, <1>2, <1>3, <1>4, <1>7
<1>9. /\ savedPeriod' \in [PeriodKey -> Nat]
      /\ \A a \in PeriodKey : savedPeriod'[a] = Count(saved', KeysOf(a))
  BY <1>5, <1>6
<1> QED BY <1>8, <1>9

LEMMA PushAgrees ==
    ASSUME CountersOK, HashesAgree, pushStats
    PROVE  HashesAgree'
<1>1. CASE PushNothing \/ PushDown
  BY <1>1 DEF PushNothing, PushDown, HashesAgree, redisVars
<1>2. CASE PushOk
  <2>1. Apply /\ mapStats' = [k \in Key |-> 0]
    BY <1>2 DEF PushOk
  <2>2. Count(mapStats', FileKeys) = 0 /\ Count(mapStats', MirrorKeys) = 0
    <3>1. /\ \A k \in FileKeys : mapStats'[k] = 0
          /\ \A k \in MirrorKeys : mapStats'[k] = 0
      BY <2>1, KeysOK
    <3> QED BY <3>1, CountZero
  <2> QED BY <2>1, <2>2, ApplyAgrees DEF HashesAgree
<1>3. CASE PushError
  <2>1. mapStats' = mapStats
    BY <1>3 DEF PushError
  <2>2. CASE UNCHANGED redisVars
    BY <2>1, <2>2 DEF HashesAgree, redisVars
  <2>3. CASE Apply
    <3>1. Count(mapStats', FileKeys) = Count(mapStats', MirrorKeys)
      BY <2>1 DEF HashesAgree
    <3> QED BY <2>3, <3>1, ApplyAgrees DEF HashesAgree
  <2> QED BY <1>3, <2>2, <2>3 DEF PushError
<1> QED BY <1>1, <1>2, <1>3 DEF pushStats

\* A download counts once for its file and once for its mirror.
LEMMA ReceiveAgrees ==
    ASSUME CountersOK, HashesAgree, Receive
    PROVE  HashesAgree'
<1> DEFINE item == Head(countChan)
           one == [k \in Key |-> Increment(item, k)]
<1>1. item \in Item
  BY DEF CountersOK, Receive
<1>2. \A k \in Key : Increment(item, k) \in Nat
  BY <1>1, IncrementType
<1>3. /\ item.day \in Day /\ item.file \in File /\ item.mirror \in Mirror
  BY <1>1 DEF Item
<1>4. mapStats' = [k \in Key |-> mapStats[k] + Increment(item, k)]
  BY DEF Receive
<1> HIDE DEF item
<1>5. \A k \in Key : /\ mapStats[k] \in Nat /\ one[k] \in Nat
                     /\ mapStats'[k] = mapStats[k] + one[k]
  BY <1>2, <1>4 DEF CountersOK
<1>6. Count(one, FileKeys) = 1
  <2>1. FileKey(item.day, item.file) \in FileKeys
    BY <1>3 DEF FileKeys
  <2>2. ASSUME NEW k \in FileKeys
        PROVE  one[k] = IF k = FileKey(item.day, item.file) THEN 1 ELSE 0
    <3>1. k \in Key /\ k[1] = "f"
      BY KeysOK DEF FileKeys, FileKey
    <3> QED BY <3>1 DEF Increment, MirrorKey, BytesKey
  <2> HIDE DEF one
  <2> QED BY <2>1, <2>2, CountOne
<1>7. Count(one, MirrorKeys) = 1
  <2>1. MirrorKey(item.day, item.mirror) \in MirrorKeys
    BY <1>3 DEF MirrorKeys
  <2>2. ASSUME NEW k \in MirrorKeys
        PROVE  one[k] = IF k = MirrorKey(item.day, item.mirror) THEN 1 ELSE 0
    <3>1. k \in Key /\ k[1] = "m"
      BY KeysOK DEF MirrorKeys, MirrorKey
    <3> QED BY <3>1 DEF Increment, FileKey, BytesKey
  <2> HIDE DEF one
  <2> QED BY <2>1, <2>2, CountOne
<1> HIDE DEF one
<1>8. ASSUME NEW D \in SUBSET Key, IsFiniteSet(D)
      PROVE  Count(mapStats', D) = Count(mapStats, D) + Count(one, D)
  <2>1. \A k \in D : /\ mapStats[k] \in Nat /\ one[k] \in Nat
                     /\ mapStats'[k] = mapStats[k] + one[k]
    BY <1>5
  <2> QED BY <1>8, <2>1, CountAdds
<1>9. Count(mapStats', FileKeys) = Count(mapStats', MirrorKeys)
  <2>1. /\ Count(mapStats', FileKeys) = Count(mapStats, FileKeys) + 1
        /\ Count(mapStats', MirrorKeys) = Count(mapStats, MirrorKeys) + 1
    BY <1>6, <1>7, <1>8, KeysOK
  <2> QED BY <2>1 DEF HashesAgree
<1>10. UNCHANGED redisVars
  BY DEF Receive
<1> QED BY <1>9, <1>10 DEF HashesAgree, redisVars

LEMMA AgreeStep == IInv /\ HashesAgree /\ [Next]_vars => HashesAgree'
<1> SUFFICES ASSUME IInv, HashesAgree, [Next]_vars PROVE HashesAgree'
  OBVIOUS
<1>1. CASE Receive
  BY <1>1, ReceiveAgrees DEF IInv
<1>2. CASE Tick \/ Finish
  BY <1>2, PushAgrees DEF IInv, Tick, Finish
<1>3. CASE UNCHANGED <<mapStats, redisVars>>
  BY <1>3 DEF HashesAgree, redisVars
<1> QED BY <1>1, <1>2, <1>3
        DEF Next, CountDownload, Terminate, RedisFails, RedisRecovers, Midnight, vars

LEMMA AgreeInit == Init => HashesAgree
<1> SUFFICES ASSUME Init PROVE HashesAgree
  OBVIOUS
<1>1. /\ saved = [k \in Key |-> 0] /\ mapStats = [k \in Key |-> 0] /\ total = 0
      /\ savedPeriod = [a \in PeriodKey |-> 0]
  BY DEF Init
<1>2. ASSUME NEW D \in SUBSET Key
      PROVE  Count(saved, D) = 0 /\ Count(mapStats, D) = 0
  <2>1. \A k \in D : saved[k] = 0 /\ mapStats[k] = 0
    BY <1>1
  <2> QED BY <2>1, CountZero
<1>3. \A a \in PeriodKey : Count(saved, KeysOf(a)) = 0
  BY <1>2, PeriodKeys
<1>4. /\ Count(saved, FileKeys) = 0 /\ Count(saved, MirrorKeys) = 0
      /\ Count(mapStats, FileKeys) = 0 /\ Count(mapStats, MirrorKeys) = 0
  BY <1>2, KeysOK
<1> QED BY <1>1, <1>3, <1>4 DEF HashesAgree

\* A day is in its month, a month in its year.
LEMMA PeriodsNest ==
    ASSUME NEW d \in Day, NEW f \in File
    PROVE  LET month == <<"f", <<"month", Month(d)>>, f>>
               year == <<"f", <<"year", Year(d)>>, f>>
               all == <<"f", <<"all", 0>>, f>>
           IN /\ month \in PeriodKey /\ year \in PeriodKey /\ all \in PeriodKey
              /\ <<"f", d, f>> \in KeysOf(month)
              /\ KeysOf(month) \subseteq KeysOf(year)
              /\ KeysOf(year) \subseteq KeysOf(all)
<1> DEFINE month == <<"f", <<"month", Month(d)>>, f>>
           year == <<"f", <<"year", Year(d)>>, f>>
           all == <<"f", <<"all", 0>>, f>>
<1>1. month \in PeriodKey /\ year \in PeriodKey /\ all \in PeriodKey
  BY DEF PeriodKey, Period
<1>2. /\ Within(<<"month", Month(d)>>) = {e \in Day : Month(e) = Month(d)}
      /\ Within(<<"year", Year(d)>>) = {e \in Day : Year(e) = Year(d)}
      /\ Within(<<"all", 0>>) = Day
  BY DEF Within
<1>3. \A e \in Day : Month(e) = Month(d) => Year(e) = Year(d)
  BY DEF Year
<1>4. <<"f", d, f>> \in KeysOf(month)
  BY <1>2 DEF KeysOf
<1>5. KeysOf(month) \subseteq KeysOf(year)
  BY <1>2, <1>3 DEF KeysOf
<1>6. KeysOf(year) \subseteq KeysOf(all)
  BY <1>2 DEF KeysOf
<1> QED BY <1>1, <1>4, <1>5, <1>6

\* The page of a file: today, this month, this year, all time.
LEMMA FilePageNests ==
    ASSUME CountersOK, HashesAgree, NEW f \in File, NEW i \in 1..3
    PROVE  StatsFileNow(f)[i] <= StatsFileNow(f)[i + 1]
<1> DEFINE day == <<"f", today, f>>
           month == <<"f", <<"month", Month(today)>>, f>>
           year == <<"f", <<"year", Year(today)>>, f>>
           all == <<"f", <<"all", 0>>, f>>
<1>1. today \in Day
  BY DEF CountersOK
<1>2. /\ month \in PeriodKey /\ year \in PeriodKey /\ all \in PeriodKey
      /\ day \in KeysOf(month)
      /\ KeysOf(month) \subseteq KeysOf(year) /\ KeysOf(year) \subseteq KeysOf(all)
  BY <1>1, PeriodsNest
<1>3. /\ KeysOf(month) \subseteq Key /\ IsFiniteSet(KeysOf(month))
      /\ KeysOf(year) \subseteq Key /\ IsFiniteSet(KeysOf(year))
      /\ KeysOf(all) \subseteq Key /\ IsFiniteSet(KeysOf(all))
  BY <1>2, PeriodKeys
<1>4. StatsFileNow(f) = <<saved[day], savedPeriod[month], savedPeriod[year],
                          savedPeriod[all]>>
  BY <1>1 DEF StatsFileNow, Hash
<1> HIDE DEF day, month, year, all
<1>5. /\ savedPeriod[month] = Count(saved, KeysOf(month))
      /\ savedPeriod[year] = Count(saved, KeysOf(year))
      /\ savedPeriod[all] = Count(saved, KeysOf(all))
  BY <1>2 DEF HashesAgree
<1>6. \A k \in Key : saved[k] \in Nat
  BY DEF CountersOK
<1>7. saved[day] <= savedPeriod[month]
  <2>1. Count(saved, {day}) = saved[day]
    BY <1>2, <1>3, <1>6, CountSingle
  <2>2. {day} \in SUBSET KeysOf(month) /\ \A k \in KeysOf(month) : saved[k] \in Nat
    BY <1>2, <1>3, <1>6
  <2>3. Count(saved, {day}) <= Count(saved, KeysOf(month))
    BY <1>3, <2>2, CountMonotone
  <2> QED BY <1>5, <2>1, <2>3
<1>8. savedPeriod[month] <= savedPeriod[year]
  <2>1. KeysOf(month) \in SUBSET KeysOf(year) /\ \A k \in KeysOf(year) : saved[k] \in Nat
    BY <1>2, <1>3, <1>6
  <2>2. Count(saved, KeysOf(month)) <= Count(saved, KeysOf(year))
    BY <1>3, <2>1, CountMonotone
  <2> QED BY <1>5, <2>2
<1>9. savedPeriod[year] <= savedPeriod[all]
  <2>1. KeysOf(year) \in SUBSET KeysOf(all) /\ \A k \in KeysOf(all) : saved[k] \in Nat
    BY <1>2, <1>3, <1>6
  <2>2. Count(saved, KeysOf(year)) <= Count(saved, KeysOf(all))
    BY <1>3, <2>1, CountMonotone
  <2> QED BY <1>5, <2>2
<1>10. i = 1 \/ i = 2 \/ i = 3
  OBVIOUS
<1> QED BY <1>4, <1>7, <1>8, <1>9, <1>10

\* STATS_TOTAL, the hashes of the days and those of the longer periods agree after
\* any pushes, failed, repeated or ambiguous, and the page of a file nests.
THEOREM StatsTotalsAgree == Spec => []TotalsAgree
<1>1. Init => IInv /\ HashesAgree
  BY AgreeInit, StatsAssumption DEF Init, IInv, CountersOK, NothingLost, Day
<1>2. IInv /\ HashesAgree /\ [Next]_vars => (IInv /\ HashesAgree)'
  BY InvStep, AgreeStep
<1>3. IInv /\ HashesAgree => TotalsAgree
  <2> SUFFICES ASSUME IInv, HashesAgree PROVE TotalsAgree
    OBVIOUS
  <2>1. CountersOK /\ saved \in [Key -> Nat]
    BY DEF IInv, CountersOK
  <2>2. SumSaved(FileKeys) = Count(saved, FileKeys)
    BY <2>1, KeysOK, SavedCount
  <2>3. SumSaved(MirrorKeys) = Count(saved, MirrorKeys)
    BY <2>1, KeysOK, SavedCount
  <2>4. \A a \in PeriodKey : SumSaved(KeysOf(a)) = Count(saved, KeysOf(a))
    BY <2>1, PeriodKeys, SavedCount
  <2>5. \A f \in File, i \in 1..3 : StatsFileNow(f)[i] <= StatsFileNow(f)[i + 1]
    BY <2>1, FilePageNests
  <2> QED BY <2>2, <2>3, <2>4, <2>5 DEF TotalsAgree, HashesAgree
<1> QED BY <1>1, <1>2, <1>3, PTL DEF Spec

-----------------------------------------------------------------------------
(* The calendar.                                                           *)

LEMMA Division ==
    ASSUME NEW a \in Nat, NEW m \in Nat \ {0}
    PROVE  /\ (a \div m) \in Nat
           /\ (a \div m) * m <= a /\ a < ((a \div m) + 1) * m
OBVIOUS

LEMMA Times ==
    ASSUME NEW a \in Nat, NEW b \in Nat, NEW m \in Nat
    PROVE  /\ a * m \in Nat
           /\ a <= b => a * m <= b * m
           /\ a * m < b * m => a < b
OBVIOUS

\* The quotient is the only one.
LEMMA Quotient ==
    ASSUME NEW a \in Nat, NEW m \in Nat \ {0}, NEW n \in Nat
    PROVE  n <= a \div m <=> n * m <= a
<1> DEFINE q == a \div m
<1>1. q \in Nat /\ q * m <= a /\ a < (q + 1) * m
  BY Division
<1> HIDE DEF q
<1>2. n * m \in Nat /\ q * m \in Nat /\ (q + 1) * m \in Nat
  BY <1>1, Times
<1>3. n <= q => n * m <= q * m
  BY <1>1, Times
<1>4. n * m < (q + 1) * m => n < q + 1
  BY <1>1, Times
<1> QED BY <1>1, <1>2, <1>3, <1>4 DEF q

\* The days of a month, and of a year, are consecutive.
LEMMA MonthDays ==
    ASSUME NEW d \in Nat \ {0}, NEW n \in Nat
    PROVE  /\ Month(d) \in Nat /\ MonthStart(n) \in Nat \ {0}
           /\ n <= Month(d) <=> MonthStart(n) <= d
<1>1. d - 1 \in Nat /\ MonthLength \in Nat \ {0}
  BY StatsAssumption
<1>2. Month(d) \in Nat
  BY <1>1, Division DEF Month
<1>3. n <= Month(d) <=> n * MonthLength <= d - 1
  BY <1>1, Quotient DEF Month
<1>4. n * MonthLength \in Nat
  BY <1>1, Times
<1> QED BY <1>1, <1>2, <1>3, <1>4 DEF MonthStart

LEMMA YearDays ==
    ASSUME NEW d \in Nat \ {0}, NEW n \in Nat
    PROVE  /\ Year(d) \in Nat /\ YearStart(n) \in Nat \ {0}
           /\ n <= Year(d) <=> YearStart(n) <= d
<1>1. Month(d) \in Nat /\ YearLength \in Nat \ {0}
  BY MonthDays, StatsAssumption
<1>2. Year(d) \in Nat
  BY <1>1, Division DEF Year
<1>3. n <= Year(d) <=> n * YearLength <= Month(d)
  BY <1>1, Quotient DEF Year
<1>4. n * YearLength \in Nat
  BY <1>1, Times
<1>5. /\ MonthStart(n * YearLength) \in Nat \ {0}
      /\ n * YearLength <= Month(d) <=> MonthStart(n * YearLength) <= d
  BY <1>4, MonthDays
<1> QED BY <1>2, <1>3, <1>5 DEF YearStart

LEMMA MonthOfStart ==
    ASSUME NEW n \in Nat
    PROVE  Month(MonthStart(n)) = n
<1> DEFINE d == MonthStart(n)
<1>1. d \in Nat \ {0}
  BY MonthDays
<1>2. Month(d) \in Nat
  BY <1>1, MonthDays
<1> HIDE DEF d
<1>3. n <= Month(d)
  BY <1>1, MonthDays DEF d
<1>4. ~(n + 1 <= Month(d))
  <2>1. n + 1 <= Month(d) => MonthStart(n + 1) <= MonthStart(n)
    BY <1>1, MonthDays DEF d
  <2>2. MonthLength \in Nat \ {0} /\ n * MonthLength \in Nat
    BY StatsAssumption, Times
  <2>3. (n + 1) * MonthLength = n * MonthLength + MonthLength
    BY <2>2
  <2> QED BY <2>1, <2>2, <2>3 DEF MonthStart
<1> QED BY <1>2, <1>3, <1>4 DEF d

-----------------------------------------------------------------------------
(* The numbers of a report.                                                *)

\* What is counted: the downloads of a file, or of a mirror, or its bytes.
Counted(kind, o) == (kind = "f" /\ o \in File) \/ (kind \in {"m", "s"} /\ o \in Mirror)

\* The counter of each day; the days to come have none.
Daily(kind, o) == [d \in Nat |-> IF d \in Day THEN saved[<<kind, d, o>>] ELSE 0]

\* The periods of a coverage.
Part == Period \cup ({"day"} \X Nat)

Numbers(kind, o, c) == [i \in DOMAIN c |-> Hash(kind, c[i], o)]
Reported(kind, o, c) == Count(Numbers(kind, o, c), DOMAIN c)

Agreement == CountersOK /\ HashesAgree

LEMMA CountedKeys ==
    ASSUME NEW kind, NEW o, Counted(kind, o)
    PROVE  /\ \A d \in Day : <<kind, d, o>> \in Key
           /\ \A p \in Period : <<kind, p, o>> \in PeriodKey
<1>1. \A d \in Day : <<kind, d, o>> \in Key
  BY DEF Counted, Key, FileKeys, FileKey, MirrorKeys, MirrorKey, BytesKeys, BytesKey
<1>2. \A p \in Period : <<kind, p, o>> \in PeriodKey
  BY DEF Counted, PeriodKey
<1> QED BY <1>1, <1>2

LEMMA DailyType ==
    ASSUME Agreement, NEW kind, NEW o, Counted(kind, o)
    PROVE  /\ \A d \in Nat : Daily(kind, o)[d] \in Nat
           /\ \A d \in Day : Daily(kind, o)[d] = saved[<<kind, d, o>>]
<1>1. \A d \in Day : saved[<<kind, d, o>>] \in Nat
  BY CountedKeys DEF Agreement, CountersOK
<1>2. Day \subseteq Nat
  BY StatsAssumption DEF Day
<1> QED BY <1>1, <1>2 DEF Daily

LEMMA DailyCount ==
    ASSUME Agreement, NEW kind, NEW o, Counted(kind, o), NEW X \in SUBSET Day
    PROVE  /\ IsFiniteSet({<<kind, d, o>> : d \in X})
           /\ {<<kind, d, o>> : d \in X} \subseteq Key
           /\ Count(saved, {<<kind, d, o>> : d \in X}) = Count(Daily(kind, o), X)
<1> DEFINE K == {<<kind, d, o>> : d \in X}
           f == [d \in X |-> <<kind, d, o>>]
<1>1. IsFiniteSet(X)
  <2>1. IsFiniteSet(Day)
    BY StatsAssumption, FS_Interval DEF Day
  <2> QED BY <2>1, FS_Subset
<1>2. K \subseteq Key
  BY CountedKeys
<1>3. IsFiniteSet(K)
  BY <1>2, KeysOK, FS_Subset
<1>4. f \in Bijection(X, K)
  <2>1. f \in [X -> K] /\ \A k \in K : \E d \in X : f[d] = k
    OBVIOUS
  <2>2. \A d, e \in X : f[d] = f[e] => d = e
    OBVIOUS
  <2> HIDE DEF f, K
  <2>3. DOMAIN f = X
    BY <2>1
  <2> QED BY <2>1, <2>2, <2>3 DEF Bijection, Injection, Surjection, IsInjective
<1>5. \A d \in X : /\ Daily(kind, o)[d] \in Nat
                   /\ saved[f[d]] = Daily(kind, o)[d]
  <2>1. \A d \in X : d \in Day /\ d \in Nat
    BY StatsAssumption DEF Day
  <2> QED BY <2>1, DailyType
<1>6. Count(Daily(kind, o), X) = Count(saved, K)
  <2> HIDE DEF f, K
  <2> QED BY <1>1, <1>4, <1>5, CountReindex
<1> QED BY <1>2, <1>3, <1>6

\* Consecutive days.
LEMMA DaysJoin ==
    ASSUME Agreement, NEW kind, NEW o, Counted(kind, o),
           NEW a \in Nat, NEW b \in Nat, NEW c \in Nat, a <= b, b <= c
    PROVE  Count(Daily(kind, o), a..c - 1)
             = Count(Daily(kind, o), a..b - 1) + Count(Daily(kind, o), b..c - 1)
<1>1. IsFiniteSet(a..b - 1) /\ IsFiniteSet(b..c - 1)
  BY FS_Interval
<1>2. /\ a..c - 1 = (a..b - 1) \cup (b..c - 1)
      /\ (a..b - 1) \cap (b..c - 1) = {}
  OBVIOUS
<1>3. \A d \in (a..b - 1) \cup (b..c - 1) : Daily(kind, o)[d] \in Nat
  BY DailyType
<1> QED BY <1>1, <1>2, <1>3, CountUnion

\* The hash of a period has the sum of its days.
LEMMA HashPeriod ==
    ASSUME Agreement, NEW kind, NEW o, Counted(kind, o), NEW p \in Period
    PROVE  Hash(kind, p, o) = Count(Daily(kind, o), Within(p))
<1>1. <<kind, p, o>> \in PeriodKey
  BY CountedKeys
<1>2. savedPeriod[<<kind, p, o>>] = Count(saved, KeysOf(<<kind, p, o>>))
  BY <1>1 DEF Agreement, HashesAgree
<1>3. KeysOf(<<kind, p, o>>) = {<<kind, d, o>> : d \in Within(p)}
  BY DEF KeysOf
<1>4. Within(p) \in SUBSET Day
  BY PeriodDays
<1>5. p[1] # "day"
  BY DEF Period
<1> QED BY <1>2, <1>3, <1>4, <1>5, DailyCount DEF Hash

LEMMA HashDay ==
    ASSUME Agreement, NEW kind, NEW o, Counted(kind, o), NEW d \in Nat
    PROVE  Hash(kind, <<"day", d>>, o) = Daily(kind, o)[d]
BY DEF Hash, Daily

LEMMA HashType ==
    ASSUME Agreement, NEW kind, NEW o, Counted(kind, o), NEW p \in Part
    PROVE  Hash(kind, p, o) \in Nat
<1>1. CASE p \in Period
  <2>1. <<kind, p, o>> \in PeriodKey /\ p[1] # "day"
    BY <1>1, CountedKeys DEF Period
  <2> QED BY <2>1 DEF Agreement, HashesAgree, Hash
<1>2. CASE p \in {"day"} \X Nat
  <2>1. PICK d \in Nat : p = <<"day", d>>
    BY <1>2
  <2> QED BY <2>1, HashDay, DailyType
<1> QED BY <1>1, <1>2 DEF Part

\* The report on a coverage in two parts.
LEMMA ReportedConcat ==
    ASSUME Agreement, NEW kind, NEW o, Counted(kind, o),
           NEW a \in Seq(Part), NEW b \in Seq(Part)
    PROVE  Reported(kind, o, a \o b) = Reported(kind, o, a) + Reported(kind, o, b)
<1> DEFINE c == a \o b
           m == Len(a)
           n == Len(b)
           N(s) == Numbers(kind, o, s)
<1>1. /\ c \in Seq(Part) /\ m \in Nat /\ n \in Nat /\ Len(c) = m + n
      /\ \A i \in 1..m : c[i] = a[i]
      /\ \A i \in 1..n : c[m + i] = b[i]
  OBVIOUS
<1>2. DOMAIN a = 1..m /\ DOMAIN b = 1..n /\ DOMAIN c = 1..m + n
  BY <1>1
<1> HIDE DEF c, m, n
<1>3. /\ \A i \in 1..m : N(a)[i] = Hash(kind, a[i], o)
      /\ \A i \in 1..n : N(b)[i] = Hash(kind, b[i], o)
      /\ \A i \in 1..m + n : N(c)[i] = Hash(kind, c[i], o)
  BY <1>2 DEF Numbers
<1>4. /\ \A i \in 1..n : b[i] \in Part
      /\ \A i \in 1..m + n : c[i] \in Part
  BY <1>1, <1>2 DEF n
<1>5. /\ \A i \in 1..n : N(b)[i] \in Nat
      /\ \A i \in 1..m + n : N(c)[i] \in Nat
  BY <1>3, <1>4, HashType
<1>6. Count(N(c), 1..m) = Count(N(a), 1..m)
  <2>1. \A i \in 1..m : N(c)[i] = N(a)[i]
    BY <1>1, <1>3
  <2> HIDE DEF N
  <2> QED BY <2>1, CountSame
<1>7. Count(N(b), 1..n) = Count(N(c), m + 1..m + n)
  <2> DEFINE f == [i \in 1..n |-> m + i]
  <2>1. f \in [1..n -> m + 1..m + n]
    BY <1>1
  <2>2. \A i, j \in 1..n : f[i] = f[j] => i = j
    BY <1>1
  <2>3. ASSUME NEW k \in m + 1..m + n PROVE \E i \in 1..n : f[i] = k
    <3>1. k - m \in 1..n /\ f[k - m] = k
      BY <1>1
    <3> QED BY <3>1
  <2>4. \A i \in 1..n : f[i] = m + i /\ m + i \in 1..m + n
    BY <1>1
  <2>5. \A i \in 1..n : N(b)[i] \in Nat /\ N(c)[f[i]] = N(b)[i]
    BY <1>1, <1>3, <1>5, <2>4
  <2> HIDE DEF f, N
  <2>6. DOMAIN f = 1..n
    BY <2>1
  <2>7. f \in Bijection(1..n, m + 1..m + n)
    BY <2>1, <2>2, <2>3, <2>6 DEF Bijection, Injection, Surjection, IsInjective
  <2>8. IsFiniteSet(1..n)
    BY <1>1, FS_Interval
  <2> DEFINE D == 1..n
             E == m + 1..m + n
             g == N(b)
             h == N(c)
  <2>9. /\ IsFiniteSet(D) /\ f \in Bijection(D, E)
        /\ \A i \in D : g[i] \in Nat /\ h[f[i]] = g[i]
    BY <2>5, <2>7, <2>8
  <2> HIDE DEF D, E, g, h
  <2>10. Count(g, D) = Count(h, E)
    BY <2>9, CountReindex
  <2> QED BY <2>10 DEF D, E, g, h
<1>8. Count(N(c), 1..m + n) = Count(N(c), 1..m) + Count(N(c), m + 1..m + n)
  <2>1. IsFiniteSet(1..m) /\ IsFiniteSet(m + 1..m + n)
    BY <1>1, FS_Interval
  <2>2. 1..m + n = (1..m) \cup (m + 1..m + n) /\ (1..m) \cap (m + 1..m + n) = {}
    BY <1>1
  <2>3. \A i \in (1..m) \cup (m + 1..m + n) : N(c)[i] \in Nat
    BY <1>5, <2>2
  <2> DEFINE D == 1..m
             E == m + 1..m + n
             g == N(c)
  <2>4. /\ IsFiniteSet(D) /\ IsFiniteSet(E) /\ D \cap E = {}
        /\ \A i \in D \cup E : g[i] \in Nat
    BY <2>1, <2>2, <2>3
  <2> HIDE DEF D, E, g
  <2>5. Count(g, D \cup E) = Count(g, D) + Count(g, E)
    BY <2>4, CountUnion
  <2> HIDE DEF N
  <2> QED BY <2>2, <2>5 DEF D, E, g
<1> QED BY <1>2, <1>6, <1>7, <1>8 DEF Reported, c

LEMMA ReportedOne ==
    ASSUME Agreement, NEW kind, NEW o, Counted(kind, o), NEW p \in Part
    PROVE  <<p>> \in Seq(Part) /\ Reported(kind, o, <<p>>) = Hash(kind, p, o)
<1>1. DOMAIN <<p>> = {1} /\ Numbers(kind, o, <<p>>)[1] = Hash(kind, p, o)
  BY DEF Numbers
<1>2. Numbers(kind, o, <<p>>)[1] \in Nat
  BY <1>1, HashType
<1>3. Count(Numbers(kind, o, <<p>>), {1}) = Hash(kind, p, o)
  BY <1>1, <1>2, CountSingle
<1> QED BY <1>1, <1>3 DEF Reported

\* The days of a coverage, one by one.
EachDay(d, n) == [i \in 1..n |-> <<"day", d + i - 1>>]

LEMMA ReportedDays ==
    ASSUME Agreement, NEW kind, NEW o, Counted(kind, o), NEW d \in Nat, NEW n \in Nat,
           NEW x \in Nat, x = d + n
    PROVE  /\ EachDay(d, n) \in Seq(Part)
           /\ Reported(kind, o, EachDay(d, n)) = Count(Daily(kind, o), d..x - 1)
<1> DEFINE c == EachDay(d, n)
           f == [i \in 1..n |-> d + i - 1]
<1>1. /\ DOMAIN c = 1..n
      /\ \A i \in 1..n : c[i] = <<"day", d + i - 1>> /\ d + i - 1 \in Nat
  BY DEF EachDay
<1>2. c \in Seq(Part)
  <2>1. \A i \in 1..n : <<"day", d + i - 1>> \in Part
    BY <1>1 DEF Part
  <2> QED BY <2>1 DEF EachDay
<1> HIDE DEF c
<1>3. \A i \in 1..n : Numbers(kind, o, c)[i] = Daily(kind, o)[d + i - 1]
  <2>1. \A i \in 1..n : Numbers(kind, o, c)[i] = Hash(kind, <<"day", d + i - 1>>, o)
    BY <1>1 DEF Numbers
  <2> QED BY <1>1, <2>1, HashDay
<1>4. f \in [1..n -> d..d + n - 1]
  OBVIOUS
<1>5. \A i, j \in 1..n : f[i] = f[j] => i = j
  OBVIOUS
<1>6. ASSUME NEW k \in d..d + n - 1 PROVE \E i \in 1..n : f[i] = k
  <2>1. k - d + 1 \in 1..n /\ f[k - d + 1] = k
    OBVIOUS
  <2> QED BY <2>1
<1>7. \A i \in 1..n : /\ Numbers(kind, o, c)[i] \in Nat
                      /\ Daily(kind, o)[f[i]] = Numbers(kind, o, c)[i]
  BY <1>1, <1>3, DailyType
<1> HIDE DEF f
<1>8. DOMAIN f = 1..n
  BY <1>4
<1>9. f \in Bijection(1..n, d..d + n - 1)
  BY <1>4, <1>5, <1>6, <1>8 DEF Bijection, Injection, Surjection, IsInjective
<1>10. IsFiniteSet(1..n)
  BY FS_Interval
<1>11. Count(Numbers(kind, o, c), 1..n) = Count(Daily(kind, o), d..d + n - 1)
  <2> DEFINE D == 1..n
             E == d..d + n - 1
             g == Numbers(kind, o, c)
             h == Daily(kind, o)
  <2>1. /\ IsFiniteSet(D) /\ f \in Bijection(D, E)
        /\ \A i \in D : g[i] \in Nat /\ h[f[i]] = g[i]
    BY <1>7, <1>9, <1>10
  <2> HIDE DEF D, E, g, h
  <2>2. Count(g, D) = Count(h, E)
    BY <2>1, CountReindex
  <2> QED BY <2>2 DEF D, E, g, h
<1>12. d + n - 1 = x - 1
  OBVIOUS
<1> QED BY <1>1, <1>2, <1>11, <1>12 DEF Reported, c

-----------------------------------------------------------------------------
(* The recursion of TimeKeyCoverage.                                       *)

NextYear(d) == YearStart(Year(d) + 1)
NextMonth(d) == MonthStart(Month(d) + 1)

\* The coverage from d on, when what follows is R.
From(R, d, end) ==
    IF d = YearStart(Year(d)) /\ At(NextYear(d)) <= end
    THEN <<<<"year", Year(d)>>>> \o R[NextYear(d)]
    ELSE IF At(NextMonth(d)) <= end
    THEN <<<<"month", Month(d)>>>> \o R[NextMonth(d)]
    ELSE EachDay(d, Cardinality({e \in d..end : At(e + 1) <= end}))

IsRest(R, end) == R = [d \in Nat |-> From(R, d, end)]
RestOf(end) == CHOOSE R : IsRest(R, end)

LEMMA CoverageParts ==
    ASSUME NEW start, NEW end
    PROVE  TimeKeyCoverage(start, end) =
              IF start = end \div 2 THEN <<<<"day", start>>>>
              ELSE EachDay(start, FirstDays(start, end))
                      \o RestOf(end)[start + FirstDays(start, end)]
BY DEF TimeKeyCoverage, RestOf, IsRest, From, EachDay, NextYear, NextMonth

\* The coverage moves forward.
LEMMA Forward ==
    ASSUME NEW d \in Nat
    PROVE  /\ NextYear(d) \in Nat /\ NextYear(d) > d
           /\ NextMonth(d) \in Nat /\ NextMonth(d) > d
<1>1. CASE d # 0
  <2>1. d \in Nat \ {0}
    BY <1>1
  <2>2. Month(d) \in Nat /\ Year(d) \in Nat
    BY <2>1, MonthDays, YearDays
  <2>3. /\ NextMonth(d) \in Nat \ {0}
        /\ Month(d) + 1 <= Month(d) <=> NextMonth(d) <= d
    BY <2>1, <2>2, MonthDays DEF NextMonth
  <2>4. /\ NextYear(d) \in Nat \ {0}
        /\ Year(d) + 1 <= Year(d) <=> NextYear(d) <= d
    BY <2>1, <2>2, YearDays DEF NextYear
  <2> QED BY <2>2, <2>3, <2>4
<1>2. CASE d = 0
  <2>1. MonthLength \in Nat \ {0} /\ YearLength \in Nat \ {0}
    BY StatsAssumption
  <2>2. (0 - 1) \div MonthLength = -1 /\ (-1) \div YearLength = -1
    BY <2>1
  <2>3. Month(d) = -1 /\ Year(d) = -1
    BY <1>2, <2>2 DEF Month, Year
  <2>4. 0 * MonthLength = 0 /\ 0 * YearLength = 0
    BY <2>1
  <2>5. NextMonth(d) = 1 /\ NextYear(d) = 1
    BY <2>3, <2>4 DEF NextMonth, NextYear, MonthStart, YearStart
  <2> QED BY <1>2, <2>5
<1> QED BY <1>1, <1>2

\* A solution of the recursion on the last n days up to end, and after them.
Solves(R, n, end) == R = [d \in Nat |-> IF d + n > end THEN From(R, d, end) ELSE <<>>]

LEMMA FromDepends ==
    ASSUME NEW end \in Nat, NEW d \in Nat, NEW Q, NEW R,
           \A e \in Nat : e > d => Q[e] = R[e]
    PROVE  From(Q, d, end) = From(R, d, end)
<1>1. Q[NextYear(d)] = R[NextYear(d)] /\ Q[NextMonth(d)] = R[NextMonth(d)]
  BY Forward
<1> QED BY <1>1 DEF From

LEMMA RestExists ==
    ASSUME NEW end \in Nat
    PROVE  IsRest(RestOf(end), end)
<1> DEFINE T == {n \in Nat : ~\E R : Solves(R, n, end)}
<1>1. T = {}
  <2>1. SUFFICES ASSUME T # {} PROVE FALSE
    OBVIOUS
  <2>2. PICK n \in T : \A m \in T : n <= m
    <3>1. T \subseteq Nat
      OBVIOUS
    <3> HIDE DEF T
    <3> QED BY <2>1, <3>1, LeastNat
  <2>3. n # 0
    <3> DEFINE R == [d \in Nat |-> IF d > end
                                   THEN EachDay(d, Cardinality({e \in d..end : At(e + 1) <= end}))
                                   ELSE <<>>]
    <3>1. ASSUME NEW d \in Nat, d > end
          PROVE  From(R, d, end) = EachDay(d, Cardinality({e \in d..end : At(e + 1) <= end}))
      <4>1. ~(At(NextYear(d)) <= end) /\ ~(At(NextMonth(d)) <= end)
        BY <3>1, Forward DEF At
      <4> QED BY <4>1 DEF From
    <3>2. \A d \in Nat : R[d] = IF d + 0 > end THEN From(R, d, end) ELSE <<>>
      BY <3>1
    <3>3. Solves(R, 0, end)
      BY <3>2 DEF Solves
    <3> QED BY <3>3
  <2>4. n - 1 \in Nat /\ n - 1 \notin T
    BY <2>2, <2>3
  <2>5. PICK Q : Solves(Q, n - 1, end)
    BY <2>4
  <2> DEFINE R == [d \in Nat |-> IF d + n > end THEN From(Q, d, end) ELSE <<>>]
  <2>6. ASSUME NEW d \in Nat, d + n > end
        PROVE  From(Q, d, end) = From(R, d, end)
    <3>1. ASSUME NEW e \in Nat, e > d PROVE Q[e] = R[e]
      <4>1. e + (n - 1) > end /\ e + n > end
        BY <2>4, <2>6, <3>1
      <4>2. Q[e] = From(Q, e, end)
        BY <2>5, <4>1 DEF Solves
      <4> QED BY <4>1, <4>2
    <3> HIDE DEF R
    <3> QED BY <3>1, FromDepends
  <2>7. \A d \in Nat : R[d] = IF d + n > end THEN From(R, d, end) ELSE <<>>
    BY <2>6
  <2>8. Solves(R, n, end)
    BY <2>7 DEF Solves
  <2> QED BY <2>2, <2>8
<1>2. PICK R : Solves(R, end + 1, end)
  BY <1>1
<1>3. IsRest(R, end)
  <2>1. \A d \in Nat : d + (end + 1) > end
    OBVIOUS
  <2> QED BY <1>2, <2>1 DEF Solves, IsRest
<1> QED BY <1>3 DEF RestOf

-----------------------------------------------------------------------------
(* What the coverage covers.                                               *)

LEMMA YearWithin ==
    ASSUME NEW d \in Day, d = YearStart(Year(d)), NextYear(d) <= MaxDay + 1
    PROVE  /\ <<"year", Year(d)>> \in Period
           /\ Within(<<"year", Year(d)>>) = d..NextYear(d) - 1
<1> DEFINE y == Year(d)
<1>1. MaxDay \in Nat \ {0} /\ Day = 1..MaxDay /\ d \in Nat \ {0}
  BY StatsAssumption DEF Day
<1>2. y \in Nat
  BY <1>1, YearDays
<1>3. Within(<<"year", y>>) = {e \in Day : Year(e) = y}
  BY DEF Within
<1>4. ASSUME NEW e \in Day PROVE Year(e) = y <=> e \in d..NextYear(d) - 1
  <2>1. e \in Nat \ {0}
    BY <1>1
  <2>2. Year(e) \in Nat /\ (y <= Year(e) <=> YearStart(y) <= e)
    BY <1>2, <2>1, YearDays
  <2>3. /\ NextYear(d) \in Nat
        /\ y + 1 <= Year(e) <=> NextYear(d) <= e
    BY <1>2, <2>1, YearDays DEF NextYear
  <2> QED BY <1>1, <1>2, <2>1, <2>2, <2>3
<1>5. d..NextYear(d) - 1 \subseteq Day
  <2>1. NextYear(d) \in Nat
    BY <1>1, Forward
  <2>2. ASSUME NEW e \in d..NextYear(d) - 1 PROVE e \in Day
    BY <1>1, <2>1
  <2> QED BY <2>2
<1>6. <<"year", y>> \in Period
  BY DEF Period
<1> QED BY <1>3, <1>4, <1>5, <1>6

LEMMA MonthWithin ==
    ASSUME NEW d \in Day, d = MonthStart(Month(d)), NextMonth(d) <= MaxDay + 1
    PROVE  /\ <<"month", Month(d)>> \in Period
           /\ Within(<<"month", Month(d)>>) = d..NextMonth(d) - 1
<1> DEFINE m == Month(d)
<1>1. MaxDay \in Nat \ {0} /\ Day = 1..MaxDay /\ d \in Nat \ {0}
  BY StatsAssumption DEF Day
<1>2. m \in Nat
  BY <1>1, MonthDays
<1>3. Within(<<"month", m>>) = {e \in Day : Month(e) = m}
  BY DEF Within
<1>4. ASSUME NEW e \in Day PROVE Month(e) = m <=> e \in d..NextMonth(d) - 1
  <2>1. e \in Nat \ {0}
    BY <1>1
  <2>2. Month(e) \in Nat /\ (m <= Month(e) <=> MonthStart(m) <= e)
    BY <1>2, <2>1, MonthDays
  <2>3. /\ NextMonth(d) \in Nat
        /\ m + 1 <= Month(e) <=> NextMonth(d) <= e
    BY <1>2, <2>1, MonthDays DEF NextMonth
  <2> QED BY <1>1, <1>2, <2>1, <2>2, <2>3
<1>5. d..NextMonth(d) - 1 \subseteq Day
  <2>1. NextMonth(d) \in Nat
    BY <1>1, Forward
  <2>2. ASSUME NEW e \in d..NextMonth(d) - 1 PROVE e \in Day
    BY <1>1, <2>1
  <2> QED BY <2>2
<1>6. <<"month", m>> \in Period
  BY DEF Period
<1> QED BY <1>3, <1>4, <1>5, <1>6

LEMMA NextStarts ==
    ASSUME NEW d \in Nat \ {0}
    PROVE  /\ NextYear(d) = MonthStart(Month(NextYear(d)))
           /\ NextMonth(d) = MonthStart(Month(NextMonth(d)))
<1>1. Month(d) + 1 \in Nat /\ Year(d) + 1 \in Nat
  BY MonthDays, YearDays
<1>2. (Year(d) + 1) * YearLength \in Nat
  BY <1>1, StatsAssumption, Times
<1>3. Month(MonthStart((Year(d) + 1) * YearLength)) = (Year(d) + 1) * YearLength
  BY <1>2, MonthOfStart
<1>4. Month(MonthStart(Month(d) + 1)) = Month(d) + 1
  BY <1>1, MonthOfStart
<1> QED BY <1>3, <1>4 DEF NextYear, NextMonth, YearStart

\* The last step of a coverage: the days before the end, one by one.
LEMMA LastDays ==
    ASSUME NEW E \in Nat, NEW end \in {2 * E, 2 * E + 1}, NEW d \in Nat, d <= E
    PROVE  Cardinality({e \in d..end : At(e + 1) <= end}) = E - d
<1>1. {e \in d..end : At(e + 1) <= end} = d..E - 1
  <2>1. ASSUME NEW e \in d..end PROVE At(e + 1) <= end <=> e \in d..E - 1
    BY DEF At
  <2>2. ASSUME NEW e \in d..E - 1 PROVE e \in d..end
    OBVIOUS
  <2> QED BY <2>1, <2>2
<1>2. Cardinality(d..E - 1) = E - d
  <2>1. CASE d = E
    <3>1. d..E - 1 = {}
      BY <2>1
    <3> QED BY <2>1, <3>1, FS_EmptySet
  <2>2. CASE d < E
    <3>1. d \in Int /\ E - 1 \in Int /\ ~(d > E - 1)
      BY <2>2
    <3>2. Cardinality(d..E - 1) = (E - 1) - d + 1
      BY <3>1, FS_Interval
    <3> QED BY <3>2
  <2> QED BY <2>1, <2>2
<1> QED BY <1>1, <1>2

\* The coverage from d on, if the coverages of the later days are right.
Covers(kind, o, R, d, E) ==
    R[d] \in Seq(Part) /\ Reported(kind, o, R[d]) = Count(Daily(kind, o), d..E - 1)

LEMMA CoversFrom ==
    ASSUME Agreement, NEW kind, NEW o, Counted(kind, o),
           NEW E \in 1..MaxDay + 1, NEW end \in {2 * E, 2 * E + 1}, NEW R, IsRest(R, end),
           NEW d \in Nat \ {0}, d <= E, d = MonthStart(Month(d)) \/ d = E,
           \A n \in Nat \ {0} : n > d /\ n <= E /\ n = MonthStart(Month(n))
                                    => Covers(kind, o, R, n, E)
    PROVE  Covers(kind, o, R, d, E)
<1>1. R[d] = From(R, d, end)
  BY DEF IsRest
<1>2. /\ MaxDay \in Nat /\ E \in Nat /\ E <= MaxDay + 1 /\ end \in Nat /\ d \in Nat
      /\ \A n \in Nat : At(n) <= end <=> n <= E
  BY StatsAssumption DEF At
<1>3. /\ NextYear(d) \in Nat \ {0} /\ NextYear(d) > d
      /\ NextMonth(d) \in Nat \ {0} /\ NextMonth(d) > d
  BY Forward
<1>4. ASSUME NEW n \in Nat \ {0}, n > d, n <= E, n = MonthStart(Month(n)),
             NEW p \in Period, Within(p) = d..n - 1, R[d] = <<p>> \o R[n]
      PROVE  Covers(kind, o, R, d, E)
  <2>1. R[n] \in Seq(Part) /\ Reported(kind, o, R[n]) = Count(Daily(kind, o), n..E - 1)
    BY <1>4 DEF Covers
  <2>2. p \in Part
    BY DEF Part
  <2>3. <<p>> \in Seq(Part) /\ Reported(kind, o, <<p>>) = Hash(kind, p, o)
    BY <2>2, ReportedOne
  <2>4. Hash(kind, p, o) = Count(Daily(kind, o), d..n - 1)
    BY <1>4, HashPeriod
  <2>5. Count(Daily(kind, o), d..E - 1)
           = Count(Daily(kind, o), d..n - 1) + Count(Daily(kind, o), n..E - 1)
    <3>1. d <= n /\ n \in Nat
      BY <1>2, <1>4
    <3> QED BY <1>2, <1>4, <3>1, DaysJoin
  <2>6. Reported(kind, o, R[d]) = Reported(kind, o, <<p>>) + Reported(kind, o, R[n])
    BY <1>4, <2>1, <2>3, ReportedConcat
  <2>7. R[d] \in Seq(Part)
    BY <1>4, <2>1, <2>3
  <2> QED BY <2>1, <2>3, <2>4, <2>5, <2>6, <2>7 DEF Covers
<1>5. d < E => d \in Day
  BY <1>2 DEF Day
<1>6. CASE d = YearStart(Year(d)) /\ At(NextYear(d)) <= end
  <2>1. NextYear(d) <= E /\ d < E /\ NextYear(d) <= MaxDay + 1
    BY <1>2, <1>3, <1>6
  <2>2. /\ <<"year", Year(d)>> \in Period
        /\ Within(<<"year", Year(d)>>) = d..NextYear(d) - 1
    BY <1>5, <1>6, <2>1, YearWithin
  <2>3. R[d] = <<<<"year", Year(d)>>>> \o R[NextYear(d)]
    BY <1>1, <1>6 DEF From
  <2> QED BY <1>3, <1>4, <2>1, <2>2, <2>3, NextStarts
<1>7. CASE ~(d = YearStart(Year(d)) /\ At(NextYear(d)) <= end) /\ At(NextMonth(d)) <= end
  <2>1. NextMonth(d) <= E /\ d < E /\ NextMonth(d) <= MaxDay + 1
    BY <1>2, <1>3, <1>7
  <2>2. /\ <<"month", Month(d)>> \in Period
        /\ Within(<<"month", Month(d)>>) = d..NextMonth(d) - 1
    BY <1>5, <2>1, MonthWithin
  <2>3. R[d] = <<<<"month", Month(d)>>>> \o R[NextMonth(d)]
    BY <1>1, <1>7 DEF From
  <2> QED BY <1>3, <1>4, <2>1, <2>2, <2>3, NextStarts
<1>8. CASE ~(d = YearStart(Year(d)) /\ At(NextYear(d)) <= end) /\ ~(At(NextMonth(d)) <= end)
  <2>1. R[d] = EachDay(d, Cardinality({e \in d..end : At(e + 1) <= end}))
    BY <1>1, <1>8 DEF From
  <2> DEFINE n == E - d
  <2>2. R[d] = EachDay(d, n)
    BY <1>2, <2>1, LastDays
  <2>3. n \in Nat /\ E = d + n
    BY <1>2
  <2> HIDE DEF n
  <2>4. EachDay(d, n) \in Seq(Part)
    BY <1>2, <2>3, ReportedDays
  <2>5. Reported(kind, o, EachDay(d, n)) = Count(Daily(kind, o), d..E - 1)
    BY <1>2, <2>3, ReportedDays
  <2> QED BY <2>2, <2>4, <2>5 DEF Covers
<1> QED BY <1>6, <1>7, <1>8

\* By the latest day that would be covered wrongly.
LEMMA RestCovers ==
    ASSUME Agreement, NEW kind, NEW o, Counted(kind, o),
           NEW E \in 1..MaxDay + 1, NEW end \in {2 * E, 2 * E + 1},
           NEW d \in Nat \ {0}, d <= E, d = MonthStart(Month(d)) \/ d = E
    PROVE  Covers(kind, o, RestOf(end), d, E)
<1> DEFINE R == RestOf(end)
           OK(n) == Covers(kind, o, R, n, E)
           T == {i \in Nat : \E n \in Nat \ {0} :
                    /\ i = E - n /\ n <= E /\ (n = MonthStart(Month(n)) \/ n = E)
                    /\ ~OK(n)}
<1>1. E \in Nat /\ end \in Nat
  BY StatsAssumption
<1>2. IsRest(R, end)
  BY <1>1, RestExists
<1> HIDE DEF R
<1>3. T = {}
  <2>1. SUFFICES ASSUME T # {} PROVE FALSE
    OBVIOUS
  <2>2. PICK i \in T : \A j \in T : i <= j
    <3>1. T \subseteq Nat
      OBVIOUS
    <3> HIDE DEF T
    <3> QED BY <2>1, <3>1, LeastNat
  <2>3. PICK n \in Nat \ {0} : /\ i = E - n /\ n <= E
                               /\ n = MonthStart(Month(n)) \/ n = E
                               /\ ~OK(n)
    OBVIOUS
  <2>4. ASSUME NEW m \in Nat \ {0}, m > n, m <= E, m = MonthStart(Month(m))
        PROVE  OK(m)
    <3>1. E - m \in Nat /\ E - m < E - n
      BY <1>1, <2>3, <2>4
    <3>2. E - m \notin T
      BY <2>2, <2>3, <3>1
    <3> QED BY <2>4, <3>1, <3>2
  <2>5. OK(n)
    BY <1>2, <2>3, <2>4, CoversFrom
  <2> QED BY <2>3, <2>5
<1>4. E - d \in Nat
  BY <1>1
<1>5. OK(d)
  <2>1. E - d \notin T
    BY <1>3
  <2> HIDE DEF OK
  <2> QED BY <1>4, <2>1
<1> QED BY <1>5 DEF R

\* The first loop stops at the end of the month, or at the midnight that is the end.
LEMMA FirstDaysToDate ==
    ASSUME NEW start \in Nat \ {0}, NEW E \in Nat, start < E
    PROVE  /\ FirstDays(start, At(E)) \in Nat
           /\ LET m == start + FirstDays(start, At(E))
              IN m <= E /\ (m = MonthStart(Month(m)) \/ m = E)
<1> DEFINE n == FirstDays(start, At(E))
           b == NextMonth(start)
           l == IF b <= E THEN b ELSE E
<1>1. b \in Nat /\ b > start /\ b = MonthStart(Month(b))
  BY Forward, NextStarts
<1>2. CASE start = MonthStart(Month(start))
  <2>1. n = 0
    BY <1>2 DEF FirstDays
  <2> QED BY <1>2, <2>1
<1>3. CASE start # MonthStart(Month(start))
  <2>1. n = Cardinality({d \in start..b - 1 : ~\E e \in start..d : At(e) = At(E)})
    BY <1>3 DEF FirstDays, NextMonth
  <2> HIDE DEF n, b
  <2>2. {d \in start..b - 1 : ~\E e \in start..d : At(e) = At(E)} = start..l - 1
    <3>1. ASSUME NEW d \in start..b - 1
          PROVE  (\E e \in start..d : At(e) = At(E)) <=> E <= d
      BY <1>1 DEF At
    <3>2. ASSUME NEW d \in start..b - 1 PROVE ~(E <= d) <=> d \in start..l - 1
      BY <1>1
    <3>3. start..l - 1 \subseteq start..b - 1
      BY <1>1
    <3> HIDE DEF l
    <3> QED BY <3>1, <3>2, <3>3
  <2>3. l \in Nat /\ l > start /\ l <= E /\ (l = b \/ l = E)
    BY <1>1
  <2> HIDE DEF l
  <2>4. Cardinality(start..l - 1) = l - start
    <3>1. start \in Int /\ l - 1 \in Int /\ ~(start > l - 1)
      BY <2>3
    <3>2. Cardinality(start..l - 1) = (l - 1) - start + 1
      BY <3>1, FS_Interval
    <3> QED BY <2>3, <3>2
  <2>5. n = l - start
    BY <2>1, <2>2, <2>4
  <2>6. n \in Nat /\ start + n = l
    BY <2>3, <2>5
  <2>7. l = MonthStart(Month(l)) \/ l = E
    BY <1>1, <2>3
  <2> QED BY <2>3, <2>6, <2>7 DEF n
<1> QED BY <1>2, <1>3

\* It does not find an end that is not a midnight.
LEMMA FirstDaysToNow ==
    ASSUME NEW start \in Nat \ {0}, NEW E \in Nat
    PROVE  FirstDays(start, At(E) + 1) = IF start = MonthStart(Month(start)) THEN 0
                                         ELSE NextMonth(start) - start
<1> DEFINE b == NextMonth(start)
<1>1. b \in Nat /\ b > start
  BY Forward
<1>2. CASE start # MonthStart(Month(start))
  <2>1. FirstDays(start, At(E) + 1)
           = Cardinality({d \in start..b - 1 : ~\E e \in start..d : At(e) = At(E) + 1})
    BY <1>2 DEF FirstDays, NextMonth
  <2> HIDE DEF b
  <2>2. {d \in start..b - 1 : ~\E e \in start..d : At(e) = At(E) + 1} = start..b - 1
    <3>1. ASSUME NEW d \in start..b - 1, NEW e \in start..d PROVE At(e) # At(E) + 1
      BY DEF At
    <3> QED BY <3>1
  <2>3. Cardinality(start..b - 1) = b - start
    <3>1. start \in Int /\ b - 1 \in Int /\ ~(start > b - 1)
      BY <1>1
    <3>2. Cardinality(start..b - 1) = (b - 1) - start + 1
      BY <3>1, FS_Interval
    <3> QED BY <1>1, <3>2
  <2> QED BY <1>2, <2>1, <2>2, <2>3 DEF b
<1>3. CASE start = MonthStart(Month(start))
  BY <1>3 DEF FirstDays
<1> QED BY <1>2, <1>3

\* The first days and the rest.
LEMMA CoverageSum ==
    ASSUME Agreement, NEW kind, NEW o, Counted(kind, o),
           NEW start \in Nat, NEW n \in Nat, NEW R \in Seq(Part), NEW x \in Nat,
           start + n <= x, Reported(kind, o, R) = Count(Daily(kind, o), start + n..x - 1)
    PROVE  /\ EachDay(start, n) \o R \in Seq(Part)
           /\ Reported(kind, o, EachDay(start, n) \o R) = Count(Daily(kind, o), start..x - 1)
<1> DEFINE m == start + n
           c == EachDay(start, n)
<1>1. m \in Nat /\ m = start + n /\ start <= m /\ m <= x
  OBVIOUS
<1>2. c \in Seq(Part) /\ Reported(kind, o, c) = Count(Daily(kind, o), start..m - 1)
  <2> HIDE DEF m
  <2>1. EachDay(start, n) \in Seq(Part)
    BY <1>1, ReportedDays
  <2>2. Reported(kind, o, EachDay(start, n)) = Count(Daily(kind, o), start..m - 1)
    BY <1>1, ReportedDays
  <2> QED BY <2>1, <2>2
<1>3. Reported(kind, o, R) = Count(Daily(kind, o), m..x - 1)
  OBVIOUS
<1> HIDE DEF m, c
<1>4. Count(Daily(kind, o), start..x - 1)
         = Count(Daily(kind, o), start..m - 1) + Count(Daily(kind, o), m..x - 1)
  BY <1>1, DaysJoin
<1>5. Reported(kind, o, c \o R) = Reported(kind, o, c) + Reported(kind, o, R)
  BY <1>2, ReportedConcat
<1>6. c \o R \in Seq(Part)
  BY <1>2
<1> QED BY <1>2, <1>3, <1>4, <1>5, <1>6 DEF c

\* A coverage up to a date.
LEMMA CoverageToDate ==
    ASSUME Agreement, NEW kind, NEW o, Counted(kind, o),
           NEW start \in Day, NEW E \in start + 1..MaxDay + 1
    PROVE  /\ TimeKeyCoverage(start, At(E)) \in Seq(Part)
           /\ Reported(kind, o, TimeKeyCoverage(start, At(E)))
                 = Count(Daily(kind, o), start..E - 1)
<1> DEFINE end == At(E)
           n == FirstDays(start, end)
           m == start + n
           R == RestOf(end)[m]
<1>1. /\ start \in Nat \ {0} /\ E \in Nat /\ start < E /\ E \in 1..MaxDay + 1
      /\ end \in {2 * E, 2 * E + 1}
  BY StatsAssumption DEF Day, At
<1>2. n \in Nat /\ m <= E /\ (m = MonthStart(Month(m)) \/ m = E)
  BY <1>1, FirstDaysToDate
<1>3. start # end \div 2
  <2>1. (2 * E) \div 2 = E
    BY <1>1
  <2> QED BY <1>1, <2>1 DEF At
<1>4. TimeKeyCoverage(start, end) = EachDay(start, n) \o R
  BY <1>3, CoverageParts
<1> HIDE DEF end, n
<1>5. m \in Nat \ {0}
  BY <1>1, <1>2
<1>6. Covers(kind, o, RestOf(end), m, E)
  <2> HIDE DEF m
  <2> QED BY <1>1, <1>2, <1>5, RestCovers
<1>7. R \in Seq(Part) /\ Reported(kind, o, R) = Count(Daily(kind, o), start + n..E - 1)
  BY <1>6 DEF Covers
<1> HIDE DEF R
<1>8. /\ EachDay(start, n) \o R \in Seq(Part)
      /\ Reported(kind, o, EachDay(start, n) \o R) = Count(Daily(kind, o), start..E - 1)
  BY <1>1, <1>2, <1>7, CoverageSum
<1> QED BY <1>4, <1>8 DEF end

\* The days to come have no downloads, and none is counted for them.
Future ==
    /\ \A k \in Key : k[2] > today => saved[k] = 0 /\ mapStats[k] = 0
    /\ \A i \in DOMAIN countChan : countChan[i].day <= today

\* A coverage up to now.  When now is in the first month, the coverage takes the
\* whole month.
LEMMA CoverageToNow ==
    ASSUME Agreement, Future, NEW kind, NEW o, Counted(kind, o),
           today \in Day, NEW start \in 1..today
    PROVE  /\ TimeKeyCoverage(start, At(today) + 1) \in Seq(Part)
           /\ \E x \in {today, today + 1} :
                Reported(kind, o, TimeKeyCoverage(start, At(today) + 1))
                    = Count(Daily(kind, o), start..x - 1)
<1> DEFINE t == today
           end == At(t) + 1
           n == FirstDays(start, end)
           m == start + n
           S == TimeKeyCoverage(start, end)
<1>1. /\ t \in Nat \ {0} /\ t \in 1..MaxDay + 1 /\ start \in Nat \ {0} /\ start <= t
      /\ end \in {2 * t, 2 * t + 1} /\ end \in Nat
  BY StatsAssumption DEF Day, At
<1>2. end \div 2 = t
  <2>1. (2 * t + 1) \div 2 = t
    BY <1>1
  <2> QED BY <2>1 DEF At
<1>3. CASE start = t
  <2>1. S = <<<<"day", start>>>>
    BY <1>2, <1>3, CoverageParts
  <2>2. <<"day", start>> \in Part
    BY <1>1 DEF Part
  <2>3. <<<<"day", start>>>> \in Seq(Part)
    BY <2>2, ReportedOne
  <2>4. Reported(kind, o, <<<<"day", start>>>>) = Hash(kind, <<"day", start>>, o)
    BY <2>2, ReportedOne
  <2>5. Hash(kind, <<"day", start>>, o) = Daily(kind, o)[start] /\ Daily(kind, o)[start] \in Nat
    BY <1>1, HashDay, DailyType
  <2>6. Count(Daily(kind, o), {start}) = Daily(kind, o)[start]
    BY <2>5, CountSingle
  <2>7. start..(t + 1) - 1 = {start}
    BY <1>1, <1>3
  <2> QED BY <2>1, <2>3, <2>4, <2>5, <2>6, <2>7
<1>4. ASSUME start < t, n \in Nat, m <= t, m = MonthStart(Month(m)),
             S = EachDay(start, n) \o RestOf(end)[m]
      PROVE  S \in Seq(Part) /\ Reported(kind, o, S) = Count(Daily(kind, o), start..t - 1)
  <2> DEFINE R == RestOf(end)[m]
  <2> HIDE DEF t, end, n
  <2>1. m \in Nat \ {0}
    BY <1>1, <1>4
  <2>2. Covers(kind, o, RestOf(end), m, t)
    <3> HIDE DEF m
    <3> QED BY <1>1, <1>4, <2>1, RestCovers
  <2>3. R \in Seq(Part) /\ Reported(kind, o, R) = Count(Daily(kind, o), start + n..t - 1)
    BY <2>2 DEF Covers
  <2>4. start + n <= t /\ start \in Nat /\ t \in Nat
    BY <1>1, <1>4
  <2> HIDE DEF R
  <2>5. EachDay(start, n) \o R \in Seq(Part)
    BY <1>4, <2>3, <2>4, CoverageSum
  <2>6. Reported(kind, o, EachDay(start, n) \o R) = Count(Daily(kind, o), start..t - 1)
    BY <1>4, <2>3, <2>4, CoverageSum
  <2> QED BY <1>4, <2>5, <2>6 DEF R
<1>5. start # t => S = EachDay(start, n) \o RestOf(end)[m]
  BY <1>2, CoverageParts
<1>6. n = IF start = MonthStart(Month(start)) THEN 0 ELSE NextMonth(start) - start
  BY <1>1, FirstDaysToNow
<1>7. /\ NextMonth(start) \in Nat /\ NextMonth(start) > start
      /\ NextMonth(start) = MonthStart(Month(NextMonth(start)))
  BY <1>1, Forward, NextStarts
<1>8. CASE start < t /\ m <= t
  <2>1. n \in Nat /\ m = MonthStart(Month(m))
    <3>1. n \in Nat /\ (n = 0 \/ m = NextMonth(start))
      <4> HIDE DEF n
      <4> QED BY <1>1, <1>6, <1>7
    <3>2. CASE start = MonthStart(Month(start))
      <4> HIDE DEF n
      <4>1. m = start
        BY <1>1, <1>6, <3>2
      <4> HIDE DEF m
      <4> QED BY <3>1, <3>2, <4>1
    <3>3. CASE start # MonthStart(Month(start))
      <4> HIDE DEF n
      <4>1. m = NextMonth(start)
        BY <1>1, <1>6, <1>7, <3>3
      <4> HIDE DEF m
      <4> QED BY <1>7, <3>1, <4>1
    <3> QED BY <3>2, <3>3
  <2>2. start # t
    BY <1>1, <1>8
  <2>3. S \in Seq(Part) /\ Reported(kind, o, S) = Count(Daily(kind, o), start..t - 1)
    BY <1>4, <1>5, <1>8, <2>1, <2>2
  <2> QED BY <2>3
<1>9. CASE start < t /\ ~(m <= t)
  <2> DEFINE b == NextMonth(start)
             R == RestOf(end)[b]
  <2>1. m = b /\ b > t /\ n \in Nat /\ b = start + n
    <3> HIDE DEF n, t, end
    <3> QED BY <1>1, <1>6, <1>7, <1>9
  <2>2. R = EachDay(b, 0)
    <3>1. IsRest(RestOf(end), end)
      BY <1>1, RestExists
    <3>2. b \in Nat /\ NextYear(b) \in Nat /\ NextYear(b) > b
                    /\ NextMonth(b) \in Nat /\ NextMonth(b) > b
      BY <1>7, Forward
    <3>3. R = From(RestOf(end), b, end)
      BY <3>1, <3>2 DEF IsRest
    <3>4. ~(At(NextYear(b)) <= end) /\ ~(At(NextMonth(b)) <= end)
      BY <1>1, <2>1, <3>2 DEF At
    <3>5. {e \in b..end : At(e + 1) <= end} = {}
      BY <1>1, <2>1, <3>2 DEF At
    <3>6. Cardinality({e \in b..end : At(e + 1) <= end}) = 0
      BY <3>5, FS_EmptySet
    <3> HIDE DEF b, end
    <3> QED BY <3>3, <3>4, <3>6 DEF From
  <2>3. R \in Seq(Part) /\ Reported(kind, o, R) = Count(Daily(kind, o), b..b - 1)
    <3>1. b \in Nat /\ b = b + 0
      BY <1>7
    <3> HIDE DEF b, R
    <3>2. EachDay(b, 0) \in Seq(Part)
      BY <3>1, ReportedDays
    <3>3. Reported(kind, o, EachDay(b, 0)) = Count(Daily(kind, o), b..b - 1)
      BY <3>1, ReportedDays
    <3> QED BY <2>2, <3>2, <3>3
  <2>4. S = EachDay(start, n) \o R
    <3>1. start # t
      BY <1>1, <1>9
    <3> QED BY <1>5, <2>1, <3>1
  <2>5. S \in Seq(Part) /\ Reported(kind, o, S) = Count(Daily(kind, o), start..b - 1)
    <3>1. /\ start \in Nat /\ b \in Nat /\ start + n <= b /\ n \in Nat /\ R \in Seq(Part)
          /\ Reported(kind, o, R) = Count(Daily(kind, o), start + n..b - 1)
      BY <1>1, <1>7, <2>1, <2>3
    <3> HIDE DEF b, R, S, n, m, t, end
    <3>2. EachDay(start, n) \o R \in Seq(Part)
      BY <3>1, CoverageSum
    <3>3. Reported(kind, o, EachDay(start, n) \o R) = Count(Daily(kind, o), start..b - 1)
      BY <3>1, CoverageSum
    <3> QED BY <2>4, <3>2, <3>3
  <2>6. Count(Daily(kind, o), start..b - 1)
           = Count(Daily(kind, o), start..(t + 1) - 1) + Count(Daily(kind, o), t + 1..b - 1)
    <3> DEFINE u == t + 1
    <3>1. u \in Nat /\ start \in Nat /\ b \in Nat /\ start <= u /\ u <= b
      BY <1>1, <1>7, <2>1
    <3> HIDE DEF u, b
    <3>2. Count(Daily(kind, o), start..b - 1)
             = Count(Daily(kind, o), start..u - 1) + Count(Daily(kind, o), u..b - 1)
      BY <3>1, DaysJoin
    <3> QED BY <3>2 DEF u
  <2>7. Count(Daily(kind, o), t + 1..b - 1) = 0
    <3>1. ASSUME NEW d \in t + 1..b - 1 PROVE Daily(kind, o)[d] = 0
      <4>1. d \in Nat /\ d > today
        BY <1>1, <1>7
      <4>2. CASE d \in Day
        <5>1. <<kind, d, o>> \in Key
          BY <4>2, CountedKeys
        <5>2. saved[<<kind, d, o>>] = 0
          BY <4>1, <5>1 DEF Future
        <5> QED BY <4>1, <4>2, <5>2 DEF Daily
      <4>3. CASE d \notin Day
        BY <4>1, <4>3 DEF Daily
      <4> QED BY <4>2, <4>3
    <3> QED BY <3>1, CountZero
  <2>8. Count(Daily(kind, o), start..(t + 1) - 1) \in Nat
    <3>1. IsFiniteSet(start..(t + 1) - 1)
      BY <1>1, FS_Interval
    <3>2. \A d \in start..(t + 1) - 1 : Daily(kind, o)[d] \in Nat
      BY <1>1, DailyType
    <3> QED BY <3>1, <3>2, CountStep
  <2>9. Reported(kind, o, S) = Count(Daily(kind, o), start..(t + 1) - 1)
    BY <2>5, <2>6, <2>7, <2>8
  <2> QED BY <2>5, <2>9
<1> QED BY <1>1, <1>3, <1>8, <1>9

-----------------------------------------------------------------------------
(* The reports.                                                            *)

\* The recursion of Report.
IsReport(h, kind, o, c) ==
    h = [s \in SUBSET DOMAIN c |->
            IF s = {} THEN 0 ELSE Hash(kind, c[Chosen(s)], o) + h[s \ {Chosen(s)}]]

LEMMA ReportIsSum ==
    ASSUME NEW kind, NEW o, NEW c, NEW h
    PROVE  IsReport(h, kind, o, c) <=> IsSum(h, Numbers(kind, o, c), DOMAIN c)
<1> DEFINE D == DOMAIN c
           A(s) == IF s = {} THEN 0 ELSE Hash(kind, c[Chosen(s)], o) + h[s \ {Chosen(s)}]
           B(s) == IF s = {} THEN 0
                   ELSE Numbers(kind, o, c)[Chosen(s)] + h[s \ {Chosen(s)}]
<1>1. ASSUME NEW s \in SUBSET D PROVE A(s) = B(s)
  <2>1. CASE s # {}
    <3>1. Chosen(s) \in D
      BY <2>1 DEF Chosen
    <3>2. Numbers(kind, o, c)[Chosen(s)] = Hash(kind, c[Chosen(s)], o)
      BY <3>1 DEF Numbers
    <3> QED BY <3>2
  <2> QED BY <2>1
<1> HIDE DEF A, B
<1>2. [s \in SUBSET D |-> A(s)] = [s \in SUBSET D |-> B(s)]
  BY <1>1
<1> QED BY <1>2 DEF A, B, IsReport, IsSum

LEMMA ReportIsReported ==
    ASSUME Agreement, NEW kind, NEW o, Counted(kind, o),
           NEW start \in Day, NEW end \in EndsOf(start),
           TimeKeyCoverage(start, end) \in Seq(Part)
    PROVE  Report(kind, o, start, end) = Reported(kind, o, TimeKeyCoverage(start, end))
<1> DEFINE c == TimeKeyCoverage(start, end)
           N == Numbers(kind, o, c)
           D == DOMAIN c
           h == [s \in SUBSET D |-> Count(N, s)]
           i == CHOOSE i : IsReport(i, kind, o, c)
<1>1. Coverage[start][end] = c
  BY DEF Coverage
<1>2. Report(kind, o, start, end) = i[D]
  BY <1>1 DEF Report, MapThenSumSet, MapThenFoldSet, IsReport, Chosen
<1> HIDE DEF c
<1>3. c \in Seq(Part)
  BY DEF c
<1>4. IsFiniteSet(D) /\ \A k \in D : N[k] \in Nat
  <2>1. Len(c) \in Nat /\ D = 1..Len(c) /\ \A k \in D : c[k] \in Part
    BY <1>3
  <2>2. IsFiniteSet(D)
    BY <2>1, FS_Interval
  <2>3. \A k \in D : N[k] = Hash(kind, c[k], o)
    BY DEF Numbers
  <2> QED BY <2>1, <2>2, <2>3, HashType
<1> HIDE DEF N, D
<1>5. IsSum(h, N, D)
  BY <1>4, CountIsSum
<1>6. h[D] = Count(N, D)
  OBVIOUS
<1> HIDE DEF h
<1>7. IsReport(h, kind, o, c)
  BY <1>5, ReportIsSum DEF N, D
<1>8. IsReport(i, kind, o, c)
  BY <1>7
<1> HIDE DEF i
<1>9. IsSum(i, N, D)
  BY <1>8, ReportIsSum DEF N, D
<1>10. h = i
  BY <1>4, <1>5, <1>9, SumUnique
<1> QED BY <1>2, <1>6, <1>10 DEF Reported, N, D, c

\* The sum of some days.
LEMMA DaysCount ==
    ASSUME Agreement, NEW kind, NEW o, Counted(kind, o), NEW X \in SUBSET Day
    PROVE  SumSaved({<<kind, d, o>> : d \in X}) = Count(Daily(kind, o), X)
<1> DEFINE K == {<<kind, d, o>> : d \in X}
<1>1. K \in SUBSET Key /\ IsFiniteSet(K) /\ Count(saved, K) = Count(Daily(kind, o), X)
  BY DailyCount
<1> HIDE DEF K
<1>2. SumSaved(K) = Count(saved, K)
  BY <1>1, SavedCount DEF Agreement, CountersOK
<1> QED BY <1>1, <1>2 DEF K

LEMMA ReportsAgree == Agreement /\ Future => RangeAgrees
<1> SUFFICES ASSUME Agreement, Future,
                    NEW kf \in {<<"f", f>> : f \in File} \cup ({"m", "s"} \X Mirror)
             PROVE  LET Days(a, b) == SumSaved({<<kf[1], d, kf[2]>> : d \in a..b})
                    IN /\ \A start \in Day : \A end \in start + 1..MaxDay + 1 :
                            Report(kf[1], kf[2], start, At(end)) = Days(start, end - 1)
                       /\ \A start \in 1..today :
                            Report(kf[1], kf[2], start, At(today) + 1)
                                \in {Days(start, today - 1), Days(start, today)}
  BY DEF RangeAgrees
<1> DEFINE kind == kf[1]
           o == kf[2]
           Days(a, b) == SumSaved({<<kind, d, o>> : d \in a..b})
<1>1. Counted(kind, o)
  BY DEF Counted
<1>2. today \in Day /\ today \in Nat /\ MaxDay \in Nat /\ Day = 1..MaxDay
  BY StatsAssumption DEF Agreement, CountersOK, Day
<1> HIDE DEF kind, o
<1>3. ASSUME NEW start \in Day, NEW end \in start + 1..MaxDay + 1
      PROVE  Report(kind, o, start, At(end)) = Days(start, end - 1)
  <2>1. At(end) \in EndsOf(start)
    BY <1>2 DEF EndsOf
  <2>2. TimeKeyCoverage(start, At(end)) \in Seq(Part)
    BY <1>1, CoverageToDate
  <2>3. Reported(kind, o, TimeKeyCoverage(start, At(end)))
           = Count(Daily(kind, o), start..end - 1)
    BY <1>1, CoverageToDate
  <2>4. Report(kind, o, start, At(end)) = Reported(kind, o, TimeKeyCoverage(start, At(end)))
    BY <1>1, <2>1, <2>2, ReportIsReported
  <2>5. start..end - 1 \in SUBSET Day
    BY <1>2
  <2>6. Days(start, end - 1) = Count(Daily(kind, o), start..end - 1)
    BY <1>1, <2>5, DaysCount
  <2> QED BY <2>3, <2>4, <2>6
<1>4. ASSUME NEW start \in 1..today
      PROVE  Report(kind, o, start, At(today) + 1)
                \in {Days(start, today - 1), Days(start, today)}
  <2> DEFINE end == At(today) + 1
  <2>1. start \in Day /\ end \in EndsOf(start)
    BY <1>2 DEF EndsOf
  <2>2. /\ TimeKeyCoverage(start, end) \in Seq(Part)
        /\ \E x \in {today, today + 1} : Reported(kind, o, TimeKeyCoverage(start, end))
                                            = Count(Daily(kind, o), start..x - 1)
    BY <1>1, <1>2, CoverageToNow
  <2> HIDE DEF end
  <2>3. Report(kind, o, start, end) = Reported(kind, o, TimeKeyCoverage(start, end))
    BY <1>1, <2>1, <2>2, ReportIsReported
  <2>4. start..today - 1 \in SUBSET Day /\ start..today \in SUBSET Day
    BY <1>2
  <2>5. Days(start, today - 1) = Count(Daily(kind, o), start..today - 1)
    BY <1>1, <2>4, DaysCount
  <2>6. Days(start, today) = Count(Daily(kind, o), start..today)
    BY <1>1, <2>4, DaysCount
  <2>7. (today + 1) - 1 = today
    BY <1>2
  <2> HIDE DEF Days
  <2>8. Report(kind, o, start, end) \in {Days(start, today - 1), Days(start, today)}
    BY <2>2, <2>3, <2>5, <2>6, <2>7
  <2> QED BY <2>8 DEF end
<1> QED BY <1>3, <1>4 DEF kind, o

-----------------------------------------------------------------------------

LEMMA FutureInit == Init => Future
BY DEF Init, Future

LEMMA FutureStep == IInv /\ Future /\ [Next]_vars => Future'
<1> SUFFICES ASSUME IInv, Future, [Next]_vars PROVE Future'
  OBVIOUS
<1>1. /\ countChan \in Seq(Item) /\ today \in Day /\ today \in Nat
      /\ \A k \in Key : k[2] \in Nat /\ saved[k] \in Nat /\ mapStats[k] \in Nat
      /\ \A k \in Key : k[2] > today => saved[k] = 0 /\ mapStats[k] = 0
      /\ \A i \in DOMAIN countChan : countChan[i].day <= today
  BY StatsAssumption DEF IInv, CountersOK, Future, Day, Key, FileKeys, FileKey,
     MirrorKeys, MirrorKey, BytesKeys, BytesKey
<1>2. ASSUME NEW m \in Mirror, NEW f \in File, CountDownload(m, f) PROVE Future'
  <2>1. /\ countChan' = Append(countChan, [mirror |-> m, file |-> f, day |-> today])
        /\ UNCHANGED <<today, saved, mapStats>>
    BY <1>2 DEF CountDownload, redisVars
  <2>2. ASSUME NEW i \in DOMAIN countChan' PROVE countChan'[i].day <= today
    BY <1>1, <2>1
  <2> QED BY <1>1, <2>1, <2>2 DEF Future
<1>3. ASSUME Receive PROVE Future'
  <2>1. /\ countChan' = Tail(countChan) /\ countChan # <<>>
        /\ mapStats' = [k \in Key |-> mapStats[k] + Increment(Head(countChan), k)]
        /\ UNCHANGED <<today, saved>>
    BY <1>3 DEF Receive, redisVars
  <2>2. Head(countChan) = countChan[1] /\ countChan[1].day <= today
    BY <1>1, <2>1
  <2>3. ASSUME NEW k \in Key, k[2] > today PROVE Increment(Head(countChan), k) = 0
    <3>1. k[2] # Head(countChan).day
      BY <1>1, <2>2, <2>3
    <3> QED BY <3>1 DEF Increment, FileKey, MirrorKey, BytesKey
  <2>4. ASSUME NEW k \in Key, k[2] > today PROVE saved'[k] = 0 /\ mapStats'[k] = 0
    BY <1>1, <2>1, <2>3, <2>4
  <2>5. ASSUME NEW i \in DOMAIN countChan' PROVE countChan'[i].day <= today
    <3>1. i + 1 \in DOMAIN countChan /\ countChan'[i] = countChan[i + 1]
      BY <1>1, <2>1
    <3> QED BY <1>1, <3>1
  <2> QED BY <2>1, <2>4, <2>5 DEF Future
<1>4. ASSUME Tick \/ Finish PROVE Future'
  <2>1. pushStats /\ UNCHANGED <<today, countChan>>
    BY <1>4 DEF Tick, Finish
  <2>2. \/ UNCHANGED <<saved, mapStats>>
        \/ /\ saved' = [k \in Key |-> saved[k] + mapStats[k]]
           /\ mapStats' = mapStats \/ mapStats' = [k \in Key |-> 0]
    BY <2>1 DEF pushStats, PushNothing, PushDown, PushOk, PushError, Apply, redisVars
  <2>3. ASSUME NEW k \in Key, k[2] > today PROVE saved'[k] = 0 /\ mapStats'[k] = 0
    BY <1>1, <2>2, <2>3
  <2> QED BY <1>1, <2>1, <2>3 DEF Future
<1>5. ASSUME Midnight PROVE Future'
  <2>1. today' = today + 1 /\ UNCHANGED <<countChan, saved, mapStats>>
    BY <1>5 DEF Midnight, redisVars
  <2>2. \A i \in DOMAIN countChan : countChan[i].day \in Nat
    <3>1. \A i \in DOMAIN countChan : countChan[i] \in Item
      BY <1>1
    <3>2. \A item \in Item : item.day \in Nat
      BY StatsAssumption DEF Item, Day
    <3> QED BY <3>1, <3>2
  <2> QED BY <1>1, <2>1, <2>2 DEF Future
<1>6. ASSUME Terminate \/ RedisFails \/ RedisRecovers \/ UNCHANGED vars PROVE Future'
  BY <1>6 DEF Future, Terminate, RedisFails, RedisRecovers, vars, redisVars
<1> QED BY <1>2, <1>3, <1>4, <1>5, <1>6 DEF Next

\* For any calendar and any number of days, a report is the sum of its days,
\* however TimeKeyCoverage splits the range into days, months and years.
THEOREM StatsRangeAgrees == Spec => []RangeAgrees
<1> DEFINE I == IInv /\ HashesAgree /\ Future
<1>1. Init => I
  BY AgreeInit, FutureInit, StatsAssumption DEF Init, IInv, CountersOK, NothingLost, Day
<1>2. I /\ [Next]_vars => I'
  BY InvStep, AgreeStep, FutureStep
<1>3. I => RangeAgrees
  BY ReportsAgree DEF IInv, Agreement
<1> QED BY <1>1, <1>2, <1>3, PTL DEF Spec

=============================================================================
