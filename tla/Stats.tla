------------------------------- MODULE Stats -------------------------------
(***************************************************************************)
(* The download counters of http/stats.go: the HTTP handlers that send on  *)
(* countChan, the goroutine that folds the downloads into mapStats and     *)
(* pushes them to Redis every 500 ms, the failures of Redis, and the end   *)
(* of the process; and the reports on a range of days that rpc/rpc.go      *)
(* makes of the counters.                                                  *)
(*                                                                         *)
(* STATS_FILE, STATS_MIRROR and STATS_MIRROR_BYTES are kept per day, per   *)
(* month, per year and for all time.                                       *)
(***************************************************************************)
EXTENDS Naturals, Sequences, FiniteSetsExt

CONSTANTS
    File, Mirror,
    Size,        \* size of each file, in [File -> Nat]
    MaxDay,      \* the days are 1..MaxDay
    MonthLength, \* days of a month
    YearLength,  \* months of a year
    ChanCap,     \* capacity of countChan (1000)
    MaxDownload, \* bound on the downloads
    FaultBudget  \* bound on the failures of Redis

ASSUME StatsAssumption ==
    /\ IsFiniteSet(File) /\ IsFiniteSet(Mirror)
    /\ Size \in [File -> Nat]
    /\ MaxDay \in Nat \ {0}
    /\ MonthLength \in Nat \ {0} /\ YearLength \in Nat \ {0}
    /\ ChanCap \in Nat \ {0}
    /\ MaxDownload \in Nat
    /\ FaultBudget \in Nat

Day == 1..MaxDay
Item == [mirror : Mirror, file : File, day : Day]

\* The keys of mapStats: "f", "m" or "s", a date and an object.
FileKey(d, f) == <<"f", d, f>>
MirrorKey(d, m) == <<"m", d, m>>
BytesKey(d, m) == <<"s", d, m>>
FileKeys == {FileKey(d, f) : d \in Day, f \in File}
MirrorKeys == {MirrorKey(d, m) : d \in Day, m \in Mirror}
BytesKeys == {BytesKey(d, m) : d \in Day, m \in Mirror}
Key == FileKeys \cup MirrorKeys \cup BytesKeys

\* The calendar.
Month(d) == (d - 1) \div MonthLength
Year(d) == Month(d) \div YearLength
MonthStart(n) == n * MonthLength + 1
YearStart(n) == MonthStart(n * YearLength)

\* The other hashes: those of the months, of the years, and of all time.
Period == {<<"month", Month(d)>> : d \in Day} \cup {<<"year", Year(d)>> : d \in Day}
            \cup {<<"all", 0>>}
Within(p) ==
    CASE p[1] = "day" -> {p[2]}
      [] p[1] = "month" -> {d \in Day : Month(d) = p[2]}
      [] p[1] = "year" -> {d \in Day : Year(d) = p[2]}
      [] OTHER -> Day
PeriodKey == ({"f"} \X Period \X File) \cup ({"m", "s"} \X Period \X Mirror)

\* The keys of the days of a period, for one object.
KeysOf(a) == {<<a[1], d, a[3]>> : d \in Within(a[2])}

VARIABLES
    today,
    downloads,  \* downloads counted so far
    countChan,  \* items sent and not yet received
    mapStats,   \* increments not yet in Redis
    saved,      \* the hashes of the days in Redis
    savedPeriod,\* the hashes of the longer periods in Redis
    total,      \* STATS_TOTAL
    redisUp,
    downgraded,
    stop,       \* Terminate has closed s.stop
    loop,       \* processCountDownload: "running" or "done"
    received,   \* history: increments received from countChan
    replayed,   \* history: increments sent again after they were applied
    faults

redisVars == <<saved, savedPeriod, total>>
historyVars == <<received, replayed>>
vars == <<today, downloads, countChan, mapStats, redisVars, redisUp, downgraded,
          stop, loop, historyVars, faults>>

TypeOK ==
    /\ today \in Day
    /\ downloads \in 0..MaxDownload
    /\ countChan \in Seq(Item)
    /\ mapStats \in [Key -> Nat]
    /\ saved \in [Key -> Nat] /\ savedPeriod \in [PeriodKey -> Nat] /\ total \in Nat
    /\ redisUp \in BOOLEAN /\ downgraded \in BOOLEAN
    /\ stop \in BOOLEAN
    /\ loop \in {"running", "done"}
    /\ received \in [Key -> Nat] /\ replayed \in [Key -> Nat]
    /\ faults \in Nat

Init ==
    /\ today = 1
    /\ downloads = 0
    /\ countChan = <<>>
    /\ mapStats = [k \in Key |-> 0]
    /\ saved = [k \in Key |-> 0]
    /\ savedPeriod = [a \in PeriodKey |-> 0]
    /\ total = 0
    /\ redisUp = TRUE
    /\ downgraded = FALSE
    /\ stop = FALSE
    /\ loop = "running"
    /\ received = [k \in Key |-> 0]
    /\ replayed = [k \in Key |-> 0]
    /\ faults = 0

-----------------------------------------------------------------------------

\* CountDownload: a blocking send, from a handler that may outlive the server.
CountDownload(m, f) ==
    /\ downloads < MaxDownload
    /\ Len(countChan) < ChanCap
    /\ downloads' = downloads + 1
    /\ countChan' = Append(countChan, [mirror |-> m, file |-> f, day |-> today])
    /\ UNCHANGED <<today, mapStats, redisVars, redisUp, downgraded, stop, loop,
                   historyVars, faults>>

\* What one download adds under key k.
Increment(item, k) ==
    CASE k = FileKey(item.day, item.file) -> 1
      [] k = MirrorKey(item.day, item.mirror) -> 1
      [] k = BytesKey(item.day, item.mirror) -> Size[item.file]
      [] OTHER -> 0

\* case c := <-s.countChan
Receive ==
    /\ loop = "running"
    /\ countChan # <<>>
    /\ mapStats' = [k \in Key |-> mapStats[k] + Increment(Head(countChan), k)]
    /\ received' = [k \in Key |-> received[k] + Increment(Head(countChan), k)]
    /\ countChan' = Tail(countChan)
    /\ UNCHANGED <<today, downloads, redisVars, redisUp, downgraded, stop, loop,
                   replayed, faults>>

Empty == \A k \in Key : mapStats[k] = 0

Over(keys) == MapThenSumSet(LAMBDA k : mapStats[k], keys)

\* Mutant: STATS_TOTAL also counts the mirrors.
ApplyCountsTwice ==
    /\ saved' = [k \in Key |-> saved[k] + mapStats[k]]
    /\ savedPeriod' = [a \in PeriodKey |-> savedPeriod[a] + Over(KeysOf(a))]
    /\ total' = total + Over(FileKeys) + Over(MirrorKeys)

\* The transaction of pushStats, executed by Redis.
Apply ==
    /\ saved' = [k \in Key |-> saved[k] + mapStats[k]]
    /\ savedPeriod' = [a \in PeriodKey |-> savedPeriod[a] + Over(KeysOf(a))]
    /\ total' = total + Over(FileKeys)

Fault == faults < FaultBudget /\ faults' = faults + 1

PushNothing == Empty /\ UNCHANGED <<mapStats, redisVars, downgraded, replayed, faults>>

\* rconn.Err() != nil: the stats are kept in memory.
PushDown ==
    /\ ~Empty /\ ~redisUp
    /\ downgraded' = TRUE
    /\ UNCHANGED <<mapStats, redisVars, replayed, faults>>

PushOk ==
    /\ ~Empty /\ redisUp
    /\ Apply
    /\ mapStats' = [k \in Key |-> 0]
    /\ downgraded' = FALSE
    /\ UNCHANGED <<replayed, faults>>

\* Mutant: the map is cleared although EXEC has failed.
PushErrorClears ==
    /\ ~Empty /\ redisUp
    /\ Fault
    /\ \/ UNCHANGED <<redisVars, replayed>>
       \/ /\ Apply
          /\ replayed' = [k \in Key |-> replayed[k] + mapStats[k]]
    /\ mapStats' = [k \in Key |-> 0]
    /\ UNCHANGED downgraded

\* EXEC returns an error: the transaction was not executed, or it was and its
\* reply is lost.  The map is kept and will be pushed again.
PushError ==
    /\ ~Empty /\ redisUp
    /\ Fault
    /\ \/ UNCHANGED <<redisVars, replayed>>
       \/ /\ Apply
          /\ replayed' = [k \in Key |-> replayed[k] + mapStats[k]]
    /\ UNCHANGED <<mapStats, downgraded>>

pushStats == PushNothing \/ PushDown \/ PushOk \/ PushError

\* Mutant: the stats are pushed only while other downloads are waiting.
TickWhenBusy ==
    /\ loop = "running"
    /\ ~Empty
    /\ countChan # <<>>
    /\ pushStats
    /\ UNCHANGED <<today, downloads, countChan, redisUp, stop, loop, received>>

\* case <-pushTicker.C
Tick ==
    /\ loop = "running"
    /\ ~Empty
    /\ pushStats
    /\ UNCHANGED <<today, downloads, countChan, redisUp, stop, loop, received>>

\* Terminate: close(s.stop)
Terminate ==
    /\ ~stop
    /\ stop' = TRUE
    /\ UNCHANGED <<today, downloads, countChan, mapStats, redisVars, redisUp,
                   downgraded, loop, historyVars, faults>>

\* case <-s.stop, which the select may choose before the items still in countChan.
Finish ==
    /\ loop = "running"
    /\ stop
    /\ pushStats
    /\ loop' = "done"
    /\ UNCHANGED <<today, downloads, countChan, redisUp, stop, received>>

-----------------------------------------------------------------------------

RedisFails ==
    /\ redisUp
    /\ Fault
    /\ redisUp' = FALSE
    /\ UNCHANGED <<today, downloads, countChan, mapStats, redisVars, downgraded,
                   stop, loop, historyVars>>

RedisRecovers ==
    /\ ~redisUp
    /\ redisUp' = TRUE
    /\ UNCHANGED <<today, downloads, countChan, mapStats, redisVars, downgraded,
                   stop, loop, historyVars, faults>>

Midnight ==
    /\ today < MaxDay
    /\ today' = today + 1
    /\ UNCHANGED <<downloads, countChan, mapStats, redisVars, redisUp, downgraded,
                   stop, loop, historyVars, faults>>

Next ==
    \/ \E m \in Mirror, f \in File : CountDownload(m, f)
    \/ Receive \/ Tick \/ Terminate \/ Finish
    \/ RedisFails \/ RedisRecovers \/ Midnight

Spec == Init /\ [][Next]_vars

\* The goroutine is a loop whose select serves every ready case, Terminate waits
\* for it, and Redis comes back.
Fairness ==
    WF_vars(Receive) /\ WF_vars(Tick) /\ WF_vars(Finish) /\ WF_vars(RedisRecovers)

FairSpec == Spec /\ Fairness

-----------------------------------------------------------------------------
(* The reports on the days from start to end                               *)

\* An instant is a midnight, 2 * d, or a moment of the day, 2 * d + 1.
At(d) == 2 * d

\* Mutant: the first loop does not look for the end.
FirstDaysToMonthEnd(start, end) ==
    IF start = MonthStart(Month(start)) THEN 0
    ELSE MonthStart(Month(start) + 1) - start

\* The days of start's month, up to the end if it is the midnight of one of them.
FirstDays(start, end) ==
    IF start = MonthStart(Month(start)) THEN 0
    ELSE Cardinality({d \in start..MonthStart(Month(start) + 1) - 1 :
                        ~\E e \in start..d : At(e) = end})

\* TimeKeyCoverage: the days left of the first month, whole years and months, and
\* the days that are left.  start is a midnight.
TimeKeyCoverage(start, end) ==
    LET n == FirstDays(start, end)
        Rest[d \in Nat] ==
            LET nextYear == YearStart(Year(d) + 1)
                nextMonth == MonthStart(Month(d) + 1)
            IN IF d = YearStart(Year(d)) /\ At(nextYear) <= end
               THEN <<<<"year", Year(d)>>>> \o Rest[nextYear]
               ELSE IF At(nextMonth) <= end
               THEN <<<<"month", Month(d)>>>> \o Rest[nextMonth]
               ELSE [i \in 1..Cardinality({e \in d..end : At(e + 1) <= end})
                        |-> <<"day", d + i - 1>>]
    IN IF start = end \div 2 THEN <<<<"day", start>>>>
       ELSE [i \in 1..n |-> <<"day", start + i - 1>>] \o Rest[start + n]

EndsOf(start) == {At(d) : d \in start..MaxDay + 1} \cup {At(d) + 1 : d \in start..MaxDay}
Coverage == [start \in Day |-> [end \in EndsOf(start) |-> TimeKeyCoverage(start, end)]]

Hash(kind, p, o) ==
    IF p[1] # "day" THEN savedPeriod[<<kind, p, o>>]
    ELSE IF p[2] \in Day THEN saved[<<kind, p[2], o>>] ELSE 0

\* StatsFile and StatsMirror: the hashes are read in one transaction and added.
Report(kind, o, start, end) ==
    MapThenSumSet(LAMBDA i : Hash(kind, Coverage[start][end][i], o), DOMAIN Coverage[start][end])

\* fileStatsHandler: today, this month, this year, all time.
StatsFileNow(f) ==
    <<Hash("f", <<"day", today>>, f), Hash("f", <<"month", Month(today)>>, f),
      Hash("f", <<"year", Year(today)>>, f), Hash("f", <<"all", 0>>, f)>>

-----------------------------------------------------------------------------
(* Properties                                                              *)

\* Whatever fails, no increment received from countChan is lost: it is in the map
\* or in Redis, and it is counted twice only if a transaction was executed
\* although EXEC returned an error.
NothingLost == \A k \in Key : saved[k] + mapStats[k] = received[k] + replayed[k]

SumSaved(keys) == MapThenSumSet(LAMBDA k : saved[k], keys)

\* The hashes agree at any time, failures included: STATS_TOTAL is the number of
\* downloads of all files and of all mirrors, the counter of a month, of a year or
\* of all time is the sum of its days, and the page of a file shows numbers that
\* contain one another.
TotalsAgree ==
    /\ total = SumSaved(FileKeys)
    /\ total = SumSaved(MirrorKeys)
    /\ \A a \in PeriodKey : savedPeriod[a] = SumSaved(KeysOf(a))
    /\ \A f \in File, i \in 1..3 : StatsFileNow(f)[i] <= StatsFileNow(f)[i + 1]

\* A report from one date to a later one is the sum of the days from the first to
\* the one before the last, however TimeKeyCoverage splits them into days, months
\* and years.  Up to now, today is left out or counted, and no other day.
RangeAgrees ==
    \A kf \in {<<"f", f>> : f \in File} \cup ({"m", "s"} \X Mirror) :
        LET Days(a, b) == SumSaved({<<kf[1], d, kf[2]>> : d \in a..b})
        IN /\ \A start \in Day : \A end \in start + 1..MaxDay + 1 :
                Report(kf[1], kf[2], start, At(end)) = Days(start, end - 1)
           /\ \A start \in 1..today :
                Report(kf[1], kf[2], start, At(today) + 1)
                    \in {Days(start, today - 1), Days(start, today)}

\* A download sent to the counter reaches Redis, unless Terminate is called.
DownloadsSaved == (countChan # <<>> \/ ~Empty) ~> (stop \/ (countChan = <<>> /\ Empty))

=============================================================================
