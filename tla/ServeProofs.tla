---------------------------- MODULE ServeProofs ----------------------------
(***************************************************************************)
(* A request to the HTTP server, for any mirrors, sizes and profiles, any  *)
(* limit on the answer, and whatever changes while the request is served.  *)
(***************************************************************************)
EXTENDS Serve, FiniteSetTheorems, SequenceTheorems, TLAPS

-----------------------------------------------------------------------------
(* The inductive invariant, in parts.                                      *)

View == [record : SUBSET Mirror, enabled : SUBSET Mirror, up : SUBSET Mirror,
         holders : SUBSET Mirror, info : [Mirror -> Size \cup {0}]]

Stage == {"new", "list", "mirror", "info", "select", "stats", "lines", "done"}
Status == {0, 200, 302, 403, 404, 500, 503}
Ids == Seq(Mirror)
Reads == Seq(Read)
Answers == Seq(Mirror \cup Fallback)
Lines == Seq(Line)

Request == [at : Stage, kind : Kind, path : Path, valid : BOOLEAN,
            todo : Ids, got : Reads, status : Status, list : Answers,
            stats : Ids, lines : Lines, missed : BOOLEAN]

\* The types, with those of what the cache holds and of the request as a record.
Typed == TypeOK /\ cached \in View /\ req \in Request

\* No mirror was read twice.
ReadOnce == \A i, j \in 1..Len(req.got) : req.got[i].id = req.got[j].id => i = j

\* The mirrors still to be read, once each: none was read yet, except that the
\* first is the last one read when only its file is missing.
Ahead(first) ==
    /\ \A i, j \in 1..Len(req.todo) : req.todo[i] = req.todo[j] => i = j
    /\ \A i \in 1..Len(req.got), j \in first..Len(req.todo) : req.got[i].id # req.todo[j]

ReadsAhead ==
    /\ req.at \in {"new", "list", "stats", "lines"} => req.got = <<>>
    /\ req.at \in {"mirror", "info"} => req.todo # <<>>
    /\ req.at = "mirror" => Ahead(1)
    /\ req.at = "info" =>
          /\ Ahead(2)
          /\ req.got # <<>> /\ req.got[Len(req.got)].id = req.todo[1]

\* The answer is the head of an order of the mirrors selected; without one it names
\* fallbacks only.
Answered ==
    /\ req.at # "done" => req.list = <<>>
    /\ req.at = "done" =>
          \/ Selected # {} /\ \E l \in Orders(Selected) : req.list = FirstOf(l)
          \/ Selected = {} /\ Range(req.list) \subseteq Fallback

\* The counters left are those of the mirrors left, unless one was missed; then
\* they are more.  None of them is on the page yet.
Distinct(l) == \A i, j \in 1..Len(l) : l[i] = l[j] => i = j

StatsAhead ==
    /\ req.at \in {"new", "stats"} => req.lines = <<>>
    /\ req.at = "stats" => Distinct(req.todo)
    /\ req.at = "lines" =>
          /\ req.todo # <<>>
          /\ Len(req.stats) >= Len(req.todo)
          /\ ~req.missed => req.stats = req.todo
          /\ Distinct(req.stats)
          /\ \A i \in 1..Len(req.lines), j \in 1..Len(req.stats) :
                req.lines[i].counter # req.stats[j]

IInv == Typed /\ ReadOnce /\ ReadsAhead /\ Answered /\ StatsAhead /\ OwnStatistics

-----------------------------------------------------------------------------
(* Orders of a set and the head of an order.                               *)

\* The results of an order of a finite set: every element, once.
LEMMA OrderOfSet ==
    ASSUME NEW S, IsFiniteSet(S), NEW l \in SetToSeqs(S)
    PROVE  /\ Cardinality(S) \in Nat
           /\ l \in Seq(S) /\ Len(l) = Cardinality(S)
           /\ \A i, j \in 1..Len(l) : l[i] = l[j] => i = j
           /\ \A x \in S : \E i \in 1..Len(l) : l[i] = x
<1> DEFINE n == Cardinality(S)
<1>1. n \in Nat
  BY FS_CardinalityType
<1>2. /\ l \in [1..n -> S]
      /\ \A i, j \in 1..n : i # j => l[i] # l[j]
  BY DEF SetToSeqs
<1>3. l \in Seq(S) /\ Len(l) = n
  <2> HIDE DEF n
  <2> QED BY <1>1, <1>2
<1>4. l \in Injection(1..n, S)
  BY <1>2 DEF Injection, IsInjective
<1>5. Cardinality(1..n) = n
  <2> HIDE DEF n
  <2> QED BY <1>1, FS_Interval
<1>6. l \in Surjection(1..n, S)
  <2> HIDE DEF n
  <2>1. Cardinality(1..n) = Cardinality(S) <=> l \in Surjection(1..n, S)
    BY <1>4, FS_Injection
  <2> QED BY <2>1, <1>5 DEF n
<1>7. \A x \in S : \E i \in 1..n : l[i] = x
  BY <1>6 DEF Surjection
<1> QED BY <1>1, <1>2, <1>3, <1>7

\* The head of an order is as long as the limit allows.
LEMMA HeadOfOrder ==
    ASSUME NEW S, NEW l \in Seq(S)
    PROVE  /\ FirstOf(l) \in Seq(S)
           /\ Len(FirstOf(l)) = IF Len(l) <= Limit THEN Len(l) ELSE Limit
           /\ \A i \in 1..Len(FirstOf(l)) : FirstOf(l)[i] = l[i]
<1> DEFINE k == Min({Len(l), Limit})
<1>1. Limit \in Nat \ {0} /\ Len(l) \in Nat
  BY ServeAssumption
<1>2. k = IF Len(l) <= Limit THEN Len(l) ELSE Limit
  BY <1>1 DEF Min
<1>3. k \in Nat /\ k <= Len(l) /\ \A i \in 1..k : l[i] \in S
  <2> HIDE DEF k
  <2> QED BY <1>1, <1>2
<1> HIDE DEF k
<1>4. /\ SubSeq(l, 1, k) \in Seq(S)
      /\ Len(SubSeq(l, 1, k)) = k
      /\ \A i \in 1..k : SubSeq(l, 1, k)[i] = l[i]
  BY <1>3
<1>5. FirstOf(l) = SubSeq(l, 1, k)
  BY DEF FirstOf, k
<1> QED BY <1>2, <1>4, <1>5

\* The members of a sequence.
LEMMA MembersOfSeq ==
    ASSUME NEW S, NEW s \in Seq(S)
    PROVE  /\ Range(s) \subseteq S
           /\ \A i \in 1..Len(s) : s[i] \in Range(s)
           /\ \A x \in Range(s) : \E i \in 1..Len(s) : x = s[i]
<1>1. Range(s) = {s[i] : i \in 1..Len(s)}
  BY RangeEquality
<1> QED BY <1>1, ElementOfSeq

-----------------------------------------------------------------------------
(* The invariant, step by step.                                            *)

\* What the fields of a request may be set to.
LEMMA RequestParts ==
    /\ "new" \in Stage /\ "list" \in Stage /\ "mirror" \in Stage /\ "info" \in Stage
    /\ "select" \in Stage /\ "stats" \in Stage /\ "lines" \in Stage /\ "done" \in Stage
    /\ 0 \in Status /\ 200 \in Status /\ 302 \in Status /\ 403 \in Status
    /\ 404 \in Status /\ 500 \in Status /\ 503 \in Status
    /\ <<>> \in Ids /\ <<>> \in Reads /\ <<>> \in Answers /\ <<>> \in Lines
BY DEF Stage, Status, Ids, Reads, Answers, Lines

LEMMA ViewType ==
    ASSUME Typed, NEW view \in {Now, cached}
    PROVE  view \in View
BY DEF Typed, TypeOK, Now, View

\* The mirrors selected are some of those read.
LEMMA SelectedType ==
    ASSUME req \in Request
    PROVE  /\ Selected \subseteq Mirror /\ IsFiniteSet(Selected)
           /\ req.got = <<>> => Selected = {}
<1>1. req.got \in Seq(Read)
  BY DEF Request, Reads
<1>2. Range(req.got) \subseteq Read /\ (req.got = <<>> => Range(req.got) = {})
  BY <1>1, MembersOfSeq, RangeEquality
<1>3. Selected \subseteq Mirror /\ (req.got = <<>> => Selected = {})
  BY <1>2 DEF Selected, Read
<1>4. IsFiniteSet(Mirror)
  BY ServeAssumption
<1> QED BY <1>3, <1>4, FS_Subset

\* A step of the handler changes the request alone.
Handles == UNCHANGED <<configVars, mirrorVars, changes>>

LEMMA HandlerTypes ==
    ASSUME Typed, req' \in Request, Handles
    PROVE  Typed'
BY DEF Typed, TypeOK, Request, Stage, Status, Ids, Reads, Answers, Lines, View,
       Handles, configVars, mirrorVars

\* A step that leaves the request alone keeps what is said of it.
LEMMA SameRequest ==
    ASSUME IInv, TypeOK', UNCHANGED <<configVars, req>>
    PROVE  IInv'
<1>1. Typed'
  BY DEF IInv, Typed, configVars
<1>2. ReadOnce' /\ ReadsAhead' /\ StatsAhead' /\ OwnStatistics'
  BY DEF IInv, ReadOnce, ReadsAhead, Ahead, StatsAhead, Distinct, OwnStatistics
<1>3. /\ Selected' = Selected
      /\ \A S : Orders(S)' = Orders(S)
  BY DEF Selected, Kept, Admits, Orders, Sorted, Less, configVars
<1>4. Answered'
  BY <1>3 DEF IInv, Answered
<1> QED BY <1>1, <1>2, <1>4 DEF IInv

LEMMA InitialState ==
    ASSUME Init
    PROVE  IInv
<1>1. PICK kind \in Kind, path \in Path, valid \in BOOLEAN :
          req = NewRequest(kind, path, valid)
  BY DEF Init
<1>2. req \in Request
  BY <1>1, RequestParts DEF NewRequest, Request
<1>3. cached \in View
  BY DEF Init, Now, View
<1>4. TypeOK
  BY <1>2, ServeAssumption 
     DEF Init, TypeOK, Request, Stage, Status, Ids, Reads, Answers, Lines
<1>5. /\ req.at = "new" /\ req.got = <<>> /\ req.list = <<>> /\ req.lines = <<>>
  BY <1>1 DEF NewRequest
<1>6. OwnStatistics
  BY <1>5 DEF OwnStatistics, Range
<1> QED BY <1>2, <1>3, <1>4, <1>5, <1>6
        DEF IInv, Typed, ReadOnce, ReadsAhead, Answered, StatsAhead

\* The parts that a step of the handler keeps when it neither reads nor answers.
LEMMA NotAnswered ==
    ASSUME req'.at # "done", req'.list = req.list, Answered, req.at # "done"
    PROVE  Answered'
BY DEF Answered

LEMMA LinesKept ==
    ASSUME OwnStatistics, req'.lines = req.lines
    PROVE  OwnStatistics'
BY DEF OwnStatistics

\* An answer without mirrors, for a path that is not a version.
LEMMA EmptyAnswer ==
    ASSUME req' \in Request, req'.got = <<>>, req'.list = <<>>
    PROVE  Answered'
<1>1. Selected' = {}
  BY DEF Selected, Range
<1>2. Range(req'.list) \subseteq Fallback
  BY DEF Range
<1> QED BY <1>1, <1>2 DEF Answered

\* What an answer sets.
LEMMA AnswerFields ==
    ASSUME req \in Request, NEW c \in Status, NEW l \in Answers, Answer(c, l)
    PROVE  /\ req' \in Request /\ req'.got = req.got /\ req'.list = l
           /\ req'.lines = req.lines /\ req'.missed = req.missed
           /\ req'.at = "done" /\ req'.valid = req.valid
           /\ req'.kind = req.kind /\ req'.path = req.path
<1>1. "done" \in Stage
  BY RequestParts
<1> QED BY <1>1 DEF Answer, Request

LEMMA EvaluateStep ==
    ASSUME IInv, Evaluate
    PROVE  IInv'
<1>1. /\ req \in Request /\ req.at = "new" /\ req.got = <<>> /\ req.list = <<>>
  BY DEF IInv, Typed, Evaluate, ReadsAhead, Answered
<1>2. /\ req' \in Request /\ req'.got = <<>> /\ req'.list = <<>>
      /\ req'.lines = req.lines /\ req'.missed = req.missed
      /\ req'.at \in {"done", "select", "list"}
  <2>1. \/ \E c \in {200, 403, 404} : Answer(c, <<>>)
        \/ req' = [req EXCEPT !.at = "select"]
        \/ req' = [req EXCEPT !.at = "list"]
    BY DEF Evaluate
  <2>2. "select" \in Stage /\ "list" \in Stage /\ <<>> \in Answers
    BY RequestParts
  <2>3. ASSUME NEW c \in {200, 403, 404}, Answer(c, <<>>)
        PROVE  /\ req' \in Request /\ req'.got = req.got /\ req'.list = <<>>
               /\ req'.lines = req.lines /\ req'.missed = req.missed
               /\ req'.at = "done"
    <3>1. c \in Status
      BY RequestParts
    <3> QED BY <1>1, <2>2, <2>3, <3>1, AnswerFields
  <2>4. CASE req' = [req EXCEPT !.at = "select"]
    BY <1>1, <2>2, <2>4 DEF Request
  <2>5. CASE req' = [req EXCEPT !.at = "list"]
    BY <1>1, <2>2, <2>5 DEF Request
  <2> QED BY <1>1, <2>1, <2>3, <2>4, <2>5
<1>3. Typed'
  BY <1>2, HandlerTypes DEF IInv, Evaluate, Handles
<1>4. ReadOnce' /\ ReadsAhead' /\ StatsAhead'
  BY <1>2 DEF ReadOnce, ReadsAhead, StatsAhead
<1>5. Answered'
  BY <1>2, EmptyAnswer
<1>6. OwnStatistics'
  BY <1>2, LinesKept DEF IInv
<1> QED BY <1>3, <1>4, <1>5, <1>6 DEF IInv

\* The ids of the file are in the order, once each.
LEMMA GetFileMirrorsStep ==
    ASSUME IInv, GetFileMirrors
    PROVE  IInv'
<1> DEFINE Lists(ids) ==
        req' = [req EXCEPT !.at = IF ids = <<>> THEN "select" ELSE "mirror", !.todo = ids]
<1>a. PICK view \in {Now, cached} : \E ids \in SetToSeqs(view.holders) : Lists(ids)
  BY DEF GetFileMirrors
<1>1. PICK ids \in SetToSeqs(view.holders) : Lists(ids)
  BY <1>a
<1>2. view.holders \subseteq Mirror /\ IsFiniteSet(view.holders)
  <2>1. view \in View
    BY ViewType DEF IInv
  <2>2. view.holders \subseteq Mirror
    BY <2>1 DEF View
  <2> QED BY <2>2, ServeAssumption, FS_Subset
<1>3. /\ ids \in Ids
      /\ \A i, j \in 1..Len(ids) : ids[i] = ids[j] => i = j
  <2>1. /\ ids \in Seq(view.holders)
        /\ \A i, j \in 1..Len(ids) : ids[i] = ids[j] => i = j
    BY <1>2, OrderOfSet
  <2> QED BY <2>1, <1>2 DEF Ids
<1>4. /\ req \in Request /\ req.at = "list" /\ req.got = <<>> /\ req.list = <<>>
  BY DEF IInv, Typed, GetFileMirrors, ReadsAhead, Answered
<1>5. /\ req' \in Request /\ req'.got = <<>> /\ req'.list = <<>> /\ req'.todo = ids
      /\ req'.lines = req.lines /\ req'.missed = req.missed
      /\ req'.at = IF ids = <<>> THEN "select" ELSE "mirror"
  <2>1. "select" \in Stage /\ "mirror" \in Stage
    BY RequestParts
  <2>2. CASE ids = <<>>
    BY <1>1, <1>3, <1>4, <2>1, <2>2 DEF Request
  <2>3. CASE ids # <<>>
    BY <1>1, <1>3, <1>4, <2>1, <2>3 DEF Request
  <2> QED BY <2>2, <2>3
<1>6. Typed'
  BY <1>5, HandlerTypes DEF IInv, GetFileMirrors, Handles
<1>7. ReadOnce' /\ ReadsAhead' /\ StatsAhead'
  BY <1>3, <1>5 DEF ReadOnce, ReadsAhead, Ahead, StatsAhead
<1>8. Answered' /\ OwnStatistics'
  BY <1>5, EmptyAnswer, LinesKept DEF IInv
<1> QED BY <1>6, <1>7, <1>8 DEF IInv

\* The list is given up, with what was read.
GivesUp == req' = [req EXCEPT !.at = "select", !.got = <<>>, !.missed = TRUE]

LEMMA GivesUpStep ==
    ASSUME IInv, req.at \in {"list", "mirror", "info"}, GivesUp, Handles
    PROVE  IInv'
<1>1. req \in Request /\ req.list = <<>>
  BY DEF IInv, Typed, Answered
<1>2. /\ req' \in Request /\ req'.got = <<>> /\ req'.list = <<>>
      /\ req'.at = "select" /\ req'.lines = req.lines /\ req'.missed
  <2>1. "select" \in Stage /\ <<>> \in Reads
    BY RequestParts
  <2> QED BY <1>1, <2>1 DEF GivesUp, Request
<1>3. Typed'
  BY <1>2, HandlerTypes DEF IInv
<1>4. ReadOnce' /\ ReadsAhead' /\ StatsAhead'
  BY <1>2 DEF ReadOnce, ReadsAhead, StatsAhead
<1>5. Answered' /\ OwnStatistics'
  BY <1>2, EmptyAnswer, LinesKept DEF IInv
<1> QED BY <1>3, <1>4, <1>5 DEF IInv

\* The mirror read is the next one of the list, and is read for the first time.
LEMMA GetMirrorStep ==
    ASSUME IInv, GetMirror
    PROVE  IInv'
<1> DEFINE m == Head(req.todo)
<1>1. PICK view \in {Now, cached} :
          IF m \in view.record
          THEN req' = [req EXCEPT !.at = "info",
                         !.got = Append(@, [id |-> m, enabled |-> m \in view.enabled,
                                            up |-> m \in view.up, size |-> 0])]
          ELSE GivesUp
  BY DEF GetMirror, GivesUp
<1>2. Handles /\ req.at = "mirror"
  BY DEF GetMirror, Handles
<1>3. CASE m \notin view.record
  BY <1>1, <1>2, <1>3, GivesUpStep
<1>4. CASE m \in view.record
  <2> DEFINE r == [id |-> m, enabled |-> m \in view.enabled,
                   up |-> m \in view.up, size |-> 0]
  <2>1. /\ req \in Request /\ req.todo \in Seq(Mirror) /\ req.todo # <<>>
        /\ req.got \in Seq(Read)
        /\ Ahead(1) /\ ReadOnce
    BY <1>2 DEF IInv, Typed, Request, Ids, Reads, ReadsAhead
  <2>2. m \in Mirror /\ m = req.todo[1]
    BY <2>1
  <2>3. r \in Read /\ r.id = m
    <3> HIDE DEF m
    <3> QED BY <2>2 DEF Read
  <2>4. req' = [req EXCEPT !.at = "info", !.got = Append(req.got, r)]
    BY <1>1, <1>4
  <2> HIDE DEF m, r
  <2>5. /\ Append(req.got, r) \in Seq(Read)
        /\ Len(Append(req.got, r)) = Len(req.got) + 1
        /\ \A i \in 1..Len(req.got) : Append(req.got, r)[i] = req.got[i]
        /\ Append(req.got, r)[Len(req.got) + 1] = r
        /\ Append(req.got, r) # <<>>
    BY <2>1, <2>3, AppendProperties
  <2>6. /\ req' \in Request /\ req'.at = "info" /\ req'.got = Append(req.got, r)
        /\ req'.todo = req.todo /\ req'.list = req.list
        /\ req'.lines = req.lines /\ req'.missed = req.missed
    <3>1. Append(req.got, r) \in Reads
      BY <2>5 DEF Reads
    <3> QED BY <2>1, <2>4, <3>1, RequestParts DEF Request
  <2>7. Typed'
    BY <2>6, <1>2, HandlerTypes DEF IInv
  <2>8. \A i \in 1..Len(req.got), j \in 1..Len(req.todo) : req.got[i].id # req.todo[j]
    BY <2>1 DEF Ahead
  <2>9. ReadOnce'
    <3>1. \A i \in 1..Len(req.got) : req.got[i].id # m
      BY <2>1, <2>2, <2>8
    <3>2. SUFFICES ASSUME NEW i \in 1..(Len(req.got) + 1), NEW j \in 1..(Len(req.got) + 1),
                          Append(req.got, r)[i].id = Append(req.got, r)[j].id
                   PROVE  i = j
      BY <2>5, <2>6 DEF ReadOnce
    <3>3. Len(req.got) \in Nat
      BY <2>1
    <3>4. \A k \in 1..(Len(req.got) + 1) : k \in 1..Len(req.got) \/ k = Len(req.got) + 1
      BY <3>3
    <3> QED BY <3>1, <3>2, <3>4, <2>1, <2>3, <2>5 DEF ReadOnce
  <2>10. Ahead(2)'
    <3>1. \A i, j \in 1..Len(req.todo) : req.todo[i] = req.todo[j] => i = j
      BY <2>1 DEF Ahead
    <3>2. ASSUME NEW i \in 1..(Len(req.got) + 1), NEW j \in 2..Len(req.todo)
          PROVE  Append(req.got, r)[i].id # req.todo[j]
      <4>1. Len(req.got) \in Nat /\ Len(req.todo) \in Nat
        BY <2>1
      <4>2. i \in 1..Len(req.got) \/ i = Len(req.got) + 1
        BY <4>1
      <4>3. j \in 1..Len(req.todo) /\ 1 \in 1..Len(req.todo) /\ j # 1
        BY <4>1
      <4>4. req.todo[j] # req.todo[1]
        BY <4>3, <3>1
      <4> QED BY <4>2, <4>3, <4>4, <2>2, <2>3, <2>5, <2>8
    <3> QED BY <3>1, <3>2, <2>5, <2>6 DEF Ahead
  <2>11. ReadsAhead'
    BY <2>1, <2>2, <2>3, <2>5, <2>6, <2>10 DEF ReadsAhead
  <2>12. StatsAhead' /\ Answered' /\ OwnStatistics'
    BY <2>6, <1>2, NotAnswered, LinesKept DEF IInv, StatsAhead
  <2> QED BY <2>7, <2>9, <2>11, <2>12 DEF IInv
<1> QED BY <1>3, <1>4

\* What the database knows of the file on that mirror is kept with the mirror, and
\* the rest of the list follows.
LEMMA GetFileInfoStep ==
    ASSUME IInv, GetFileInfo
    PROVE  IInv'
<1> DEFINE rest == Tail(req.todo)
           n == Len(req.got)
<1>1. PICK view \in {Now, cached} :
          req' = [req EXCEPT !.at = IF rest = <<>> THEN "select" ELSE "mirror",
                             !.todo = rest,
                             !.got[n].size = view.info[Head(req.todo)]]
  BY DEF GetFileInfo
<1>2. Handles /\ req.at = "info"
  BY DEF GetFileInfo, Handles
<1>3. /\ req \in Request /\ req.todo \in Seq(Mirror) /\ req.todo # <<>>
      /\ req.got \in Seq(Read) /\ req.got # <<>> /\ req.got[n].id = req.todo[1]
      /\ Ahead(2) /\ ReadOnce
  BY <1>2 DEF IInv, Typed, Request, Ids, Reads, ReadsAhead
<1>4. /\ Head(req.todo) \in Mirror /\ rest \in Ids /\ rest \in Seq(Mirror)
      /\ Len(rest) = Len(req.todo) - 1
      /\ \A j \in 1..Len(rest) : rest[j] = req.todo[j + 1]
  BY <1>3, HeadTailProperties DEF Ids
<1>5. PICK size \in Size \cup {0} : size = view.info[Head(req.todo)]
  <2>1. view \in View
    BY ViewType DEF IInv
  <2> QED BY <1>4, <2>1 DEF View
<1> DEFINE got == [req.got EXCEPT ![n].size = size]
<1>6. req' = [req EXCEPT !.at = IF rest = <<>> THEN "select" ELSE "mirror",
                         !.todo = rest, !.got = got]
  BY <1>1, <1>5
<1>7. /\ got \in Seq(Read) /\ Len(got) = n
      /\ \A i \in 1..n : got[i].id = req.got[i].id
  <2>1. n \in Nat /\ n \in 1..n /\ \A i \in 1..n : req.got[i] \in Read
    BY <1>3
  <2>2. [req.got[n] EXCEPT !.size = size] \in Read
    BY <2>1, <1>5 DEF Read
  <2>3. [req.got[n] EXCEPT !.size = size].id = req.got[n].id
    BY <2>1 DEF Read
  <2>4. got = [req.got EXCEPT ![n] = [req.got[n] EXCEPT !.size = size]]
    OBVIOUS
  <2> HIDE DEF got
  <2> QED BY <2>1, <2>2, <2>3, <2>4, <1>3
<1>8. /\ req' \in Request /\ req'.got = got /\ req'.todo = rest /\ req'.list = req.list
      /\ req'.at = IF rest = <<>> THEN "select" ELSE "mirror"
      /\ req'.lines = req.lines /\ req'.missed = req.missed
  <2>1. "select" \in Stage /\ "mirror" \in Stage /\ got \in Reads /\ rest \in Ids
    BY RequestParts, <1>7, <1>4 DEF Reads
  <2> HIDE DEF got, rest
  <2>2. CASE rest = <<>>
    BY <1>3, <1>6, <2>1, <2>2 DEF Request
  <2>3. CASE rest # <<>>
    BY <1>3, <1>6, <2>1, <2>3 DEF Request
  <2> QED BY <2>2, <2>3
<1> HIDE DEF got, rest, n
<1>9. Typed'
  BY <1>2, <1>8, HandlerTypes DEF IInv
<1>10. ReadOnce'
  BY <1>3, <1>7, <1>8 DEF ReadOnce, n
<1>11. Ahead(1)'
  <2>1. ASSUME NEW i \in 1..Len(rest), NEW j \in 1..Len(rest), rest[i] = rest[j]
        PROVE  i = j
    <3>1. Len(req.todo) \in Nat
      BY <1>3
    <3>2. i + 1 \in 1..Len(req.todo) /\ j + 1 \in 1..Len(req.todo)
      BY <3>1, <1>4
    <3>3. i + 1 = j + 1
      BY <1>3, <1>4, <2>1, <3>2 DEF Ahead
    <3> QED BY <3>3
  <2>2. ASSUME NEW i \in 1..n, NEW j \in 1..Len(rest)
        PROVE  got[i].id # rest[j]
    <3>1. Len(req.todo) \in Nat
      BY <1>3
    <3>2. j + 1 \in 2..Len(req.todo)
      BY <3>1, <1>4
    <3>3. req.got[i].id # req.todo[j + 1]
      BY <1>3, <3>2 DEF Ahead, n
    <3> QED BY <1>4, <1>7, <3>3
  <2> QED BY <2>1, <2>2, <1>7, <1>8 DEF Ahead
<1>12. ReadsAhead'
  BY <1>8, <1>11 DEF ReadsAhead
<1>13. StatsAhead' /\ Answered' /\ OwnStatistics'
  BY <1>8, <1>2, NotAnswered, LinesKept DEF IInv, StatsAhead
<1> QED BY <1>9, <1>10, <1>12, <1>13 DEF IInv

LEMMA ReadFailsStep ==
    ASSUME IInv, ReadFails
    PROVE  IInv'
BY GivesUpStep DEF ReadFails, GivesUp, Handles

\* An answer from what was read leaves what was read as it is.
LEMMA AnswerStep ==
    ASSUME IInv, Handles, req.at = "select",
           NEW c \in Status, NEW l \in Answers, Answer(c, l),
           \/ Selected # {} /\ \E o \in Orders(Selected) : l = FirstOf(o)
           \/ Selected = {} /\ Range(l) \subseteq Fallback
    PROVE  IInv'
<1>1. /\ req' \in Request /\ req'.got = req.got /\ req'.list = l
      /\ req'.lines = req.lines /\ req'.missed = req.missed
      /\ req'.at = "done" /\ req'.valid = req.valid
  BY AnswerFields DEF IInv, Typed
<1>2. Typed'
  BY <1>1, HandlerTypes DEF IInv
<1>3. ReadOnce' /\ ReadsAhead' /\ StatsAhead' /\ OwnStatistics'
  BY <1>1, LinesKept DEF IInv, ReadOnce, ReadsAhead, StatsAhead
<1>4. profile' = profile
  BY DEF Handles, configVars
<1>5. /\ Selected' = Selected
      /\ \A S : Orders(S)' = Orders(S)
  BY <1>1, <1>4 DEF Selected, Kept, Admits, Orders, Sorted, Less
<1>6. Answered'
  BY <1>1, <1>5 DEF Answered
<1> QED BY <1>2, <1>3, <1>6 DEF IInv

LEMMA SelectStep ==
    ASSUME IInv, Select
    PROVE  IInv'
<1>1. Handles /\ req.at = "select" /\ req \in Request
  BY DEF Select, Handles, IInv, Typed
<1>2. 302 \in Status /\ 503 \in Status /\ <<>> \in Answers
  BY RequestParts
<1>3. CASE Selected # {}
  <2>1. PICK o \in Orders(Selected) : Answer(302, FirstOf(o))
    BY <1>3 DEF Select
  <2>2. Selected \subseteq Mirror /\ IsFiniteSet(Selected)
    BY <1>1, SelectedType
  <2>3. o \in Seq(Selected)
    BY <2>2, OrderOfSet DEF Orders
  <2>4. o \in Seq(Mirror \cup Fallback)
    BY <2>2, <2>3
  <2>5. FirstOf(o) \in Answers
    BY <2>4, HeadOfOrder DEF Answers
  <2> QED BY <1>1, <1>2, <1>3, <2>1, <2>5, AnswerStep
<1>4. CASE Selected = {} /\ fallbacks = {}
  <2>1. Answer(503, <<>>)
    BY <1>4 DEF Select
  <2>2. Range(<<>>) \subseteq Fallback
    BY DEF Range
  <2> QED BY <1>1, <1>2, <1>4, <2>1, <2>2, AnswerStep
<1>5. CASE Selected = {} /\ fallbacks # {}
  <2>1. PICK o \in FallbackOrders : Answer(302, FirstOf(o))
    BY <1>5 DEF Select
  <2>2. fallbacks \subseteq Fallback /\ IsFiniteSet(fallbacks)
    BY ServeAssumption, FS_Subset DEF IInv, Typed, TypeOK
  <2>3. o \in Seq(fallbacks)
    BY <2>2, OrderOfSet DEF FallbackOrders
  <2>4. o \in Seq(Fallback)
    BY <2>2, <2>3
  <2>5. FirstOf(o) \in Seq(Fallback)
    BY <2>4, HeadOfOrder
  <2>6. FirstOf(o) \in Answers
    BY <2>5 DEF Answers
  <2>7. Range(FirstOf(o)) \subseteq Fallback
    BY <2>5, MembersOfSeq
  <2> QED BY <1>1, <1>2, <1>5, <2>1, <2>6, <2>7, AnswerStep
<1> QED BY <1>3, <1>4, <1>5

LEMMA StatsListStep ==
    ASSUME IInv, StatsList
    PROVE  IInv'
<1>1. PICK ids \in SetToSeqs(record) : req' = [req EXCEPT !.at = "stats", !.todo = ids]
  BY DEF StatsList
<1>2. record \subseteq Mirror /\ IsFiniteSet(record)
  BY ServeAssumption, FS_Subset DEF IInv, Typed, TypeOK
<1>3. ids \in Ids /\ Distinct(ids)
  <2>1. ids \in Seq(record) /\ Distinct(ids)
    BY <1>2, OrderOfSet DEF Distinct
  <2> QED BY <2>1, <1>2 DEF Ids
<1>4. /\ req \in Request /\ req.at = "new" /\ req.got = <<>> /\ req.list = <<>>
      /\ req.lines = <<>>
  BY DEF IInv, Typed, StatsList, ReadsAhead, Answered, StatsAhead
<1>5. /\ req' \in Request /\ req'.got = <<>> /\ req'.list = <<>> /\ req'.at = "stats"
      /\ req'.lines = req.lines /\ req'.todo = ids
  <2>1. "stats" \in Stage
    BY RequestParts
  <2> QED BY <1>1, <1>3, <1>4, <2>1 DEF Request
<1>6. Typed'
  BY <1>5, HandlerTypes DEF IInv, StatsList, Handles
<1>7. ReadOnce' /\ ReadsAhead' /\ StatsAhead'
  BY <1>3, <1>4, <1>5 DEF ReadOnce, ReadsAhead, StatsAhead
<1>8. Answered' /\ OwnStatistics'
  BY <1>5, EmptyAnswer, LinesKept DEF IInv
<1> QED BY <1>6, <1>7, <1>8 DEF IInv

\* The counters are those of the mirrors of the list, in its order.
LEMMA StatsReadStep ==
    ASSUME IInv, StatsRead
    PROVE  IInv'
<1> DEFINE at == IF req.todo = <<>> THEN "done" ELSE "lines"
<1>1. /\ req \in Request /\ req.got = <<>> /\ req.list = <<>> /\ req.lines = <<>>
      /\ req.todo \in Seq(Mirror) /\ Distinct(req.todo)
  BY DEF IInv, Typed, StatsRead, ReadsAhead, Answered, StatsAhead, Request, Ids
<1>2. req' = [req EXCEPT !.at = at, !.stats = req.todo]
  BY DEF StatsRead
<1>3. at \in Stage
  BY RequestParts
<1>4. at \in {"done", "lines"} /\ (at = "lines" => req.todo # <<>>)
  OBVIOUS
<1> HIDE DEF at
<1>5. /\ req' \in Request /\ req'.got = <<>> /\ req'.list = <<>>
      /\ req'.at = at /\ req'.todo = req.todo /\ req'.stats = req.todo
      /\ req'.lines = <<>>
  BY <1>1, <1>2, <1>3 DEF Request
<1>6. Typed'
  BY <1>5, HandlerTypes DEF IInv, StatsRead, Handles
<1>7. ReadOnce' /\ ReadsAhead'
  BY <1>4, <1>5 DEF ReadOnce, ReadsAhead
<1>8. StatsAhead'
  <2>1. Len(req.todo) \in Nat
    BY <1>1
  <2> QED BY <1>1, <1>4, <1>5, <2>1 DEF StatsAhead
<1>9. Answered' /\ OwnStatistics'
  BY <1>1, <1>5, EmptyAnswer, LinesKept DEF IInv
<1> QED BY <1>6, <1>7, <1>8, <1>9 DEF IInv

LEMMA StatsFailsStep ==
    ASSUME IInv, StatsFails
    PROVE  IInv'
<1>1. Handles /\ req \in Request /\ req.got = <<>>
  BY DEF IInv, Typed, StatsFails, Handles, ReadsAhead
<1>2. /\ req' \in Request /\ req'.got = <<>> /\ req'.list = <<>>
      /\ req'.lines = req.lines /\ req'.at = "done"
  BY <1>1, RequestParts, AnswerFields DEF StatsFails
<1>3. Typed'
  BY <1>1, <1>2, HandlerTypes DEF IInv
<1>4. ReadOnce' /\ ReadsAhead' /\ StatsAhead'
  BY <1>2 DEF ReadOnce, ReadsAhead, StatsAhead
<1>5. Answered' /\ OwnStatistics'
  BY <1>2, EmptyAnswer, LinesKept DEF IInv
<1> QED BY <1>3, <1>4, <1>5 DEF IInv

\* While no mirror is missed, the counter at hand is that of the mirror at hand; and
\* it is left behind once it is on the page.
LEMMA StatsLineStep ==
    ASSUME IInv, StatsLine
    PROVE  IInv'
<1> DEFINE rest == Tail(req.todo)
           at == IF rest = <<>> THEN "done" ELSE "lines"
           c == Head(req.stats)
           line == [id |-> Head(req.todo), counter |-> c, aligned |-> ~req.missed]
<1>1. \/ req' = [[[req EXCEPT !.todo = Tail(@), !.at = at]
                     EXCEPT !.lines = Append(@, line)] EXCEPT !.stats = Tail(@)]
      \/ req' = [[req EXCEPT !.todo = Tail(@), !.at = at] EXCEPT !.missed = TRUE]
  BY DEF StatsLine, AddLine, NextMirror
<1>2. Handles /\ req.at = "lines"
  BY DEF StatsLine, Handles
<1>3. /\ req \in Request /\ req.got = <<>> /\ req.list = <<>>
      /\ req.todo \in Seq(Mirror) /\ req.todo # <<>>
      /\ req.stats \in Seq(Mirror) /\ Len(req.stats) >= Len(req.todo)
      /\ ~req.missed => req.stats = req.todo
      /\ req.lines \in Seq(Line) /\ req.missed \in BOOLEAN /\ Distinct(req.stats)
      /\ \A i \in 1..Len(req.lines), j \in 1..Len(req.stats) :
            req.lines[i].counter # req.stats[j]
  BY <1>2 DEF IInv, Typed, ReadsAhead, Answered, StatsAhead, Request, Ids, Lines
<1>4. req.stats # <<>> /\ Len(req.stats) \in Nat /\ 1 \in 1..Len(req.stats)
  BY <1>3
<1>5. /\ Head(req.todo) \in Mirror /\ rest \in Seq(Mirror) /\ Len(rest) = Len(req.todo) - 1
      /\ c \in Mirror /\ c = req.stats[1] /\ Tail(req.stats) \in Seq(Mirror)
      /\ Len(Tail(req.stats)) = Len(req.stats) - 1
      /\ \A j \in 1..Len(Tail(req.stats)) : Tail(req.stats)[j] = req.stats[j + 1]
  BY <1>3, <1>4, HeadTailProperties
<1>6. line \in Line /\ line.counter = c /\ (line.aligned => ~req.missed)
      /\ line.id = Head(req.todo)
  <2> HIDE DEF c
  <2> QED BY <1>3, <1>5 DEF Line
<1>7. at \in Stage /\ at \in {"done", "lines"} /\ (at = "lines" => rest # <<>>)
  BY RequestParts
<1>8. ~req.missed => Tail(req.stats) = rest /\ line.counter = line.id
  BY <1>3
<1>9. rest \in Ids /\ Tail(req.stats) \in Ids
  BY <1>5 DEF Ids
<1> HIDE DEF rest, at, line, c
<1>10. CASE req' = [[[req EXCEPT !.todo = Tail(@), !.at = at]
                       EXCEPT !.lines = Append(@, line)] EXCEPT !.stats = Tail(@)]
  <2> DEFINE page == Append(req.lines, line)
             n == Len(req.lines)
  <2>1. /\ page \in Seq(Line) /\ Len(page) = n + 1 /\ page[n + 1] = line
        /\ \A i \in 1..n : page[i] = req.lines[i]
    BY <1>3, <1>6, AppendProperties
  <2>2. /\ req' \in Request /\ req'.got = <<>> /\ req'.list = <<>>
        /\ req'.at = at /\ req'.todo = rest /\ req'.stats = Tail(req.stats)
        /\ req'.lines = page /\ req'.missed = req.missed
    <3>1. page \in Lines
      BY <2>1 DEF Lines
    <3>2. req' = [req EXCEPT !.todo = rest, !.at = at, !.lines = page, !.stats = Tail(req.stats)]
      BY <1>3, <1>10 DEF Request, rest
    <3> HIDE DEF page
    <3> QED BY <1>3, <1>7, <1>9, <3>1, <3>2 DEF Request
  <2> HIDE DEF page
  <2>3. n \in Nat /\ \A i \in 1..(n + 1) : i \in 1..n \/ i = n + 1
    BY <1>3
  <2>4. Typed'
    BY <1>2, <2>2, HandlerTypes DEF IInv
  <2>5. ReadOnce' /\ ReadsAhead' /\ Answered'
    BY <1>7, <2>2, EmptyAnswer DEF ReadOnce, ReadsAhead
  <2>6. \A i \in 1..n : page[i].counter # c
    BY <1>3, <1>4, <1>5, <2>1
  <2>7. StatsAhead'
    <3>1. Len(Tail(req.stats)) >= Len(rest)
      BY <1>3, <1>5
    <3>2. \A j \in 1..Len(Tail(req.stats)) : j + 1 \in 1..Len(req.stats)
      BY <1>4, <1>5
    <3>3. Distinct(Tail(req.stats))
      BY <1>3, <1>5, <3>2 DEF Distinct
    <3>4. ASSUME NEW i \in 1..(n + 1), NEW j \in 1..Len(Tail(req.stats))
          PROVE  page[i].counter # Tail(req.stats)[j]
      <4>1. CASE i \in 1..n
        BY <1>3, <1>5, <2>1, <3>2, <4>1
      <4>2. CASE i = n + 1
        <5>1. j + 1 # 1 /\ j + 1 \in 1..Len(req.stats)
          BY <3>2
        <5> QED BY <1>3, <1>4, <1>5, <1>6, <2>1, <4>2, <5>1 DEF Distinct
      <4> QED BY <2>3, <4>1, <4>2
    <3> QED BY <1>7, <1>8, <2>1, <2>2, <3>1, <3>3, <3>4 DEF StatsAhead
  <2>8. OwnStatistics'
    <3>1. DOMAIN page = 1..(n + 1) /\ DOMAIN req.lines = 1..n
      BY <1>3, <2>1
    <3>2. ASSUME NEW x \in Range(page), x.aligned PROVE x.counter = x.id
      <4>1. PICK i \in 1..(n + 1) : x = page[i]
        BY <2>1, MembersOfSeq
      <4>2. CASE i \in 1..n
        <5>1. x \in Range(req.lines)
          BY <1>3, <2>1, <4>1, <4>2, MembersOfSeq
        <5> QED BY <3>2, <5>1 DEF IInv, OwnStatistics
      <4>3. CASE i = n + 1
        BY <1>6, <1>8, <2>1, <3>2, <4>1, <4>3
      <4> QED BY <2>3, <4>2, <4>3
    <3>3. ASSUME NEW i \in 1..(n + 1), NEW j \in 1..(n + 1), page[i].counter = page[j].counter
          PROVE  i = j
      <4>1. CASE i \in 1..n /\ j \in 1..n
        BY <2>1, <3>1, <3>3, <4>1 DEF IInv, OwnStatistics
      <4>2. CASE i \in 1..n /\ j = n + 1
        BY <1>6, <2>1, <2>6, <3>3, <4>2
      <4>3. CASE i = n + 1 /\ j \in 1..n
        BY <1>6, <2>1, <2>6, <3>3, <4>3
      <4> QED BY <2>3, <4>1, <4>2, <4>3
    <3> QED BY <2>2, <3>1, <3>2, <3>3 DEF OwnStatistics
  <2> QED BY <2>4, <2>5, <2>7, <2>8 DEF IInv
<1>11. CASE req' = [[req EXCEPT !.todo = Tail(@), !.at = at] EXCEPT !.missed = TRUE]
  <2>1. /\ req' \in Request /\ req'.got = <<>> /\ req'.list = <<>>
        /\ req'.at = at /\ req'.todo = rest /\ req'.stats = req.stats
        /\ req'.lines = req.lines /\ req'.missed
    <3>1. req' = [req EXCEPT !.todo = rest, !.at = at, !.missed = TRUE]
      BY <1>3, <1>11 DEF Request, rest
    <3> QED BY <1>3, <1>7, <1>9, <3>1 DEF Request
  <2>2. Typed'
    BY <1>2, <2>1, HandlerTypes DEF IInv
  <2>3. ReadOnce' /\ ReadsAhead'
    BY <1>7, <2>1 DEF ReadOnce, ReadsAhead
  <2>4. StatsAhead'
    <3>1. Len(req.stats) >= Len(rest)
      BY <1>3, <1>5
    <3> QED BY <1>3, <1>7, <2>1, <3>1 DEF StatsAhead
  <2>5. Answered' /\ OwnStatistics'
    BY <2>1, EmptyAnswer, LinesKept DEF IInv
  <2> QED BY <2>2, <2>3, <2>4, <2>5 DEF IInv
<1> QED BY <1>1, <1>10, <1>11

\* The changes of the mirrors, which the request does not see until it reads.
LEMMA ChangeStep ==
    ASSUME IInv, NEW m \in Mirror, SetState(m) \/ RemoveMirror(m) \/ Scan(m)
    PROVE  IInv'
<1>1. UNCHANGED <<configVars, req>>
  BY DEF SetState, RemoveMirror, Scan
<1>2. TypeOK /\ changes' \in 0..MaxChange
  BY ServeAssumption DEF IInv, Typed, TypeOK, SetState, RemoveMirror, Scan, Change
<1>a. changed' \subseteq Mirror
  BY <1>2 DEF TypeOK, SetState, RemoveMirror, Scan, Change
<1>3. /\ record' \subseteq Mirror /\ enabled' \subseteq Mirror /\ up' \subseteq Mirror
      /\ holders' \subseteq Mirror
  BY <1>2 DEF TypeOK, SetState, RemoveMirror, Scan, Toggle
<1>4. info' \in [Mirror -> Size \cup {0}]
  BY <1>2 DEF TypeOK, SetState, RemoveMirror, Scan
<1>5. TypeOK'
  BY <1>1, <1>2, <1>a, <1>3, <1>4 DEF TypeOK, configVars
<1> QED BY <1>1, <1>5, SameRequest

\* The invariant that the properties of a request rest on.
THEOREM ServeInvariant == Spec => []IInv
<1>1. Init => IInv
  BY InitialState
<1>2. IInv /\ [Next]_vars => IInv'
  <2> SUFFICES ASSUME IInv, [Next]_vars PROVE IInv'
    OBVIOUS
  <2>1. CASE Next
    BY <2>1, EvaluateStep, GetFileMirrorsStep, GetMirrorStep, GetFileInfoStep,
       ReadFailsStep, SelectStep, StatsListStep, StatsReadStep, StatsFailsStep,
       StatsLineStep, ChangeStep DEF Next
  <2>2. CASE UNCHANGED vars
    <3>1. TypeOK' /\ UNCHANGED <<configVars, req>>
      BY <2>2 DEF IInv, Typed, TypeOK, vars, configVars, mirrorVars
    <3> QED BY <3>1, SameRequest
  <2> QED BY <2>1, <2>2
<1> QED BY <1>1, <1>2, PTL DEF Spec

-----------------------------------------------------------------------------
(* What the answer of a request promises.                                  *)

\* The page of mirrorStatsHandler gives a mirror its own downloads unless one before
\* it was skipped, and shows no downloads twice even then.
THEOREM ServeOwnStatistics == Spec => []OwnStatistics
BY ServeInvariant, PTL DEF IInv

\* The handler and the changes of the mirrors keep the types.
THEOREM ServeTypeCorrect == Spec => []TypeOK
BY ServeInvariant, PTL DEF IInv, Typed

\* The mirrors offered are the first of an order of those selected.
LEMMA OfferedFirst ==
    ASSUME IInv, Offered # {}
    PROVE  \E l \in Seq(Selected), k \in Nat :
              /\ \A x \in Selected : \E i \in 1..Len(l) : l[i] = x
              /\ \A i, j \in 1..Len(l) : l[i] = l[j] => i = j
              /\ req.valid => Sorted(l, Less)
              /\ Len(l) = Cardinality(Selected)
              /\ k = IF Len(l) <= Limit THEN Len(l) ELSE Limit
              /\ Len(req.list) = k
              /\ \A i \in 1..k : req.list[i] = l[i]
              /\ Offered = {l[i] : i \in 1..k}
<1>1. req \in Request /\ req.list \in Seq(Mirror \cup Fallback)
  BY DEF IInv, Typed, Request, Answers
<1>2. req.at = "done"
  <2>1. req.list # <<>>
    BY DEF Offered, Range
  <2> QED BY <2>1 DEF IInv, Answered
<1>3. ~(Range(req.list) \subseteq Fallback)
  BY ServeAssumption DEF Offered
<1>4. PICK l \in Orders(Selected) : req.list = FirstOf(l)
  BY <1>2, <1>3 DEF IInv, Answered
<1>5. Selected \subseteq Mirror /\ IsFiniteSet(Selected)
  BY <1>1, SelectedType
<1>6. /\ l \in Seq(Selected) /\ Len(l) = Cardinality(Selected)
      /\ \A i, j \in 1..Len(l) : l[i] = l[j] => i = j
      /\ \A x \in Selected : \E i \in 1..Len(l) : l[i] = x
  BY <1>5, OrderOfSet DEF Orders
<1>7. /\ req.list \in Seq(Selected)
      /\ Len(req.list) = IF Len(l) <= Limit THEN Len(l) ELSE Limit
      /\ \A i \in 1..Len(req.list) : req.list[i] = l[i]
  BY <1>4, <1>6, HeadOfOrder
<1>8. Offered = {l[i] : i \in 1..Len(req.list)}
  <2>1. Range(req.list) = {req.list[i] : i \in 1..Len(req.list)}
    BY <1>7, RangeEquality
  <2>2. Range(req.list) \subseteq Mirror
    BY <1>5, <1>7, MembersOfSeq
  <2> QED BY <1>7, <2>1, <2>2 DEF Offered
<1>9. req.valid => Sorted(l, Less)
  BY DEF Orders
<1>10. Len(req.list) \in Nat
  BY <1>7
<1> QED BY <1>6, <1>7, <1>8, <1>9, <1>10

\* A mirror selected was read once, kept by the filter and compared with the first.
LEMMA SelectedRead ==
    ASSUME IInv, NEW m \in Selected
    PROVE  /\ SizeRead(m) = req.got[1].size
           /\ \A r \in Range(req.got) : r.id = m => r.enabled /\ r.up
<1>1. req.got \in Seq(Read)
  BY DEF IInv, Typed, Request, Reads
<1>2. PICK r \in Range(req.got) : Kept(r, req.got[1]) /\ r.id = m
  BY DEF Selected
<1>3. ASSUME NEW x \in Range(req.got), x.id = m
      PROVE  x = r
  <2>1. PICK i \in 1..Len(req.got) : x = req.got[i]
    BY <1>1, MembersOfSeq
  <2>2. PICK j \in 1..Len(req.got) : r = req.got[j]
    BY <1>1, MembersOfSeq
  <2> QED BY <1>2, <1>3, <2>1, <2>2 DEF IInv, ReadOnce
<1>4. SizeRead(m) = r.size
  <2>1. (CHOOSE x \in Range(req.got) : x.id = m) = r
    BY <1>2, <1>3
  <2> QED BY <2>1 DEF SizeRead
<1> QED BY <1>2, <1>3, <1>4 DEF Kept

\* The mirrors that the Link headers call duplicates were read with the same size,
\* enabled and up.
THEOREM ServeDuplicatesAgree == Spec => []DuplicatesAgree
<1>1. IInv => DuplicatesAgree
  <2> SUFFICES ASSUME IInv, Offered # {} PROVE DuplicatesAgree
    BY DEF DuplicatesAgree
  <2>1. Offered \subseteq Selected
    BY OfferedFirst
  <2> QED BY <2>1, SelectedRead DEF DuplicatesAgree
<1> QED BY <1>1, ServeInvariant, PTL

\* The first k elements of an order are k.
LEMMA CountFirst ==
    ASSUME NEW S, NEW l \in Seq(S), NEW k \in Nat, k <= Len(l),
           \A i, j \in 1..Len(l) : l[i] = l[j] => i = j
    PROVE  Cardinality({l[i] : i \in 1..k}) = k
<1> DEFINE T == {l[i] : i \in 1..k}
           f == [i \in 1..k |-> l[i]]
<1>1. \A i \in 1..k : i \in 1..Len(l)
  OBVIOUS
<1>2. f \in Bijection(1..k, T)
  BY <1>1 DEF Bijection, Injection, Surjection, IsInjective
<1>3. ExistsBijection(1..k, T)
  BY <1>2 DEF ExistsBijection
<1> QED BY <1>3, FS_CountingElements

-----------------------------------------------------------------------------
(* The mirrors that do not change while the request is served.             *)

\* The database and the cache agree on them: they have the file, are enabled and up.
SteadyViews ==
    \A m \in Mirror \ changed :
        /\ m \in record /\ m \in enabled /\ m \in up /\ m \in holders
        /\ m \in cached.record /\ m \in cached.enabled /\ m \in cached.up
        /\ m \in cached.holders /\ cached.info[m] = info[m]

\* Each of them has been read, or still will be.
WasRead(m) ==
    \E i \in 1..Len(req.got) :
        /\ req.got[i].id = m /\ req.got[i].enabled /\ req.got[i].up
        /\ req.got[i].size = info[m]
IsAhead(m) == \E j \in 1..Len(req.todo) : req.todo[j] = m

Finds(m) ==
    /\ req.at = "mirror" => WasRead(m) \/ IsAhead(m)
    /\ req.at = "info" =>
          IF m = req.todo[1] THEN req.got[Len(req.got)].enabled /\ req.got[Len(req.got)].up
          ELSE WasRead(m) \/ IsAhead(m)
    /\ req.at \in {"select", "done"} =>
          req.kind = "mirrorstats" \/ req.path # "version" \/ req.missed \/ WasRead(m)

SteadyInv ==
    /\ SteadyViews
    /\ \A m \in Mirror \ changed : Finds(m)
    /\ req.at \in {"stats", "lines"} => req.kind = "mirrorstats"

LEMMA SteadyStart ==
    ASSUME Init
    PROVE  SteadyInv
<1>1. req.at = "new"
  BY DEF Init, NewRequest
<1>2. SteadyViews
  BY DEF Init, Now, SteadyViews
<1> QED BY <1>1, <1>2 DEF SteadyInv, Finds

\* A step of the handler leaves the views alone.
LEMMA ViewsKept ==
    ASSUME SteadyInv, Handles
    PROVE  SteadyViews' /\ UNCHANGED <<changed, info>>
BY DEF SteadyInv, SteadyViews, Handles, configVars, mirrorVars

\* What a view shows of a mirror that does not change.
LEMMA SteadyView ==
    ASSUME SteadyInv, NEW m \in Mirror \ changed, NEW view \in {Now, cached}
    PROVE  /\ m \in view.record /\ m \in view.enabled /\ m \in view.up
           /\ m \in view.holders /\ view.info[m] = info[m]
<1>1. /\ Now.record = record /\ Now.enabled = enabled /\ Now.up = up
      /\ Now.holders = holders /\ Now.info = info
  BY DEF Now
<1> QED BY <1>1 DEF SteadyInv, SteadyViews

\* What an answer leaves alone.
LEMMA AnswerKeeps ==
    ASSUME req \in Request, NEW c, NEW l, Answer(c, l)
    PROVE  /\ req'.at = "done" /\ req'.got = req.got /\ req'.kind = req.kind
           /\ req'.path = req.path /\ req'.missed = req.missed
BY DEF Answer, Request

\* A step that keeps the answer, and neither lists nor reads.
LEMMA SteadyRest ==
    ASSUME IInv, SteadyInv, Evaluate \/ ReadFails \/ Select
    PROVE  SteadyInv'
<1>1. Handles /\ req \in Request
  BY DEF Evaluate, ReadFails, Select, Handles, IInv, Typed
<1>2. SteadyViews' /\ UNCHANGED <<changed, info>>
  BY <1>1, ViewsKept
<1>3. CASE Evaluate
  <2>1. /\ req'.at \in {"list", "done", "select"}
        /\ req'.at # "list" => req'.path # "version"
    <3>1. \/ req.path # "version" /\ \E c \in {200, 403, 404} : Answer(c, <<>>)
          \/ req.path = "other" /\ req' = [req EXCEPT !.at = "select"]
          \/ req' = [req EXCEPT !.at = "list"]
      BY <1>3 DEF Evaluate
    <3>2. CASE req.path # "version" /\ \E c \in {200, 403, 404} : Answer(c, <<>>)
      BY <1>1, <3>2, AnswerKeeps
    <3>3. CASE req.path = "other" /\ req' = [req EXCEPT !.at = "select"]
      BY <1>1, <3>3 DEF Request
    <3>4. CASE req' = [req EXCEPT !.at = "list"]
      BY <1>1, <3>4 DEF Request
    <3> QED BY <3>1, <3>2, <3>3, <3>4
  <2> QED BY <1>2, <2>1 DEF SteadyInv, Finds
<1>4. CASE ReadFails
  <2>1. req'.at = "select" /\ req'.missed
    BY <1>1, <1>4 DEF ReadFails, Request
  <2> QED BY <1>2, <2>1 DEF SteadyInv, Finds
<1>5. CASE Select
  <2>1. /\ req.at = "select" /\ req'.at = "done" /\ req'.got = req.got
        /\ req'.kind = req.kind /\ req'.path = req.path /\ req'.missed = req.missed
    BY <1>1, <1>5, AnswerKeeps DEF Select
  <2> QED BY <1>2, <2>1 DEF SteadyInv, Finds, WasRead
<1> QED BY <1>3, <1>4, <1>5

LEMMA SteadyStats ==
    ASSUME IInv, SteadyInv, StatsList \/ StatsRead \/ StatsFails \/ StatsLine
    PROVE  SteadyInv'
<1>1. /\ Handles /\ req \in Request
      /\ req.kind = "mirrorstats"
  BY DEF StatsList, StatsRead, StatsFails, StatsLine, Handles, IInv, Typed, SteadyInv
<1>2. SteadyViews' /\ UNCHANGED <<changed, info>>
  BY <1>1, ViewsKept
<1>3. req'.kind = "mirrorstats" /\ req'.at \in {"stats", "lines", "done"}
  <2>1. CASE StatsList
    BY <1>1, <2>1 DEF StatsList, Request
  <2>2. CASE StatsRead
    BY <1>1, <2>2 DEF StatsRead, Request
  <2>3. CASE StatsFails
    BY <1>1, <2>3 DEF StatsFails, Answer, Request
  <2>4. CASE StatsLine
    BY <1>1, <2>4 DEF StatsLine, AddLine, NextMirror, Request
  <2> QED BY <2>1, <2>2, <2>3, <2>4
<1> QED BY <1>2, <1>3 DEF SteadyInv, Finds

\* The list of the file has all of them.
LEMMA SteadyList ==
    ASSUME IInv, SteadyInv, GetFileMirrors
    PROVE  SteadyInv'
<1>1. PICK view \in {Now, cached} : \E ids \in SetToSeqs(view.holders) :
          req' = [req EXCEPT !.at = IF ids = <<>> THEN "select" ELSE "mirror", !.todo = ids]
  BY DEF GetFileMirrors
<1>2. PICK ids \in SetToSeqs(view.holders) :
          req' = [req EXCEPT !.at = IF ids = <<>> THEN "select" ELSE "mirror", !.todo = ids]
  BY <1>1
<1>3. Handles /\ req \in Request
  BY DEF GetFileMirrors, Handles, IInv, Typed
<1>4. SteadyViews' /\ UNCHANGED <<changed, info>>
  BY <1>3, ViewsKept
<1>5. IsFiniteSet(view.holders)
  <2>1. view \in View
    BY ViewType DEF IInv
  <2>2. view.holders \subseteq Mirror
    BY <2>1 DEF View
  <2> QED BY <2>2, ServeAssumption, FS_Subset
<1>6. /\ ids \in Seq(view.holders)
      /\ \A m \in view.holders : \E j \in 1..Len(ids) : ids[j] = m
  BY <1>5, OrderOfSet
<1>7. req'.todo = ids /\ req'.at = IF ids = <<>> THEN "select" ELSE "mirror"
  BY <1>2, <1>3 DEF Request
<1>8. ASSUME NEW m \in Mirror \ changed PROVE Finds(m)'
  <2>1. \E j \in 1..Len(ids) : ids[j] = m
    BY <1>6, SteadyView
  <2>2. ids # <<>>
    BY <1>6, <2>1
  <2> QED BY <1>7, <2>1, <2>2 DEF Finds, IsAhead
<1> QED BY <1>4, <1>7, <1>8 DEF SteadyInv

\* The mirror at hand is there, enabled and up, if it does not change.
LEMMA SteadyMirror ==
    ASSUME IInv, SteadyInv, GetMirror
    PROVE  SteadyInv'
<1> DEFINE h == Head(req.todo)
<1>1. PICK view \in {Now, cached} :
          IF h \in view.record
          THEN req' = [req EXCEPT !.at = "info",
                         !.got = Append(@, [id |-> h, enabled |-> h \in view.enabled,
                                            up |-> h \in view.up, size |-> 0])]
          ELSE GivesUp
  BY DEF GetMirror, GivesUp
<1>2. Handles /\ req \in Request /\ req.at = "mirror"
  BY DEF GetMirror, Handles, IInv, Typed
<1>3. SteadyViews' /\ UNCHANGED <<changed, info>>
  BY <1>2, ViewsKept
<1>4. CASE h \notin view.record
  <2>1. req'.at = "select" /\ req'.missed
    BY <1>1, <1>2, <1>4 DEF GivesUp, Request
  <2> QED BY <1>3, <2>1 DEF SteadyInv, Finds
<1>5. CASE h \in view.record
  <2> DEFINE r == [id |-> h, enabled |-> h \in view.enabled, up |-> h \in view.up, size |-> 0]
             n == Len(req.got)
  <2>1. /\ req.todo \in Seq(Mirror) /\ req.todo # <<>> /\ req.got \in Seq(Read)
    BY <1>2 DEF IInv, Request, Ids, Reads, ReadsAhead
  <2>2. h = req.todo[1] /\ h \in Mirror
    BY <2>1
  <2>3. /\ r \in Read /\ (h \in view.enabled => r.enabled) /\ (h \in view.up => r.up)
    <3> HIDE DEF h
    <3>1. r \in Read
      BY <2>2 DEF Read
    <3>2. r.enabled = (h \in view.enabled) /\ r.up = (h \in view.up)
      OBVIOUS
    <3> QED BY <3>1, <3>2
  <2>4. req' = [req EXCEPT !.at = "info", !.got = Append(req.got, r)]
    BY <1>1, <1>5
  <2> HIDE DEF h, r
  <2>5. /\ Len(Append(req.got, r)) = n + 1 /\ n \in Nat
        /\ \A i \in 1..n : Append(req.got, r)[i] = req.got[i]
        /\ Append(req.got, r)[n + 1] = r
    BY <2>1, <2>3, AppendProperties
  <2>6. req'.at = "info" /\ req'.got = Append(req.got, r) /\ req'.todo = req.todo
    BY <1>2, <2>4 DEF Request
  <2>7. ASSUME NEW m \in Mirror \ changed PROVE Finds(m)'
    <3>1. CASE m = h
      <4>1. r.enabled /\ r.up
        BY <2>3, <3>1, SteadyView
      <4> QED BY <2>2, <2>5, <2>6, <3>1, <4>1 DEF Finds
    <3>2. CASE m # h
      <4>1. WasRead(m) \/ IsAhead(m)
        BY <1>2 DEF SteadyInv, Finds
      <4>2. CASE WasRead(m)
        <5>1. PICK i \in 1..n :
                 /\ req.got[i].id = m /\ req.got[i].enabled /\ req.got[i].up
                 /\ req.got[i].size = info[m]
          BY <4>2 DEF WasRead
        <5>2. i \in 1..(n + 1)
          BY <2>5
        <5>3. WasRead(m)'
          BY <1>3, <2>5, <2>6, <5>1, <5>2 DEF WasRead
        <5> QED BY <2>2, <2>6, <3>2, <5>3 DEF Finds
      <4>3. CASE IsAhead(m)
        <5>1. IsAhead(m)'
          BY <2>6, <4>3 DEF IsAhead
        <5> QED BY <2>2, <2>6, <3>2, <5>1 DEF Finds
      <4> QED BY <4>1, <4>2, <4>3
    <3> QED BY <3>1, <3>2
  <2> QED BY <1>3, <2>6, <2>7 DEF SteadyInv
<1> QED BY <1>4, <1>5

\* The size is the one the database has, wherever it is read.
LEMMA SteadyInfo ==
    ASSUME IInv, SteadyInv, GetFileInfo
    PROVE  SteadyInv'
<1> DEFINE rest == Tail(req.todo)
           n == Len(req.got)
           h == Head(req.todo)
<1>1. PICK view \in {Now, cached} :
          req' = [req EXCEPT !.at = IF rest = <<>> THEN "select" ELSE "mirror",
                             !.todo = rest,
                             !.got[n].size = view.info[h]]
  BY DEF GetFileInfo
<1>2. Handles /\ req.at = "info"
  BY DEF GetFileInfo, Handles
<1>3. /\ req \in Request /\ req.todo \in Seq(Mirror) /\ req.todo # <<>>
      /\ req.got \in Seq(Read) /\ req.got # <<>> /\ req.got[n].id = req.todo[1]
  BY <1>2 DEF IInv, Typed, Request, Ids, Reads, ReadsAhead
<1>4. SteadyViews' /\ UNCHANGED <<changed, info>>
  BY <1>2, ViewsKept
<1>5. /\ h = req.todo[1] /\ rest \in Seq(Mirror) /\ Len(rest) = Len(req.todo) - 1
      /\ \A j \in 1..Len(rest) : rest[j] = req.todo[j + 1]
      /\ Len(req.todo) \in Nat
  BY <1>3, HeadTailProperties
<1> DEFINE got == [req.got EXCEPT ![n].size = view.info[h]]
<1>6. /\ Len(got) = n /\ n \in 1..n
      /\ \A i \in 1..n : i # n => got[i] = req.got[i]
      /\ got[n].id = req.got[n].id /\ got[n].enabled = req.got[n].enabled
      /\ got[n].up = req.got[n].up /\ got[n].size = view.info[h]
  <2>1. n \in Nat /\ n \in 1..n /\ req.got[n] \in Read
    BY <1>3
  <2> DEFINE r == [req.got[n] EXCEPT !.size = view.info[h]]
  <2>2. /\ r.id = req.got[n].id /\ r.enabled = req.got[n].enabled
        /\ r.up = req.got[n].up /\ r.size = view.info[h]
    <3> HIDE DEF h, n
    <3> QED BY <2>1 DEF Read
  <2>3. got = [req.got EXCEPT ![n] = r]
    OBVIOUS
  <2> HIDE DEF got, r
  <2>4. got[n] = r /\ Len(got) = n /\ \A i \in 1..n : i # n => got[i] = req.got[i]
    BY <1>3, <2>1, <2>3
  <2> QED BY <2>1, <2>2, <2>4
<1>7. /\ req'.got = got /\ req'.todo = rest
      /\ req'.at = IF rest = <<>> THEN "select" ELSE "mirror"
  BY <1>1, <1>3 DEF Request
<1> HIDE DEF got, rest, n, h
<1>8. ASSUME NEW m \in Mirror \ changed PROVE WasRead(m)' \/ IsAhead(m)'
  <2>1. CASE m = req.todo[1]
    <3>1. req.got[n].enabled /\ req.got[n].up
      BY <1>2, <2>1 DEF SteadyInv, Finds, n
    <3>2. view.info[h] = info[m]
      BY <1>5, <2>1, SteadyView
    <3>3. WasRead(m)'
      BY <1>3, <1>4, <1>6, <1>7, <2>1, <3>1, <3>2 DEF WasRead
    <3> QED BY <3>3
  <2>2. CASE m # req.todo[1]
    <3>1. WasRead(m) \/ IsAhead(m)
      BY <1>2, <2>2 DEF SteadyInv, Finds
    <3>2. CASE WasRead(m)
      <4>1. PICK i \in 1..n :
               /\ req.got[i].id = m /\ req.got[i].enabled /\ req.got[i].up
               /\ req.got[i].size = info[m]
        BY <3>2 DEF WasRead, n
      <4>2. i # n
        BY <1>3, <2>2, <4>1
      <4> QED BY <1>4, <1>6, <1>7, <4>1, <4>2 DEF WasRead
    <3>3. CASE IsAhead(m)
      <4>1. PICK j \in 1..Len(req.todo) : req.todo[j] = m
        BY <3>3 DEF IsAhead
      <4>2. j # 1
        BY <2>2, <4>1
      <4>3. j - 1 \in 1..Len(rest) /\ (j - 1) + 1 = j
        BY <1>5, <4>2
      <4>4. rest[j - 1] = m
        BY <1>5, <4>1, <4>3
      <4> QED BY <1>7, <4>3, <4>4 DEF IsAhead
    <3> QED BY <3>1, <3>2, <3>3
  <2> QED BY <2>1, <2>2
<1>9. rest = <<>> => \A m : ~IsAhead(m)'
  BY <1>7 DEF IsAhead
<1> QED BY <1>4, <1>7, <1>8, <1>9 DEF SteadyInv, Finds

LEMMA SteadyChange ==
    ASSUME IInv, SteadyInv, NEW m \in Mirror, SetState(m) \/ RemoveMirror(m) \/ Scan(m)
    PROVE  SteadyInv'
<1>1. /\ changed' = changed \cup {m} /\ req' = req /\ cached' = cached
  BY DEF SetState, RemoveMirror, Scan, Change, configVars
<1>2. info \in [Mirror -> Size \cup {0}]
  BY DEF IInv, Typed, TypeOK
<1>3. ASSUME NEW q \in Mirror, q # m
      PROVE  /\ q \in record' <=> q \in record
             /\ q \in enabled' <=> q \in enabled
             /\ q \in up' <=> q \in up
             /\ q \in holders' <=> q \in holders
             /\ info'[q] = info[q]
  <2>1. CASE SetState(m)
    BY <1>3, <2>1 DEF SetState, Toggle
  <2>2. CASE RemoveMirror(m)
    BY <1>2, <1>3, <2>2 DEF RemoveMirror
  <2>3. CASE Scan(m)
    BY <1>2, <1>3, <2>3 DEF Scan
  <2> QED BY <2>1, <2>2, <2>3
<1>4. SteadyViews'
  BY <1>1, <1>3 DEF SteadyInv, SteadyViews
<1>5. ASSUME NEW q \in Mirror \ changed' PROVE Finds(q)'
  <2>1. Finds(q) /\ info'[q] = info[q]
    BY <1>1, <1>3 DEF SteadyInv
  <2> QED BY <1>1, <2>1 DEF Finds, WasRead, IsAhead
<1> QED BY <1>1, <1>4, <1>5 DEF SteadyInv

LEMMA SteadyAlways == Spec => []SteadyInv
<1>1. IInv /\ SteadyInv /\ [Next]_vars => SteadyInv'
  <2> SUFFICES ASSUME IInv, SteadyInv, [Next]_vars PROVE SteadyInv'
    OBVIOUS
  <2>1. CASE Next
    BY <2>1, SteadyRest, SteadyStats, SteadyList, SteadyMirror, SteadyInfo, SteadyChange
       DEF Next
  <2>2. CASE UNCHANGED vars
    BY <2>2 DEF SteadyInv, SteadyViews, Finds, WasRead, IsAhead, vars, configVars, mirrorVars
  <2> QED BY <2>1, <2>2
<1>2. Init => SteadyInv
  BY SteadyStart
<1> QED BY <1>1, <1>2, ServeInvariant, PTL DEF Spec

\* The filter of Selection keeps what it should.
LEMMA SteadySelected ==
    ASSUME IInv, SteadyInv, req.at = "done", req.kind # "mirrorstats", req.path = "version",
           ~req.missed, NEW m \in Steady, info[m] = req.got[1].size
    PROVE  m \in Selected
<1>1. m \in Mirror \ changed
  BY DEF Steady
<1>2. PICK i \in 1..Len(req.got) :
          /\ req.got[i].id = m /\ req.got[i].enabled /\ req.got[i].up
          /\ req.got[i].size = info[m]
  BY <1>1 DEF SteadyInv, Finds, WasRead
<1>3. req.got[i] \in Range(req.got)
  BY MembersOfSeq DEF IInv, Typed, Request, Reads
<1>4. Admits(m, req.valid)
  BY DEF Steady, Admits
<1>5. Kept(req.got[i], req.got[1])
  BY <1>2, <1>4 DEF Kept
<1> QED BY <1>2, <1>3, <1>5 DEF Selected

\* A mirror that could serve the client while mirrorHandler read the mirrors, one by
\* one, is passed over only for as many others as an answer has, and not for one of
\* another country.
THEOREM ServeNonePassedOver == Spec => []NonePassedOver
<1>1. IInv /\ SteadyInv => NonePassedOver
  <2> SUFFICES ASSUME IInv, SteadyInv, req.at = "done", req.kind # "mirrorstats",
                      req.path = "version", ~req.missed,
                      NEW m \in Steady, info[m] = req.got[1].size
               PROVE  /\ m \in Offered \/ Cardinality(Offered) = Limit
                      /\ req.valid /\ profile[m].home =>
                            /\ profile[req.list[1]].home
                            /\ m \notin Offered => \A n \in Offered : profile[n].home
    BY DEF NonePassedOver
  <2>1. m \in Selected
    BY SteadySelected
  <2>2. Offered # {}
    <3>1. PICK l \in Orders(Selected) : req.list = FirstOf(l)
      BY <2>1 DEF IInv, Answered
    <3>2. Selected \subseteq Mirror /\ IsFiniteSet(Selected)
      BY SelectedType DEF IInv, Typed
    <3>3. l \in Seq(Selected) /\ \A x \in Selected : \E i \in 1..Len(l) : l[i] = x
      BY <3>2, OrderOfSet DEF Orders
    <3>4. Len(l) \in Nat /\ Len(l) # 0 /\ Limit \in Nat \ {0}
      BY <2>1, <3>3, ServeAssumption
    <3>5. req.list \in Seq(Selected) /\ Len(req.list) # 0
      BY <3>1, <3>3, <3>4, HeadOfOrder
    <3>6. req.list[1] \in Selected /\ req.list[1] \in Range(req.list)
      BY <3>5, MembersOfSeq
    <3> QED BY <3>2, <3>6 DEF Offered
  <2>3. PICK l \in Seq(Selected), k \in Nat :
            /\ \A x \in Selected : \E i \in 1..Len(l) : l[i] = x
            /\ \A i, j \in 1..Len(l) : l[i] = l[j] => i = j
            /\ req.valid => Sorted(l, Less)
            /\ Len(l) = Cardinality(Selected)
            /\ k = IF Len(l) <= Limit THEN Len(l) ELSE Limit
            /\ Len(req.list) = k
            /\ \A i \in 1..k : req.list[i] = l[i]
            /\ Offered = {l[i] : i \in 1..k}
    BY <2>2, OfferedFirst
  <2>4. Limit \in Nat \ {0} /\ Len(l) \in Nat /\ k <= Len(l)
    BY <2>3, ServeAssumption
  <2>5. PICK j \in 1..Len(l) : l[j] = m
    BY <2>1, <2>3
  <2>6. m \in Offered \/ Cardinality(Offered) = Limit
    <3>1. Cardinality(Offered) = k
      BY <2>3, <2>4, CountFirst
    <3>2. k = Len(l) => m \in Offered
      BY <2>3, <2>5
    <3> QED BY <2>3, <2>4, <3>1, <3>2
  <2>7. ASSUME req.valid, profile[m].home, NEW i \in 1..Len(l), i <= j
        PROVE  profile[l[i]].home
    <3>1. CASE i = j
      BY <2>5, <2>7, <3>1
    <3>2. CASE i < j
      <4>1. ~Less(m, l[i])
        BY <2>3, <2>5, <2>7, <3>2 DEF Sorted
      <4> QED BY <2>7, <4>1 DEF Less
    <3> QED BY <2>4, <2>7, <3>1, <3>2
  <2>8. ASSUME req.valid, profile[m].home
        PROVE  profile[req.list[1]].home
    <3>1. 1 \in 1..k /\ 1 \in 1..Len(l) /\ 1 <= j
      BY <2>3, <2>4, <2>5
    <3> QED BY <2>3, <2>7, <2>8, <3>1
  <2>9. ASSUME req.valid, profile[m].home, m \notin Offered, NEW n \in Offered
        PROVE  profile[n].home
    <3>1. PICK i \in 1..k : l[i] = n
      BY <2>3
    <3>2. j \notin 1..k
      BY <2>3, <2>5, <2>9
    <3>3. i \in 1..Len(l) /\ i <= j
      BY <2>4, <3>2
    <3> QED BY <2>7, <2>9, <3>1, <3>3
  <2> QED BY <2>6, <2>8, <2>9
<1> QED BY <1>1, ServeInvariant, SteadyAlways, PTL

=============================================================================
