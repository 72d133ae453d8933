------------------------------- MODULE Serve -------------------------------
(***************************************************************************)
(* A request to the HTTP server: mirrorHandler, mirrorSelector and         *)
(* mirrorStatsHandler of http/http.go, the selection of http/selection.go  *)
(* and the order of mirrors/mirrors.go, while the mirrors change: they are *)
(* enabled and disabled, go up and down, are scanned and removed.          *)
(*                                                                         *)
(* The handler reads the list of mirrors of the file, then each mirror and *)
(* what it knows of the file on that mirror, one at a time, each from the  *)
(* database or from the cache, which may still hold what was there before  *)
(* the changes (see Cache).  Countries, distances and other data of a      *)
(* mirror are reduced to the tests the selection makes of them for the     *)
(* client of the request, and a counter of downloads to the mirror it is   *)
(* about.                                                                  *)
(***************************************************************************)
EXTENDS Naturals, Sequences, FiniteSetsExt, SequencesExt

CONSTANTS
    Mirror,
    Profile,       \* what the mirrors may look like to the client
    Fallback,      \* the fallbacks of a configuration that has some
    Rank,          \* 0: in the country of the client, 1: in its continent, 2: elsewhere
    Size,          \* sizes of the file on a mirror
    Limit,         \* how many mirrors an answer has (5)
    MaxChange      \* bound on the changes of the mirrors

\* home: the first country of the mirror is the client's.  serves: no restriction
\* to a continent, a country or an AS, and no excluded country, for "all"; one the
\* client meets, one the client does not meet, the client's country is excluded,
\* or not http at all.
ASSUME ServeAssumption ==
    /\ Profile \subseteq [home : BOOLEAN, score : Nat, distance : Nat,
                          serves : {"all", "met", "unmet", "excluded", "none"}]
    /\ IsFiniteSet(Mirror) /\ IsFiniteSet(Fallback) /\ Fallback \cap Mirror = {}
    /\ Rank \in [Fallback -> 0..2]
    /\ Size \subseteq Nat \ {0}
    /\ Limit \in Nat \ {0} /\ MaxChange \in Nat

VARIABLES
    profile,    \* of each mirror
    record,     \* the mirrors that have a hash MIRROR_<id>
    enabled, up,
    holders,    \* FILEMIRRORS of the file that stands for the version
    info,       \* size in FILEINFO_<id>, 0 when there is none
    cached,     \* what the cache may still answer
    fallbacks,  \* of the configuration
    changed,    \* history: the mirrors that changed since the request arrived
    changes,
    req         \* the request

mirrorVars == <<record, enabled, up, holders, info, changed>>
configVars == <<profile, cached, fallbacks>>
vars == <<configVars, mirrorVars, changes, req>>

Path == {"root", "outside", "absent", "other", "version"}

\* STANDARD and MIRRORLIST differ in how the answer is written and counted.
Kind == {"standard", "mirrorstats"}

\* What GetMirrors returns of a mirror.
Read == [id : Mirror, enabled : BOOLEAN, up : BOOLEAN, size : Size \cup {0}]

\* A line of the statistics; aligned is history: every mirror before it could be read.
Line == [id : Mirror, counter : Mirror, aligned : BOOLEAN]

\* What the database holds.
Now == [record |-> record, enabled |-> enabled, up |-> up, holders |-> holders, info |-> info]

TypeOK ==
    /\ profile \in [Mirror -> Profile]
    /\ record \subseteq Mirror /\ enabled \subseteq Mirror /\ up \subseteq Mirror
    /\ holders \subseteq Mirror /\ info \in [Mirror -> Size \cup {0}]
    /\ fallbacks \subseteq Fallback /\ changed \subseteq Mirror
    /\ changes \in 0..MaxChange
    /\ req.at \in {"new", "list", "mirror", "info", "select", "stats", "lines", "done"}
    /\ req.path \in Path /\ req.kind \in Kind /\ req.valid \in BOOLEAN
    /\ req.todo \in Seq(Mirror) /\ req.got \in Seq(Read)
    /\ req.status \in {0, 200, 302, 403, 404, 500, 503}
    /\ req.list \in Seq(Mirror \cup Fallback)
    /\ req.stats \in Seq(Mirror) /\ req.lines \in Seq(Line)
    /\ req.missed \in BOOLEAN

\* valid: the location of the client is known.
NewRequest(kind, path, valid) ==
    [at |-> "new", kind |-> kind, path |-> path, valid |-> valid, todo |-> <<>>,
     got |-> <<>>, status |-> 0, list |-> <<>>, stats |-> <<>>, lines |-> <<>>,
     missed |-> FALSE]

\* Mirrors with the file, enabled and up, and a request that arrives; one for the
\* statistics has no path, and its client does not matter.
Init ==
    /\ profile \in [Mirror -> Profile]
    /\ record = Mirror /\ enabled = Mirror /\ up = Mirror
    /\ holders = Mirror
    /\ info \in [Mirror -> Size]
    /\ cached = Now
    /\ fallbacks \in {{}, Fallback}
    /\ changed = {} /\ changes = 0
    /\ \E kind \in Kind, path \in Path, valid \in BOOLEAN :
            /\ kind = "mirrorstats" => path = "root" /\ valid
            /\ req = NewRequest(kind, path, valid)

-----------------------------------------------------------------------------
(* The selection                                                           *)

Admits(m, valid) ==
    CASE profile[m].serves = "all" -> TRUE
      [] profile[m].serves = "met" -> valid
      [] profile[m].serves = "excluded" -> ~valid
      [] OTHER -> FALSE

\* Mutant: the size is not compared.
KeptAnySize(r, reference) == r.enabled /\ r.up /\ Admits(r.id, req.valid)

\* The filter of Selection; fileInfo is what the first mirror read has.  (The times
\* of the file are always zero, and then not compared: fetchFileInfoMirror parses
\* another format than the one ScannerAddFile stores.)
Kept(r, reference) ==
    /\ r.enabled /\ r.up
    /\ r.size = reference.size
    /\ Admits(r.id, req.valid)

\* Mutant: the score of the mirror outweighs the country.
LessScoreFirst(a, b) ==
    \/ profile[a].score > profile[b].score
    \/ /\ profile[a].score = profile[b].score
       /\ \/ profile[a].home /\ ~profile[b].home
          \/ profile[a].home = profile[b].home /\ profile[a].distance < profile[b].distance

\* ByComputedScore: the country of the client, the score, the distance.
Less(a, b) ==
    \/ profile[a].home /\ ~profile[b].home
    \/ /\ profile[a].home = profile[b].home
       /\ \/ profile[a].score > profile[b].score
          \/ profile[a].score = profile[b].score /\ profile[a].distance < profile[b].distance

Sorted(l, less(_, _)) == \A i, j \in DOMAIN l : i < j => ~less(l[j], l[i])

\* The results of sort.Sort, which is not stable, or of the shuffle.
Orders(S) == {l \in SetToSeqs(S) : req.valid => Sorted(l, Less)}

\* ByRank among fallbacks; its answers are random when the client is unknown.
FallbackLess(a, b) == Rank[a] < Rank[b]
FallbackOrders == {l \in SetToSeqs(fallbacks) : req.valid => Sorted(l, FallbackLess)}

FirstOf(l) == SubSeq(l, 1, Min({Len(l), Limit}))

-----------------------------------------------------------------------------
(* mirrorHandler                                                           *)

Answer(status, list) ==
    req' = [req EXCEPT !.at = "done", !.status = status, !.list = list]

\* The path is evaluated: the root (the list of versions, for which a redirect
\* finds no mirror), an error, or a file of the repository, which is a version or
\* has no mirrors of its own.
Evaluate ==
    /\ req.at = "new" /\ req.kind # "mirrorstats"
    /\ \/ req.path = "root" /\ \E s \in {200, 404} : Answer(s, <<>>)
       \/ req.path = "outside" /\ Answer(403, <<>>)
       \/ req.path = "absent" /\ Answer(404, <<>>)
       \/ req.path = "other" /\ req' = [req EXCEPT !.at = "select"]
       \/ req.path = "version" /\ req' = [req EXCEPT !.at = "list"]
    /\ UNCHANGED <<configVars, mirrorVars, changes>>

\* GetMirrors: the ids of the file, in any order.
GetFileMirrors ==
    /\ req.at = "list"
    /\ \E view \in {Now, cached} : \E ids \in SetToSeqs(view.holders) :
            req' = [req EXCEPT !.at = IF ids = <<>> THEN "select" ELSE "mirror",
                               !.todo = ids]
    /\ UNCHANGED <<configVars, mirrorVars, changes>>

\* Then each of them; the list is given up at the first one that does not exist.
GetMirror ==
    /\ req.at = "mirror"
    /\ \E view \in {Now, cached} :
        LET m == Head(req.todo)
        IN IF m \in view.record
           THEN req' = [req EXCEPT !.at = "info",
                          !.got = Append(@, [id |-> m, enabled |-> m \in view.enabled,
                                             up |-> m \in view.up, size |-> 0])]
           ELSE req' = [req EXCEPT !.at = "select", !.got = <<>>, !.missed = TRUE]
    /\ UNCHANGED <<configVars, mirrorVars, changes>>

\* A missing FILEINFO is a size of 0.
GetFileInfo ==
    /\ req.at = "info"
    /\ \E view \in {Now, cached} :
        LET rest == Tail(req.todo)
        IN req' = [req EXCEPT !.at = IF rest = <<>> THEN "select" ELSE "mirror",
                              !.todo = rest,
                              !.got[Len(req.got)].size = view.info[Head(req.todo)]]
    /\ UNCHANGED <<configVars, mirrorVars, changes>>

\* A read that the database does not answer ends GetMirrors with its error.
ReadFails ==
    /\ req.at \in {"list", "mirror", "info"}
    /\ req' = [req EXCEPT !.at = "select", !.got = <<>>, !.missed = TRUE]
    /\ UNCHANGED <<configVars, mirrorVars, changes>>

Selected == {r.id : r \in {x \in Range(req.got) : Kept(x, req.got[1])}}

\* Selection and the rest of mirrorHandler: the mirrors selected, the fallbacks
\* when there is none, or an error.  (302 stands for the page of a mirrorlist and
\* for JSON too; a download is counted for the first mirror of the list.)
Select ==
    /\ req.at = "select"
    /\ IF Selected # {}
       THEN \E l \in Orders(Selected) : Answer(302, FirstOf(l))
       ELSE IF fallbacks = {} THEN Answer(503, <<>>)
       ELSE \E l \in FallbackOrders : Answer(302, FirstOf(l))
    /\ UNCHANGED <<configVars, mirrorVars, changes>>

-----------------------------------------------------------------------------
(* mirrorStatsHandler                                                      *)

\* GetListOfMirrors.
StatsList ==
    /\ req.at = "new" /\ req.kind = "mirrorstats"
    /\ \E ids \in SetToSeqs(record) : req' = [req EXCEPT !.at = "stats", !.todo = ids]
    /\ UNCHANGED <<configVars, mirrorVars, changes>>

\* One transaction reads the counters of all of them.
StatsRead ==
    /\ req.at = "stats"
    /\ req' = [req EXCEPT !.at = IF req.todo = <<>> THEN "done" ELSE "lines",
                          !.stats = req.todo]
    /\ UNCHANGED <<configVars, mirrorVars, changes>>

\* Either fails, and the page is an error.
StatsFails ==
    /\ req.kind = "mirrorstats" /\ req.at \in {"new", "stats"}
    /\ Answer(500, <<>>)
    /\ UNCHANGED <<configVars, mirrorVars, changes>>

\* The mirror at hand is done; its line has the counters left at index.
NextMirror == [req EXCEPT !.todo = Tail(@),
                          !.at = IF Tail(req.todo) = <<>> THEN "done" ELSE "lines"]
AddLine ==
    [NextMirror EXCEPT
        !.lines = Append(@, [id |-> Head(req.todo), counter |-> Head(req.stats),
                             aligned |-> ~req.missed])]

\* Mutant: the index is not advanced.
StatsLineStays ==
    /\ req.at = "lines"
    /\ \/ req' = AddLine
       \/ req' = [NextMirror EXCEPT !.missed = TRUE]
    /\ UNCHANGED <<configVars, mirrorVars, changes>>

\* A line for each mirror that can be read, from the cache or from the database.  For
\* one that is gone, or whose read fails, the counters are not skipped.
StatsLine ==
    /\ req.at = "lines"
    /\ \/ /\ \E view \in {Now, cached} : Head(req.todo) \in view.record
          /\ req' = [AddLine EXCEPT !.stats = Tail(@)]
       \/ req' = [NextMirror EXCEPT !.missed = TRUE]
    /\ UNCHANGED <<configVars, mirrorVars, changes>>

-----------------------------------------------------------------------------
(* The mirrors, meanwhile                                                  *)

Change(m) ==
    /\ changes < MaxChange
    /\ changes' = changes + 1
    /\ changed' = changed \cup {m}

Toggle(S, m) == IF m \in S THEN S \ {m} ELSE S \cup {m}

\* SetMirrorEnabled, SetMirrorState.
SetState(m) ==
    /\ Change(m)
    /\ \/ enabled' = Toggle(enabled, m) /\ UNCHANGED up
       \/ up' = Toggle(up, m) /\ UNCHANGED enabled
    /\ UNCHANGED <<configVars, record, holders, info, req>>

\* RemoveMirror
RemoveMirror(m) ==
    /\ Change(m)
    /\ m \in record
    /\ record' = record \ {m}
    /\ holders' = holders \ {m}
    /\ info' = [info EXCEPT ![m] = 0]
    /\ UNCHANGED <<configVars, enabled, up, req>>

\* A scan finds the file, or no longer; it may end after the mirror is removed.
Scan(m) ==
    /\ Change(m)
    /\ \/ /\ holders' = holders \cup {m}
          /\ \E s \in Size : info' = [info EXCEPT ![m] = s]
       \/ /\ holders' = holders \ {m}
          /\ info' = [info EXCEPT ![m] = 0]
    /\ UNCHANGED <<configVars, record, enabled, up, req>>

\* A change outside these moments has the same effect as one next to them.
Reading == req.at \in {"list", "mirror", "info", "stats", "lines"}

Next ==
    \/ Evaluate \/ GetFileMirrors \/ GetMirror \/ GetFileInfo \/ ReadFails \/ Select
    \/ StatsList \/ StatsRead \/ StatsFails \/ StatsLine
    \/ Reading /\ \E m \in Mirror : SetState(m) \/ RemoveMirror(m) \/ Scan(m)

Spec == Init /\ [][Next]_vars

-----------------------------------------------------------------------------
(* Properties                                                              *)

Offered == Range(req.list) \cap Mirror
SizeRead(m) == (CHOOSE r \in Range(req.got) : r.id = m).size

\* The mirrors of one answer, which the Link headers call duplicates of the one the
\* client is sent to, were all read with the same size of the file, and were all
\* enabled and up, whatever changed while they were read.
DuplicatesAgree ==
    \A m, n \in Offered : SizeRead(m) = SizeRead(n)
                          /\ \A r \in Range(req.got) : r.id = m => r.enabled /\ r.up

\* The mirrors that could serve the client all the time the request took: they had
\* the file, were enabled and up, and no restriction of theirs keeps the client out.
Steady ==
    {m \in Mirror \ changed :
        profile[m].serves \in IF req.valid THEN {"all", "met"} ELSE {"all", "excluded"}}

\* A mirror that could serve the client all the time is passed over only for as many
\* others as an answer has, and a client is not sent abroad when its own country has
\* such a mirror; whatever changes, in any order, between the reads, and whatever the
\* cache answers.  Two things do pass it over: the list is given up because another
\* mirror was removed or a read failed; and the mirror that happened to be first has
\* the file with another size, which the filter takes for that of the source.
NonePassedOver ==
    req.at = "done" /\ req.kind # "mirrorstats" /\ req.path = "version" /\ ~req.missed =>
        \A m \in Steady : info[m] = req.got[1].size =>
            /\ m \in Offered \/ Cardinality(Offered) = Limit
            /\ req.valid /\ profile[m].home =>
                    /\ profile[req.list[1]].home
                    /\ m \notin Offered => \A n \in Offered : profile[n].home

\* The page of statistics gives a mirror its own downloads as long as every mirror
\* before it could be read.  The lines after one that was removed, or whose read
\* failed, have the downloads of mirrors before them; but even then no downloads are
\* shown twice.
OwnStatistics ==
    /\ \A l \in Range(req.lines) : l.aligned => l.counter = l.id
    /\ \A i, j \in DOMAIN req.lines : req.lines[i].counter = req.lines[j].counter => i = j

=============================================================================
