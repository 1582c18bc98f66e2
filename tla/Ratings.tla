------------------------------- MODULE Ratings -------------------------------
(***************************************************************************)
(* The log of model calls and ratings, and the fold of it that is kept for *)
(* the next start: internal/stats.                                         *)
(*                                                                         *)
(* Every process appends the calls of its turns and the ratings a person   *)
(* gives them.  A rating counts for every call of its turn.  The fold is   *)
(* kept beside the log with the place it was taken at, and the next one    *)
(* reads only what was appended since, unless that could change the        *)
(* answer.  Nothing is locked.                                             *)
(*                                                                         *)
(* A record is two halves: a reader may see the first while the other is   *)
(* being written, and a crash or a full disk leaves it alone, to be joined *)
(* by the next record into a line that is not one.  Models are left out:   *)
(* the answer is how often each turn counts, and with which rating.        *)
(***************************************************************************)
EXTENDS Integers, Sequences, FiniteSets, FiniteSetsExt

CONSTANTS
    Kolks,      \* processes that append and fold
    Turns,      \* turns, which calls and ratings name
    Stars,      \* what a turn may be rated
    MaxLog,     \* bound of the model: records appended
    MaxFolds,   \* bound of the model: folds
    MaxDeletes  \* bound of the model: how often the log is deleted

ASSUME RatingBoundsAssumption == {MaxLog, MaxFolds, MaxDeletes} \subseteq Nat
ASSUME StarsAssumption == Stars \subseteq 1..5

VARIABLES
    stats,      \* stats.jsonl, in halves
    born,       \* which log this is: with the size, its time of modification
    cache,      \* ratings.json
    doing,      \* doing[k]: an append or a fold, and how far it is
    truth,      \* history: the answers that were right since k began to fold
    astray,     \* history: what RatingsTrue does not cover has happened
    spent       \* bound of the model: records, folds, deletions

ratingVars == <<stats, born, cache, doing, truth, astray, spent>>

NoCache == [offset |-> -1, size |-> 0, born |-> 0, answer |-> <<>>]
AtRest  == [at |-> "rest", record |-> <<>>, size |-> 0, born |-> 0, cache |-> NoCache]

Spends(b) == spent' = [spent EXCEPT ![b] = @ + 1]
To(k, at) == doing' = [doing EXCEPT ![k].at = at]

-----------------------------------------------------------------------------
(* Reading.                                                                 *)

Records == [kind : {"call"}, turn : Turns, stars : {0}]
           \cup [kind : {"rating"}, turn : Turns, stars : Stars]

First(r)  == [record |-> r, half |-> 1]
Second(r) == [record |-> r, half |-> 2]

(* The records a reader finds that starts after the first n halves: those   *)
(* that begin a line and are whole.                                         *)
Whole(s, n) ==
    {i \in (n + 1)..(Len(s) - 1) :
        /\ s[i].half = 1 /\ s[i + 1].half = 2
        /\ i = n + 1 \/ s[i - 1].half = 2}

(* Only a line that ended is consumed.                                      *)
Consumed(s, n) == Max({n} \cup {i \in (n + 1)..Len(s) : s[i].half = 2})

Of(s, kind, t) ==
    {i \in Whole(s, 0) : s[i].record.kind = kind /\ s[i].record.turn = t}

(* Aggregate: the last rating of a turn, for each of its calls.             *)
Rated(s) == {t \in Turns : Of(s, "rating", t) # {}}
Answer(s) ==
    [t \in Rated(s) |->
        [stars |-> s[Max(Of(s, "rating", t))].record.stars,
         calls |-> Cardinality(Of(s, "call", t))]]

-----------------------------------------------------------------------------
(* Append.                                                                  *)

(* What is right from now on, for those who are folding.                    *)
Folding(k) == doing[k].at \in {"cached", "extend", "rebuild", "save", "told"}
Right == truth' = [k \in Kolks |-> IF Folding(k) THEN truth[k] \cup {Answer(stats')}
                                   ELSE truth[k]]

(* One write at a time goes into a file.                                    *)
Begins(k, r) ==
    /\ doing[k].at = "rest" /\ spent.records < MaxLog
    /\ \A j \in Kolks : doing[j].at # "writing"
    /\ Spends("records")
    /\ stats' = Append(stats, First(r))
    /\ doing' = [doing EXCEPT ![k] = [AtRest EXCEPT !.at = "writing", !.record = r]]
    /\ Right
    /\ UNCHANGED <<born, cache, astray>>

Completes(k) ==
    /\ doing[k].at = "writing"
    /\ stats' = Append(stats, Second(doing[k].record))
    /\ doing' = [doing EXCEPT ![k] = IF @.record.kind = "rating" THEN [@ EXCEPT !.at = "drop"]
                                     ELSE AtRest]
    /\ Right
    /\ UNCHANGED <<born, cache, astray, spent>>

(* A crash, or a disk that is full.                                         *)
Tears(k) ==
    /\ doing[k].at = "writing"
    /\ doing' = [doing EXCEPT ![k] = AtRest]
    /\ UNCHANGED <<stats, born, cache, truth, astray, spent>>

(* invalidateRatingsCache.                                                  *)
Drop(k) ==
    /\ doing[k].at = "drop"
    /\ cache' = NoCache
    /\ doing' = [doing EXCEPT ![k] = AtRest]
    /\ UNCHANGED <<stats, born, truth, astray, spent>>

(* "grep it, jq it, back it up, or delete it"                               *)
Delete ==
    /\ stats # <<>> /\ spent.deletes < MaxDeletes
    /\ \A k \in Kolks : doing[k].at # "writing"
    /\ Spends("deletes")
    /\ stats' = <<>> /\ born' = born + 1
    /\ Right
    /\ UNCHANGED <<cache, doing, astray>>

-----------------------------------------------------------------------------
(* RatingsByModelFold.                                                      *)

Stat(k) ==
    /\ doing[k].at = "rest" /\ spent.folds < MaxFolds
    /\ Spends("folds")
    /\ truth' = [truth EXCEPT ![k] = {Answer(stats)}]
    /\ doing' = [doing EXCEPT ![k] =
          [AtRest EXCEPT !.at = IF stats = <<>> THEN "told" ELSE "cached",
                         !.size = Len(stats), !.born = born]]
    /\ UNCHANGED <<stats, born, cache, astray>>

Matches(k, c) == c.offset = doing[k].size /\ c.size = doing[k].size /\ c.born = doing[k].born

CanExtend(k, c) == c.offset > 0 /\ doing[k].size > c.offset

LoadCache(k) ==
    /\ doing[k].at = "cached"
    /\ doing' = [doing EXCEPT
          ![k].cache = cache,
          ![k].at = IF Matches(k, cache) THEN "told"
                    ELSE IF CanExtend(k, cache) THEN "extend" ELSE "rebuild"]
    /\ UNCHANGED <<stats, born, cache, truth, astray, spent>>

(* Mutant: a call of a rated turn is taken for one that changes nothing.    *)
RatingsOnly(c, r) == r.kind = "rating"

Changes(c, r) == r.kind = "rating" \/ r.turn \in DOMAIN c.answer

(* A cache of a deleted log that this one has outgrown is extended too.     *)
Extend(k) ==
    LET c == doing[k].cache
        n == c.offset
    IN  /\ doing[k].at = "extend"
        /\ IF stats = <<>> \/ \E i \in Whole(stats, n) : Changes(c, stats[i].record)
           THEN To(k, "rebuild") /\ UNCHANGED astray
           ELSE /\ doing' = [doing EXCEPT
                      ![k].at = "save",
                      ![k].cache = [c EXCEPT !.offset = Consumed(stats, n),
                                             !.size = doing[k].size, !.born = doing[k].born]]
                /\ astray' = (astray \/ c.born # born)
        /\ UNCHANGED <<stats, born, cache, truth, spent>>

Place(k) == doing[k].size

(* The place is in the middle of a record that was being written.           *)
StillWritten(n) ==
    /\ n \in 1..Len(stats) /\ stats[n].half = 1
    /\ IF n = Len(stats) THEN \E j \in Kolks : doing[j].at = "writing"
                         ELSE stats[n + 1].half = 2

Rebuild(k) ==
    /\ doing[k].at = "rebuild"
    /\ doing' = [doing EXCEPT
          ![k].at = "save",
          ![k].cache = [offset |-> Place(k), size |-> doing[k].size, born |-> doing[k].born,
                        answer |-> Answer(stats)]]
    /\ astray' = (astray \/ StillWritten(Place(k)))
    /\ UNCHANGED <<stats, born, cache, truth, spent>>

(* Best effort.                                                             *)
SaveCache(k, written) ==
    /\ doing[k].at = "save"
    /\ cache' = IF written THEN doing[k].cache ELSE cache
    /\ To(k, "told")
    /\ UNCHANGED <<stats, born, truth, astray, spent>>

Leave(k) ==
    /\ Folding(k)
    /\ doing' = [doing EXCEPT ![k] = AtRest] /\ truth' = [truth EXCEPT ![k] = {}]
    /\ UNCHANGED <<stats, born, cache, astray, spent>>

-----------------------------------------------------------------------------
RatingsInit ==
    /\ stats = <<>> /\ born = 0 /\ cache = NoCache
    /\ doing = [k \in Kolks |-> AtRest] /\ truth = [k \in Kolks |-> {}]
    /\ astray = FALSE
    /\ spent = [records |-> 0, folds |-> 0, deletes |-> 0]

RatingsNext ==
    \/ \E k \in Kolks :
         \/ Completes(k) \/ Tears(k) \/ Drop(k)
         \/ Stat(k) \/ LoadCache(k) \/ Extend(k) \/ Rebuild(k) \/ Leave(k)
         \/ \E r \in Records : Begins(k, r)
         \/ \E written \in BOOLEAN : SaveCache(k, written)
    \/ Delete

RatingsSpec == RatingsInit /\ [][RatingsNext]_ratingVars

-----------------------------------------------------------------------------
(* What a fold tells is what the whole log said at some moment since the    *)
(* fold began, whichever way it took and whatever others appended, dropped  *)
(* or saved meanwhile: a cache is never reused past a record that changes   *)
(* the answer ("what makes reusing it safe").                               *)
RatingsTrue ==
    ~astray => \A k \in Kolks : doing[k].at = "told" => doing[k].cache.answer \in truth[k]
=============================================================================
