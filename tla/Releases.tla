------------------------------- MODULE Releases -------------------------------
(***************************************************************************)
(* The release check (src/src/server/api/version.rs): the version that asb *)
(* runs, the newest release on GitHub kept in a cache with a time to live, *)
(* and the tile that offers an update (src/src/pages/overview.rs).  The    *)
(* cache is unlocked while GitHub is asked, so that requests overlap.      *)
(***************************************************************************)
EXTENDS Integers, Sequences, FiniteSets

CONSTANTS
  Readers,       \* requests of the page
  Tags,          \* what may be published, and run
  Absent,        \* no value
  CacheTtl,      \* CACHE_TTL
  FetchTimeout,  \* the longest that GitHub may take
  LastClock      \* bound on time

\* What a tag's name says: the numbers before any suffix, if it is a version.
Tag == [parts : Seq(Nat) \cup {Absent}, suffix : BOOLEAN]

ASSUME ReleasesAssumption ==
  /\ Tags \subseteq Tag /\ Absent \notin Tags
  /\ CacheTtl \in Nat /\ FetchTimeout \in Nat /\ LastClock \in Nat

VARIABLES
  clock,
  published,  \* when each tag was published
  running,    \* the tag of asb's image
  cache,      \* the newest release and when it was stored
  reader      \* what each request does

releasesVars == <<clock, published, running, cache, reader>>

Asking == [pc |-> "start", current |-> Absent, latest |-> Absent, asked |-> 0, failed |-> FALSE]

ReleasesInit ==
  /\ clock = 0
  /\ published \in [Tags -> {0, Absent}]
  /\ running \in {tag \in Tags : published[tag] # Absent}
  /\ cache = [data |-> Absent, at |-> 0]
  /\ reader = [r \in Readers |-> Asking]

Fetching == {r \in Readers : reader[r].pc \in {"fetch", "store"}}

\* Time passes, and a tag may be published in it; no fetch lasts longer than its
\* timeout.
TimePasses ==
  /\ clock < LastClock
  /\ \A r \in Fetching : clock < reader[r].asked + FetchTimeout
  /\ clock' = clock + 1
  /\ \/ UNCHANGED published
     \/ \E tag \in Tags :
          /\ published[tag] = Absent
          /\ published' = [published EXCEPT ![tag] = clock']
  /\ UNCHANGED <<running, cache, reader>>

-----------------------------------------------------------------------------
(* Versions                                                                *)

\* Number by number; of two that agree as far as they go, the longer is greater.
Less(a, b) ==
  \E i \in DOMAIN b :
    /\ \A j \in 1 .. i - 1 : j \in DOMAIN a /\ a[j] = b[j]
    /\ i \in DOMAIN a => a[i] < b[i]

compare_versions(current, latest) ==
  current # Absent /\ current.parts # Absent /\ Less(current.parts, latest.parts)

\* Slip: the release that came last.
LastOf(listed) ==
  {tag \in listed : tag.parts # Absent /\ \A other \in listed : published[other] <= published[tag]}

\* The greatest of the listed versions; the order of the list decides between
\* those that differ in the suffix only.
BestOf(listed) ==
  {tag \in listed : tag.parts # Absent /\ \A other \in listed :
     other.parts # Absent => ~Less(tag.parts, other.parts)}

-----------------------------------------------------------------------------
(* A request                                                               *)

Goes(r, changes) == reader' = [reader EXCEPT ![r] = changes]

\* Kubernetes may not answer, which does not end the request.
ReadCurrent(r) ==
  /\ reader[r].pc = "start"
  /\ \/ Goes(r, [reader[r] EXCEPT !.pc = "cache", !.current = running])
     \/ Goes(r, [reader[r] EXCEPT !.pc = "cache", !.failed = TRUE])
  /\ UNCHANGED <<clock, published, running, cache>>

\* Slip: what is in the cache stays there.
AlwaysFresh == cache.data # Absent

is_fresh == cache.data # Absent /\ clock - cache.at < CacheTtl

ReadCache(r) ==
  /\ reader[r].pc = "cache"
  /\ IF is_fresh
     THEN Goes(r, [reader[r] EXCEPT !.pc = "shown", !.latest = cache.data, !.asked = clock])
     ELSE Goes(r, [reader[r] EXCEPT !.pc = "fetch", !.asked = clock])
  /\ UNCHANGED <<clock, published, running, cache>>

\* GitHub lists the tags of this moment; the answer is stored when it arrives.
FetchLatest(r) ==
  /\ reader[r].pc = "fetch"
  /\ \E tag \in BestOf({t \in Tags : published[t] # Absent}) :
       Goes(r, [reader[r] EXCEPT !.pc = "store", !.latest = tag])
  /\ UNCHANGED <<clock, published, running, cache>>

\* Also when nothing listed is a version.  An older release in the cache is not
\* served instead.
FetchFails(r) ==
  /\ reader[r].pc = "fetch"
  /\ Goes(r, [reader[r] EXCEPT !.pc = "shown", !.failed = TRUE])
  /\ UNCHANGED <<clock, published, running, cache>>

StoreLatest(r) ==
  /\ reader[r].pc = "store"
  /\ cache' = [data |-> reader[r].latest, at |-> clock]
  /\ Goes(r, [reader[r] EXCEPT !.pc = "shown", !.asked = clock])
  /\ UNCHANGED <<clock, published, running>>

Reload(r) ==
  /\ reader[r].pc = "shown"
  /\ Goes(r, Asking)
  /\ UNCHANGED <<clock, published, running, cache>>

ReleasesNext ==
  \/ TimePasses
  \/ \E r \in Readers :
       \/ ReadCurrent(r) \/ ReadCache(r) \/ FetchLatest(r) \/ FetchFails(r)
       \/ StoreLatest(r) \/ Reload(r)

ReleasesSpec == ReleasesInit /\ [][ReleasesNext]_releasesVars

\* The tile offers the update unless something failed.
Offered(r) ==
  /\ reader[r].pc = "shown" /\ ~reader[r].failed
  /\ reader[r].latest # Absent /\ compare_versions(reader[r].current, reader[r].latest)

-----------------------------------------------------------------------------
(* Properties                                                              *)

ReleasesTypeOK ==
  /\ clock \in 0 .. LastClock
  /\ published \in [Tags -> (0 .. LastClock) \cup {Absent}]
  /\ running \in Tags
  /\ cache.data \in Tags \cup {Absent} /\ cache.at \in 0 .. clock
  /\ \A r \in Readers :
       /\ reader[r].pc \in {"start", "cache", "fetch", "store", "shown"}
       /\ reader[r].latest \in Tags \cup {Absent} /\ reader[r].current \in {running, Absent}

\* The tags that were listed at a time.
ListedBy(t) == {tag \in Tags : published[tag] # Absent /\ published[tag] <= t}

\* A release that is shown was the greatest one at some moment not longer ago
\* than the time to live and one fetch, however requests overlap: a slow answer
\* may replace a newer one, and still not outlive its time (version.rs:130-147).
ServedIsRecent ==
  \A r \in Readers : reader[r].pc = "shown" /\ reader[r].latest # Absent =>
    \E t \in reader[r].asked - CacheTtl - FetchTimeout .. reader[r].asked :
      reader[r].latest \in BestOf(ListedBy(t))

\* An update is offered only to a published version that is greater than the
\* running one, and, without failures, whenever one has been published for
\* longer than the cache lives and a fetch lasts (version.rs:74-77).
UpdatesAreOffered ==
  \A r \in Readers : reader[r].pc = "shown" =>
    LET greater(t) == {tag \in ListedBy(t) :
                         tag.parts # Absent /\ compare_versions(reader[r].current, tag)}
    IN  /\ Offered(r) => reader[r].latest \in greater(clock)
        /\ ~reader[r].failed /\ greater(reader[r].asked - CacheTtl - FetchTimeout) # {}
             => Offered(r)
=============================================================================
