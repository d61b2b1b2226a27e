-------------------------------- MODULE News ---------------------------------
(***************************************************************************)
(* The headlines: RSS feeds that come and go, the table they are stored in, *)
(* and the refreshes that fill it, one by the scheduler and any number by   *)
(* requests.                                                                *)
(*                                                                         *)
(* A headline is its URL, which is unique in the table.  Two refreshes that *)
(* insert one URL meet at the unique index: the first to flush commits, the *)
(* other one waits and then fails, or is chosen as the victim of a deadlock. *)
(* A flush that failed leaves its session unusable, so its feeds are logged *)
(* and skipped from there on, and its commit raises: nothing of that        *)
(* refresh is stored.                                                       *)
(***************************************************************************)
EXTENDS FiniteSets

CONSTANTS
  Urls,        \* the headlines that may appear
  Feeds,       \* the configured feeds
  Job,         \* the scheduler's daily refresh
  Refreshers   \* the refreshes that may overlap, Job among them

ASSUME JobAssumption == Job \in Refreshers

VARIABLES
  wire,        \* wire[f]: the headlines feed f carries now
  stored,      \* the NewsItem rows
  unread,      \* unread[r]: the feeds refresh r has not come to
  fresh,       \* fresh[r]: the rows it has added and not committed
  refreshing   \* the refreshes under way

newsVars == <<wire, stored, unread, fresh, refreshing>>

NewsInit ==
  /\ wire = [f \in Feeds |-> {}]
  /\ stored = {} /\ refreshing = {}
  /\ unread = [r \in Refreshers |-> {}] /\ fresh = [r \in Refreshers |-> {}]

\* An entry appears in a feed, or has become too old for it.
FeedMoves(f) ==
  /\ \E u \in Urls :
       wire' = [wire EXCEPT ![f] = IF u \in @ THEN @ \ {u} ELSE @ \cup {u}]
  /\ UNCHANGED <<stored, unread, fresh, refreshing>>

BeginRefresh(r) ==
  /\ r \notin refreshing
  /\ refreshing' = refreshing \cup {r}
  /\ unread' = [unread EXCEPT ![r] = Feeds]
  /\ UNCHANGED <<wire, stored, fresh>>

ReadWithoutLooking(r, f) ==
  /\ f \in unread[r]
  /\ unread' = [unread EXCEPT ![r] = @ \ {f}]
  /\ fresh' = [fresh EXCEPT ![r] = @ \cup wire[f]]
  /\ UNCHANGED <<wire, stored, refreshing>>

\* A feed is downloaded and parsed, and _upsert adds the entries that are neither in
\* the table nor among those of this refresh.
ReadFeed(r, f) ==
  /\ f \in unread[r]
  /\ unread' = [unread EXCEPT ![r] = @ \ {f}]
  /\ fresh' = [fresh EXCEPT ![r] = @ \cup (wire[f] \ stored)]
  /\ UNCHANGED <<wire, stored, refreshing>>

\* "A single broken feed is logged and skipped."
FeedFails(r, f) ==
  /\ f \in unread[r]
  /\ unread' = [unread EXCEPT ![r] = @ \ {f}]
  /\ UNCHANGED <<wire, stored, fresh, refreshing>>

EndRefresh(r) ==
  /\ refreshing' = refreshing \ {r}
  /\ unread' = [unread EXCEPT ![r] = {}] /\ fresh' = [fresh EXCEPT ![r] = {}]
  /\ UNCHANGED wire

CommitNews(r) ==
  /\ r \in refreshing /\ unread[r] = {} /\ fresh[r] \cap stored = {}
  /\ stored' = stored \cup fresh[r]
  /\ EndRefresh(r)

\* Another refresh stored one of the headlines since: all of them are lost.
NewsConflict(r) ==
  /\ r \in refreshing /\ fresh[r] \cap stored # {}
  /\ EndRefresh(r)
  /\ UNCHANGED stored

RefreshStep(r) ==
  \/ BeginRefresh(r) \/ CommitNews(r) \/ NewsConflict(r)
  \/ \E f \in Feeds : ReadFeed(r, f) \/ FeedFails(r, f)

NewsNext == (\E f \in Feeds : FeedMoves(f)) \/ \E r \in Refreshers : RefreshStep(r)

NewsSpec == NewsInit /\ [][NewsNext]_newsVars

\* The job fires every day, a download times out, and feed f is not broken for ever;
\* any other feed may be.
NewsFairness(f) == WF_newsVars(RefreshStep(Job)) /\ SF_newsVars(ReadFeed(Job, f))

----------------------------------------------------------------------------
\* Every variable stays in its domain, and only a refresh under way holds rows.
NewsTypeOK ==
  /\ wire \in [Feeds -> SUBSET Urls] /\ stored \subseteq Urls
  /\ refreshing \subseteq Refreshers
  /\ unread \in [Refreshers -> SUBSET Feeds] /\ fresh \in [Refreshers -> SUBSET Urls]
  /\ \A r \in Refreshers \ refreshing : unread[r] = {} /\ fresh[r] = {}

\* "One bad source never aborts the refresh" (service.py), and neither do two
\* refreshes at once for good: a headline that stays in a feed is stored in the end,
\* whatever breaks, overlaps and is lost before.
HeadlineArrives(u, f) == <>[](u \in wire[f]) => []<>(u \in stored)
=============================================================================
