--------------------------------- MODULE News ---------------------------------
(***************************************************************************)
(* The news feeds (internal/news, internal/db/news.go): the feeds that       *)
(* admins add, import, change and delete, the users who subscribe to them,   *)
(* and GET /v1/news, which fetches a user's feeds in parallel through a      *)
(* cache in Valkey.                                                          *)
(*                                                                           *)
(* A URL stands for a feed's address with its label, and for the articles    *)
(* that are found there.                                                     *)
(***************************************************************************)
EXTENDS Integers, Sequences, FiniteSets, SequencesExt

CONSTANTS
  Urls,
  Documents,       \* what an upstream server may answer
  Readers,         \* goroutines that serve GET /v1/news
  Editors,         \* goroutines that serve the admin panel
  maxConcurrency,
  MaxFeeds,        \* bound: rows ever inserted into news_feeds
  MaxPicked,       \* bound: feeds an admin picks for one import
  MaxReads,        \* bound: requests for the news
  MaxChanges       \* bound: admin requests and changes of a subscription

ASSUME NewsAssumption ==
  /\ maxConcurrency \in Nat \ {0}
  /\ {MaxFeeds, MaxPicked, MaxReads, MaxChanges} \subseteq Nat
  /\ \A d \in Documents : d.format \in {"rss", "feed", "other"}

FeedIds == 1 .. MaxFeeds

VARIABLES
  feeds,       \* news_feeds by id
  subs,        \* feeds the user has enabled (user_feed_subscriptions)
  cache,       \* "news:feed:<id>" in Valkey: whose articles it holds
  nextId,      \* the sequence behind news_feeds.id
  rd,          \* what each request for the news is doing
  ed,          \* what each admin request is doing
  late,        \* history: feeds whose cache was written for a row since
               \* changed, or not invalidated when it changed
  reads, changes

newsVars == <<feeds, subs, cache, nextId, rd, ed, late, reads, changes>>

-----------------------------------------------------------------------------
(* Parsing: which items of a document become articles. The flags of an item  *)
(* say whether it has a title, and a link under each rel.                    *)

parseRSS(items) == SelectSeq(items, LAMBDA it : it.title /\ it.links # << >>)

(* The first link that is alternate or says nothing, else the first: an item *)
(* with any link has one.                                                    *)
atomLink(links) ==
  LET good == {k \in DOMAIN links : links[k] \in {"alternate", ""}}
  IN CASE good # {} -> {links[CHOOSE k \in good : \A l \in good : k <= l]}
       [] good = {} /\ links # << >> -> {links[1]}
       [] OTHER -> {}

parseAtom(items) == SelectSeq(items, LAMBDA it : it.title /\ atomLink(it.links) # {})

parseFeed(d) == IF d.format = "rss" THEN parseRSS(d.items) ELSE parseAtom(d.items)

(* A request that fails and a format that is not recognised are errors.      *)
fetchFeed == {"error"} \cup
  {IF parseFeed(d) = << >> THEN "empty" ELSE "articles" : d \in {d \in Documents : d.format # "other"}}

-----------------------------------------------------------------------------
NoFeed == [url |-> "none"]
Rows == {i \in FeedIds : feeds[i] # NoFeed}
UrlsOf(ids) == {feeds[i].url : i \in ids}

(* at: where the goroutine of each feed is; want: the row each was started   *)
(* with. Any step of a request fails when its client is gone.                *)
NoRead == [pc |-> "idle", want |-> [i \in FeedIds |-> NoFeed],
           at |-> [i \in FeedIds |-> "none"]]
(* calm (history): no other request has written news_feeds since this one    *)
(* read it; made: the feeds an import has created.                           *)
NoEdit == [pc |-> "idle", id |-> 0, picked |-> << >>, known |-> {}, made |-> {},
           calm |-> TRUE]

(* Feeds that were added earlier, and that the user reads.                   *)
NewsInit ==
  /\ nextId \in 1 .. MaxFeeds
  /\ feeds \in {f \in [FeedIds -> {NoFeed} \cup {[url |-> u] : u \in Urls}] :
                  \A i \in FeedIds : f[i] = NoFeed <=> i >= nextId}
  /\ subs = 1 .. nextId - 1
  /\ cache = [i \in FeedIds |-> NoFeed]
  /\ rd = [r \in Readers |-> NoRead] /\ ed = [e \in Editors |-> NoEdit]
  /\ late = {} /\ reads = 0 /\ changes = 0

-----------------------------------------------------------------------------
(* NewsHandler: EnabledFeedsForUser, then a goroutine for every feed.        *)
ReadBegin(r) ==
  /\ rd[r] = NoRead /\ reads < MaxReads /\ reads' = reads + 1
  /\ LET mine == subs \cap Rows IN
     rd' = IF mine = {} THEN rd
           ELSE [rd EXCEPT ![r] =
                   [NoRead EXCEPT !.pc = "wait",
                      !.want = [i \in FeedIds |-> IF i \in mine THEN feeds[i] ELSE NoFeed],
                      !.at = [i \in FeedIds |-> IF i \in mine THEN "sem" ELSE "none"]]]
  /\ UNCHANGED <<feeds, subs, cache, nextId, ed, late, changes>>

HoldingMutant(r) == {i \in FeedIds : rd[r].at[i] \in {"get", "fetch", "set", "done"}}

Holding(r) == {i \in FeedIds : rd[r].at[i] \in {"get", "fetch", "set"}}

(* A goroutine that ends gives its place in the semaphore back.              *)
Move(r, i, at) == rd' = [rd EXCEPT ![r].at[i] = at]

Acquire(r, i) ==
  /\ rd[r].at[i] = "sem" /\ Cardinality(Holding(r)) < maxConcurrency
  /\ Move(r, i, "get")
  /\ UNCHANGED <<feeds, subs, cache, nextId, ed, late, reads, changes>>

(* cachedFeed: a hit is the answer; a miss, or an error, is fetched.         *)
CacheGet(r, i) ==
  /\ rd[r].at[i] = "get"
  /\ \/ cache[i] # NoFeed /\ Move(r, i, "done")
     \/ Move(r, i, "fetch")
  /\ UNCHANGED <<feeds, subs, cache, nextId, ed, late, reads, changes>>

Fetch(r, i) ==
  /\ rd[r].at[i] = "fetch"
  /\ \E outcome \in fetchFeed :
       Move(r, i, IF outcome = "articles" THEN "set" ELSE "done")
  /\ UNCHANGED <<feeds, subs, cache, nextId, ed, late, reads, changes>>

CacheSet(r, i) ==
  /\ rd[r].at[i] = "set"
  /\ Move(r, i, "done")
  /\ \/ /\ cache' = [cache EXCEPT ![i] = rd[r].want[i]]
        /\ late' = IF rd[r].want[i] = feeds[i] THEN late \ {i} ELSE late \cup {i}
     \/ UNCHANGED <<cache, late>>
  /\ UNCHANGED <<feeds, subs, nextId, ed, reads, changes>>

(* wg.Wait: the feeds that failed are left out, and the rest is sorted, cut  *)
(* to news_max_articles and sent.                                            *)
ReadEnd(r) ==
  /\ rd[r].pc = "wait" /\ \A i \in FeedIds : rd[r].at[i] \in {"none", "done"}
  /\ rd' = [rd EXCEPT ![r] = NoRead]
  /\ UNCHANGED <<feeds, subs, cache, nextId, ed, late, reads, changes>>

(* The key's 15 minutes are over.                                            *)
CacheExpires(i) ==
  /\ cache[i] # NoFeed
  /\ cache' = [cache EXCEPT ![i] = NoFeed] /\ late' = late \ {i}
  /\ UNCHANGED <<feeds, subs, nextId, rd, ed, reads, changes>>

-----------------------------------------------------------------------------
(* SubscriptionHandler; a foreign key refuses a feed that is gone.           *)
SetFeedSubscription(i, enabled) ==
  /\ changes < MaxChanges /\ changes' = changes + 1
  /\ i \in Rows
  /\ subs' = IF enabled THEN subs \cup {i} ELSE subs \ {i}
  /\ UNCHANGED <<feeds, cache, nextId, rd, ed, late, reads>>

-----------------------------------------------------------------------------
(* The admin panel *)

(* Editor e changes the table to fs, and goes on as s says.                  *)
Write(e, fs, s) ==
  /\ feeds' = fs
  /\ ed' = [x \in Editors |-> IF x = e THEN s
                              ELSE IF ed[x] = NoEdit THEN NoEdit ELSE [ed[x] EXCEPT !.calm = FALSE]]

BeginChange(e) == ed[e] = NoEdit /\ changes < MaxChanges /\ changes' = changes + 1

CreateFeed(e, url, s) ==
  /\ nextId <= MaxFeeds /\ nextId' = nextId + 1
  /\ Write(e, [feeds EXCEPT ![nextId] = [url |-> url]], s)

AdminCreate(e, url) ==
  /\ BeginChange(e)
  /\ CreateFeed(e, url, NoEdit)
  /\ UNCHANGED <<subs, cache, rd, late, reads>>

(* UPDATE, and then, with the audit entry between, DEL of the cached         *)
(* articles.                                                                 *)
AdminUpdate(e, i, url) ==
  /\ BeginChange(e) /\ i \in Rows
  /\ Write(e, [feeds EXCEPT ![i].url = url], [NoEdit EXCEPT !.pc = "del", !.id = i])
  /\ UNCHANGED <<subs, cache, nextId, rd, late, reads>>

(* The row takes its subscriptions with it (ON DELETE CASCADE).              *)
AdminDelete(e, i) ==
  /\ BeginChange(e) /\ i \in Rows
  /\ Write(e, [feeds EXCEPT ![i] = NoFeed], [NoEdit EXCEPT !.pc = "del", !.id = i])
  /\ subs' = subs \ {i}
  /\ UNCHANGED <<cache, nextId, rd, late, reads>>

InvalidateMutant(e) ==
  /\ ed[e].pc = "del"
  /\ UNCHANGED <<cache, late>>
  /\ ed' = [ed EXCEPT ![e] = NoEdit]
  /\ UNCHANGED <<feeds, subs, nextId, rd, reads, changes>>

Invalidate(e) ==
  /\ ed[e].pc = "del"
  /\ \/ cache' = [cache EXCEPT ![ed[e].id] = NoFeed] /\ late' = late \ {ed[e].id}
     \/ late' = late \cup {ed[e].id} /\ UNCHANGED cache
  /\ ed' = [ed EXCEPT ![e] = NoEdit]
  /\ UNCHANGED <<feeds, subs, nextId, rd, reads, changes>>

-----------------------------------------------------------------------------
(* What the panel offers for an import. The feeds of an uploaded OPML file   *)
(* are offered as they are found in its folders; those of the catalog (a     *)
(* JSON file and OPML files, cached for a day) once each. Both mark the      *)
(* feeds that exist and those that could be fetched; marks are advice.       *)
AdminParseOPML == UNION {[1 .. n -> Urls] : n \in 1 .. MaxPicked}
AdminCatalog == {s \in AdminParseOPML : IsInjective(s)}

(* AdminImportHandler: ListFeeds, whose error is dropped.                    *)
AdminImport(e, picked) ==
  /\ BeginChange(e)
  /\ ed' = [ed EXCEPT ![e] = [NoEdit EXCEPT !.pc = "list", !.picked = picked]]
  /\ UNCHANGED <<feeds, subs, cache, nextId, rd, late, reads>>

ImportList(e) ==
  /\ ed[e].pc = "list"
  /\ \E ok \in BOOLEAN :
       ed' = [ed EXCEPT ![e].pc = "import", ![e].calm = ok,
                        ![e].known = IF ok THEN UrlsOf(Rows) ELSE {}]
  /\ UNCHANGED <<feeds, subs, cache, nextId, rd, late, reads, changes>>

learn(known, url) == known \cup {url}

(* Skipped if it is known, or INSERT fails.                                   *)
ImportNext(e) ==
  /\ ed[e].pc = "import" /\ ed[e].picked # << >>
  /\ LET url == Head(ed[e].picked)
         s == [ed[e] EXCEPT !.picked = Tail(@)]
     IN \/ /\ ed' = [ed EXCEPT ![e] = s]
           /\ UNCHANGED <<feeds, nextId>>
        \/ /\ url \notin ed[e].known
           /\ CreateFeed(e, url, [s EXCEPT !.known = learn(@, url), !.made = @ \cup {nextId}])
  /\ UNCHANGED <<subs, cache, rd, late, reads, changes>>

ImportEnd(e) ==
  /\ ed[e].pc = "import" /\ ed[e].picked = << >>
  /\ ed' = [ed EXCEPT ![e] = NoEdit]
  /\ UNCHANGED <<feeds, subs, cache, nextId, rd, late, reads, changes>>

NewsNext ==
  \/ \E r \in Readers :
       \/ ReadBegin(r) \/ ReadEnd(r)
       \/ \E i \in FeedIds : Acquire(r, i) \/ CacheGet(r, i) \/ Fetch(r, i) \/ CacheSet(r, i)
  \/ \E i \in FeedIds : CacheExpires(i) \/ \E on \in BOOLEAN : SetFeedSubscription(i, on)
  \/ \E e \in Editors :
       \/ \E url \in Urls : AdminCreate(e, url) \/ \E i \in FeedIds : AdminUpdate(e, i, url)
       \/ \E i \in FeedIds : AdminDelete(e, i)
       \/ \E picked \in AdminParseOPML \cup AdminCatalog : AdminImport(e, picked)
       \/ ImportList(e) \/ ImportNext(e) \/ ImportEnd(e) \/ Invalidate(e)

(* A request that is waiting for its goroutines goes on.                     *)
ReadGoesOn(r) ==
  \/ ReadEnd(r)
  \/ \E i \in FeedIds : Acquire(r, i) \/ CacheGet(r, i) \/ Fetch(r, i) \/ CacheSet(r, i)

-----------------------------------------------------------------------------
(* Articles that are cached for a feed come from the address it has now:     *)
(* changing it takes effect with the cached ones deleted. Exempt is a        *)
(* request that was fetching the old address meanwhile, and a deletion that  *)
(* was lost, each until the key expires.                                     *)
CacheSpeaksForRow ==
  \A i \in FeedIds :
    (cache[i] # NoFeed /\ i \in Rows /\ i \notin late /\ \A e \in Editors : ed[e].id # i)
      => cache[i] = feeds[i]

(* An import adds no feed twice, and none that there was, whatever is picked *)
(* for it; unless the feeds could not be listed or another admin changed     *)
(* them meanwhile.                                                           *)
ImportsAreNew ==
  \A e \in Editors :
    ed[e].calm => \A i \in ed[e].made, j \in Rows : i # j => feeds[i] # feeds[j]

(* However many feeds a user has, failing or not, the request for the news   *)
(* gets through its semaphore and is answered.                               *)
NewsIsAnswered == \A r \in Readers : (rd[r].pc = "wait") ~> (rd[r].pc = "idle")
=============================================================================
