-------------------------------- MODULE NewsPoll -------------------------------
(***************************************************************************)
(* Polls of the news feeds (app/jobs/poll_news.py): any number of them,    *)
(* started by a loop, crons and buttons, each with one transaction.        *)
(*                                                                         *)
(* An item is a link and a date; the identity of an article is a hash of   *)
(* both, and the link is unique in the table.  What a poll adds is sent to *)
(* the database by its next query or its commit.                           *)
(***************************************************************************)
EXTENDS Integers, Sequences, FiniteSets

CONSTANTS
  Polls, Sources, NoSource, Urls,
  Unreadable,   \* links that urlparse refuses, such as one with half a bracketed host
  DomainOf,     \* links on the domain of a source or its subdomains
  Dates,        \* what feeds say of the date of an item
  FirstFeeds,   \* what the feeds list at first
  Top,          \* 50: items read of a feed
  MaxItems,     \* bound: items of a feed
  Now,          \* times at which polls run, in minutes
  MaxChanges,   \* bound: changes of feeds
  MaxFailures   \* bound: feeds that do not answer, and polls that are killed

Undated == -1

Items == [url : Urls, date : Dates \cup {Undated}]

ASSUME PollAssumption ==
  /\ Unreadable \subseteq Urls
  /\ DomainOf \in [Sources -> SUBSET (Urls \ Unreadable)]
  /\ Dates \subseteq Nat /\ Now \subseteq Nat
  /\ Top \in Nat \ {0} /\ MaxItems \in Nat
  /\ MaxChanges \in Nat /\ MaxFailures \in Nat
  /\ FirstFeeds \in [Sources -> Seq(Items)]
  /\ NoSource \notin Sources

VARIABLES
  feed, changes, failures,
  stored,       \* the table of articles, as committed
  poll          \* what each poll is at

pollVars == <<feed, changes, failures, stored, poll>>

--------------------------------------------------------------------------------
\* by: the poll that brought it (bookkeeping).
Articles == [url : Urls, published : Nat, source : Sources, by : Polls]

PollPhases == {"idle", "fetch", "read"}
PollStates == [phase : PollPhases, todo : SUBSET Sources, source : Sources \cup {NoSource},
               items : Seq(Items),
               new : SUBSET Articles,    \* added, and not yet sent
               sent : SUBSET Articles]   \* sent, and not yet committed
Idle == [phase |-> "idle", todo |-> {}, source |-> NoSource, items |-> <<>>, new |-> {}, sent |-> {}]

PollInit ==
  /\ changes = 0 /\ failures = 0
  /\ feed = FirstFeeds
  /\ stored = {}
  /\ poll = [p \in Polls |-> Idle]

World == <<feed, changes, failures>>

--------------------------------------------------------------------------------
(* The feeds.                                                               *)

\* A feed puts an item on top, be it new, or there already under the same date or another.
Publish(s) ==
  /\ changes < MaxChanges
  /\ changes' = changes + 1
  /\ \E item \in Items :
       LET list == <<item>> \o feed[s] IN
       feed' = [feed EXCEPT ![s] =
         SubSeq(list, 1, IF Len(list) < MaxItems THEN Len(list) ELSE MaxItems)]
  /\ UNCHANGED <<failures, stored, poll>>

--------------------------------------------------------------------------------
(* The table.                                                               *)

\* Two rows the table does not hold together: the link is unique, and so is the identity.
Clash(a, b) == a.url = b.url

Others(p) == UNION {poll[q].sent : q \in Polls \ {p}}

\* An insert waits for a transaction that has sent a row it clashes with.
Waits(p) == \E a \in poll[p].new, b \in Others(p) : Clash(a, b)

Conflicts(p) == \E a \in poll[p].new, b \in stored : Clash(a, b)

\* What the queries of a poll see: what is committed and what it added, which is sent first.
Seen(p) == stored \cup poll[p].sent \cup poll[p].new

--------------------------------------------------------------------------------
(* A poll.                                                                  *)

Start(p) ==
  /\ poll[p].phase = "idle"
  /\ poll' = [poll EXCEPT ![p] = [Idle EXCEPT !.phase = "fetch", !.todo = Sources]]
  /\ UNCHANGED <<World, stored>>

\* One item for each link, the first of them, in their order (one list): the end of _parse_rss.
Deduplicated(items) ==
  LET first == {i \in DOMAIN items : \A j \in 1 .. (i - 1) : items[j].url # items[i].url}
      n == Cardinality(first) IN
  {[k \in 1..n |-> items[f[k]]] :
     f \in {g \in [1..n -> first] : \A j, k \in 1..n : j < k => g[j] < g[k]}}

\* The first 50.
First(items) == SubSeq(items, 1, IF Len(items) < Top THEN Len(items) ELSE Top)

FetchWith(p, s, items) ==
  /\ poll[p].phase = "fetch" /\ s \in poll[p].todo
  /\ poll' = [poll EXCEPT ![p] = [poll[p] EXCEPT
       !.phase = "read", !.todo = poll[p].todo \ {s}, !.source = s, !.items = items]]
  /\ UNCHANGED stored

\* The feed of a source answers.
Fetch(p, s) ==
  /\ \E list \in Deduplicated(feed[s]) : FetchWith(p, s, First(list))
  /\ UNCHANGED World

\* It does not, or with what cannot be parsed: that is an empty feed.
FetchFails(p, s) ==
  /\ failures < MaxFailures
  /\ failures' = failures + 1
  /\ FetchWith(p, s, <<>>)
  /\ UNCHANGED <<feed, changes>>

Reading(p) == poll[p].phase = "read" /\ poll[p].items # <<>>

Link(p) == Head(poll[p].items).url

OnDomain(p) == Link(p) \in DomainOf[poll[p].source]

SkipForeign(p) ==
  /\ Reading(p) /\ ~OnDomain(p) /\ Link(p) \notin Unreadable
  /\ poll' = [poll EXCEPT ![p].items = Tail(@)]
  /\ UNCHANGED <<World, stored>>

\* The dates an item may be given: an undated one is of now.
Published(item) == IF item.date = Undated THEN Now ELSE {item.date}

\* Mutant: looked up by identity only, which changes with the date.
Known_ById(item, date, seen) == \E a \in seen : a.url = item.url /\ a.published = date

\* Looked up by identity, then by link.
Known(item, date, seen) ==
  \/ \E a \in seen : a.url = item.url /\ a.published = date
  \/ \E a \in seen : a.url = item.url

\* Mutant: a known item ends the feed, which is newest first.
Rest_Stops(p, known) == IF known THEN <<>> ELSE Tail(poll[p].items)

Rest(p, known) == Tail(poll[p].items)

\* An item of the source: the queries send what was added before, and it is added unless known.
Consider(p) ==
  LET item == Head(poll[p].items) IN
  /\ Reading(p) /\ OnDomain(p) /\ ~Waits(p) /\ ~Conflicts(p)
  /\ \E date \in Published(item) :
       LET known == Known(item, date, Seen(p))
           article == [url |-> item.url, published |-> date, source |-> poll[p].source, by |-> p] IN
       poll' = [poll EXCEPT ![p] = [poll[p] EXCEPT
         !.items = Rest(p, known),
         !.sent = poll[p].sent \cup poll[p].new,
         !.new = IF known THEN {} ELSE {article}]]
  /\ UNCHANGED <<World, stored>>

NextFeed(p) ==
  /\ poll[p].phase = "read" /\ poll[p].items = <<>>
  /\ poll' = [poll EXCEPT ![p].phase = "fetch"]
  /\ UNCHANGED <<World, stored>>

AtEnd(p) == poll[p].phase = "fetch" /\ poll[p].todo = {}

Commit(p) ==
  /\ AtEnd(p) /\ ~Waits(p) /\ ~Conflicts(p)
  /\ stored' = stored \cup poll[p].sent \cup poll[p].new
  /\ poll' = [poll EXCEPT ![p] = Idle]
  /\ UNCHANGED World

Drop(p) ==
  /\ poll' = [poll EXCEPT ![p] = Idle]
  /\ UNCHANGED stored

\* The host of a link cannot be told: the ValueError ends the poll of all feeds, with all it added.
BadLink(p) ==
  /\ Reading(p) /\ Link(p) \in Unreadable
  /\ Drop(p)
  /\ UNCHANGED World

Sends(p) == AtEnd(p) \/ (Reading(p) /\ OnDomain(p))

\* Another poll has committed the link in between: the IntegrityError ends the poll, and all that it
\* added is lost.
Conflict(p) ==
  /\ Sends(p) /\ ~Waits(p) /\ Conflicts(p)
  /\ Drop(p)
  /\ UNCHANGED World

\* Two polls wait for each other: the database ends one of them, and the insert of the other, which
\* was waiting, goes ahead.
Deadlock(p, q) ==
  /\ p # q /\ Sends(p) /\ Sends(q)
  /\ \E a \in poll[p].new, b \in poll[q].sent : Clash(a, b)
  /\ \E a \in poll[q].new, b \in poll[p].sent : Clash(a, b)
  /\ poll' = [poll EXCEPT ![p] = Idle, ![q].sent = @ \cup poll[q].new, ![q].new = {}]
  /\ UNCHANGED <<World, stored>>

\* A poll is cancelled or its process ends.
Abort(p) ==
  /\ poll[p].phase # "idle" /\ failures < MaxFailures
  /\ failures' = failures + 1
  /\ Drop(p)
  /\ UNCHANGED <<feed, changes>>

PollStep(p) ==
  \/ \E s \in Sources : Fetch(p, s)
  \/ SkipForeign(p) \/ BadLink(p) \/ Consider(p) \/ NextFeed(p) \/ Commit(p) \/ Conflict(p)
  \/ \E q \in Polls : Deadlock(p, q)

PollNext ==
  \/ \E s \in Sources : Publish(s)
  \/ \E p \in Polls : Start(p) \/ PollStep(p) \/ Abort(p) \/ \E s \in Sources : FetchFails(p, s)

PollSpec == PollInit /\ [][PollNext]_pollVars

\* The loop starts polls for ever, and each goes on.  (Feeds do not fail for ever: MaxFailures.)
FairSpec == PollSpec /\ \A p \in Polls : WF_pollVars(Start(p)) /\ WF_pollVars(PollStep(p))

--------------------------------------------------------------------------------
(* Properties.                                                              *)

PollTypeOK ==
  /\ changes \in 0..MaxChanges /\ failures \in 0..MaxFailures
  /\ feed \in [Sources -> Seq(Items)]
  /\ stored \subseteq Articles
  /\ poll \in [Polls -> PollStates]

\* No poll ever fails by its own doing: what it adds clashes with nothing that it added before, be it
\* for another feed, under another date or in an earlier poll.  Only a row of a poll that overlaps can
\* end it.
NoOwnClash ==
  \A p \in Polls :
    /\ \A a \in poll[p].new, b \in stored : Clash(a, b) => b.by # p
    /\ \A a, b \in poll[p].new \cup poll[p].sent : Clash(a, b) => a = b

\* A link is among the first Top different ones of a feed.
ListedAt(s, u) ==
  \E i \in DOMAIN feed[s] : feed[s][i].url = u /\ Cardinality({feed[s][j].url : j \in 1..i}) <= Top

Listed(u) == \E s \in Sources : u \in DomainOf[s] /\ ListedAt(s, u)

\* Some feed, of whatever source, lists a link that ends every poll.
Blocked == \E s \in Sources, u \in Unreadable : ListedAt(s, u)

\* An article that stays among the first of a feed of its domain is stored in the end, however often
\* the polls that find it fail, once no feed lists an unreadable link any longer.
ListedIsStored ==
  \A u \in Urls \ Unreadable : <>[](Listed(u) /\ ~Blocked) => <>(\E a \in stored : a.url = u)
=================================================================================
