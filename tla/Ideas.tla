--------------------------------- MODULE Ideas ---------------------------------
(***************************************************************************)
(* The idea board of the documentation site: submissions and comments as   *)
(* docbackend accepts them (internal/service, internal/biz/idea.go,        *)
(* comment.go, ratelimit.go, internal/data) and one visitor's browser on   *)
(* the page of an idea (docweb/src/pages/IdeaDetailPage.tsx and            *)
(* components/CommentSection.tsx) or on the submission page.               *)
(*                                                                         *)
(* Requests are handled concurrently.  Each is throttled twice: by a token *)
(* bucket per address, kept in memory, and by a count of the rows its      *)
(* address wrote in the last day.  The page keeps a thread together from   *)
(* pages it loads and from what it posts itself.                           *)
(*                                                                         *)
(* Texts are told apart only by whether anything is left of them after     *)
(* cleaning, and refusals (400, 403, 404, 429, 500) not at all: the page   *)
(* tells each.  The two limits have one value for ideas and for comments.  *)
(* A list's count and its rows are read as one; so is an idea with its     *)
(* count.                                                                  *)
(***************************************************************************)
EXTENDS Integers, Sequences, FiniteSets, SequencesExt, Ranks

CONSTANTS
  Ips,        \* hashed addresses
  MyIp,       \* the address of the browser this module follows
  Handlers,   \* requests in service at one time
  PerMinute,  \* tokens of a full bucket
  PerDay,     \* rows of one address in a day
  PageSize,   \* comments on a page
  Tables,     \* the tables found: ideas and comments
  Busy,       \* bound: the ideas others comment on and the moderator handles
  MaxRows,    \* bound: ideas and comments written
  MaxPages,   \* bound: pages of a thread asked for
  MaxVisits   \* bound: ideas opened

IdeaRows == [status : {"public", "pending", "hidden"}, ip : Ips, recent : BOOLEAN]
CommentRows == [of : Nat, by : {"me", "other"}, ip : Ips, recent : BOOLEAN]

\* CountSubmissionsSince and CountByIPSince: the rows of an address in a day.
CountIn(rows, ip) == Cardinality({r \in DOMAIN rows : rows[r].ip = ip /\ rows[r].recent})

\* The tables are such as the handlers of earlier processes leave them.
ASSUME IdeasAssumption ==
  /\ MyIp \in Ips /\ Busy \subseteq Nat /\ Handlers # {} /\ IsFiniteSet(Handlers)
  /\ Tables.ideas \in Seq(IdeaRows) /\ Tables.comments \in Seq(CommentRows)
  /\ \A ip \in Ips : /\ CountIn(Tables.ideas, ip) < PerDay + Cardinality(Handlers)
                     /\ CountIn(Tables.comments, ip) < PerDay + Cardinality(Handlers)
  /\ PerMinute \in Nat \ {0} /\ PerDay \in Nat \ {0} /\ PageSize \in Nat \ {0}

VARIABLES
  ideas,     \* the table of ideas, by id: status, address, whether of the last day
  comments,  \* the table of comments, by id: idea, author, address, of the last day
  buckets,   \* tokens left, per kind and address
  serving,   \* the requests in service
  detail,    \* IdeaDetailPage: the idea addressed, the one shown, and how loading went
  calls,     \* getIdea calls not answered: the idea and whether its effect still stands
  thread,    \* CommentSection: items, total, page, and the list call in flight
  own,       \* the visitor's own post: "idle", "sent" or "told" how it went
  visits,    \* ideas opened so far
  crossed    \* history: others posted, a post met a load, or page one failed

tables == <<ideas, comments>>
board == <<detail, calls, thread>>
ideasVars == <<tables, buckets, serving, board, own, visits, crossed>>

PostKinds == {"idea", "comment"}
NoLoad == [at |-> "none", page |-> 0, items |-> <<>>, total |-> 0]
NoThread == [items |-> <<>>, total |-> 0, page |-> 1, load |-> NoLoad, failed |-> FALSE, before |-> 0]
NoDetail == [id |-> 0, idea |-> 0, loading |-> FALSE, problem |-> "no"]
Free == [at |-> "free"]

IdeasInit ==
  /\ ideas = Tables.ideas /\ comments = Tables.comments
  /\ buckets = [k \in PostKinds |-> [ip \in Ips |-> PerMinute]]
  /\ serving = [h \in Handlers |-> Free]
  /\ detail = NoDetail /\ calls = {} /\ thread = NoThread
  /\ own = "idle" /\ visits = 0 /\ crossed = FALSE

------------------------------------------------------------------------------
(* The tables.                                                             *)

PublicIds == {i \in DOMAIN ideas : ideas[i].status = "public"}

\* The ids of an idea's comments, oldest first.
CommentsOf(i) == InOrder({c \in DOMAIN comments : comments[c].of = i})

\* ListByIdea for this browser: one page, each row flagged when the browser
\* wrote it.
ListByIdea(i, page) ==
  LET all == CommentsOf(i)
      from == (page - 1) * PageSize IN
  [total |-> Len(all),
   items |-> [k \in 1..(IF Len(all) <= from THEN 0
                        ELSE IF Len(all) - from < PageSize THEN Len(all) - from ELSE PageSize)
                |-> [id |-> all[from + k], mine |-> comments[all[from + k]].by = "me"]]]

CountSince(kind, ip) == CountIn(IF kind = "idea" THEN ideas ELSE comments, ip)

------------------------------------------------------------------------------
(* The handlers.                                                           *)

\* The answer, if the page that asked still listens.
Reply(h, status) ==
  serving' = [serving EXCEPT ![h] = IF @.heard THEN [@ EXCEPT !.at = status] ELSE Free]

\* Submit up to the limiter.  A comment's idea is looked up before the
\* bucket is touched, so a wrong one costs no token.
Admit(h, post, heard) ==
  /\ serving[h] = Free
  /\ IF (post.kind = "comment" /\ post.of \notin PublicIds) \/ buckets[post.kind][post.ip] = 0
     THEN /\ serving' = [serving EXCEPT ![h] =
               IF heard THEN [at |-> "refused", heard |-> heard, post |-> post] ELSE Free]
          /\ UNCHANGED buckets
     ELSE /\ serving' = [serving EXCEPT ![h] = [at |-> "counting", heard |-> heard, post |-> post]]
          /\ buckets' = [buckets EXCEPT ![post.kind][post.ip] = @ - 1]

\* The daily count, then the cleaned text, of which nothing may be left.
Count(h, blank) ==
  /\ serving[h].at = "counting"
  /\ LET post == serving[h].post IN
     IF CountSince(post.kind, post.ip) >= PerDay \/ blank THEN Reply(h, "refused")
     ELSE serving' = [serving EXCEPT ![h].at = "inserting"]
  /\ UNCHANGED <<tables, buckets, board, own, visits, crossed>>

\* A comment the page followed did not post, or posted while it was loading.
Unfollowed(h, post) ==
  detail.idea = post.of /\ (~serving[h].heard \/ thread.load.at # "none")

\* Create: an idea waits for the moderator, a comment is public at once.
Create(h) ==
  /\ serving[h].at = "inserting"
  /\ LET post == serving[h].post IN
     IF post.kind = "idea"
     THEN /\ ideas' = Append(ideas, [status |-> "pending", ip |-> post.ip, recent |-> TRUE])
          /\ UNCHANGED <<comments, crossed>>
     ELSE /\ comments' = Append(comments, [of |-> post.of, by |-> post.by, ip |-> post.ip,
                                           recent |-> TRUE])
          /\ crossed' = (crossed \/ Unfollowed(h, post))
          /\ ideas' = ideas
  /\ serving' = [serving EXCEPT ![h] =
       IF @.heard THEN [@ EXCEPT !.at = "ok", !.post.row = Len(comments) + 1] ELSE Free]
  /\ UNCHANGED <<buckets, board, own, visits>>

\* A query fails, or the request's context died with its client.
QueryFails(h) ==
  /\ serving[h].at \in {"counting", "inserting"}
  /\ Reply(h, "refused")
  /\ UNCHANGED <<tables, buckets, board, own, visits, crossed>>

HasRoom == Len(ideas) + Len(comments) < MaxRows

\* Someone else comments, from any address.
OthersPost(h, of, ip) ==
  /\ HasRoom
  /\ Admit(h, [kind |-> "comment", of |-> of, ip |-> ip, by |-> "other", row |-> 0], FALSE)
  /\ UNCHANGED <<tables, board, own, visits, crossed>>

\* The bucket refills.  The janitor drops buckets idle for half an hour;
\* one minute fills them, and a bucket that is made anew is full as well.
Refill(kind, ip) ==
  /\ buckets[kind][ip] < PerMinute
  /\ buckets' = [buckets EXCEPT ![kind][ip] = @ + 1]
  /\ UNCHANGED <<tables, serving, board, own, visits, crossed>>

\* The oldest row of an address leaves the window of a day.
OldestAges(kind, ip) ==
  LET rows == IF kind = "idea" THEN ideas ELSE comments
      young == {r \in DOMAIN rows : rows[r].ip = ip /\ rows[r].recent}
      aged == [rows EXCEPT ![CHOOSE r \in young : \A s \in young : r <= s].recent = FALSE] IN
  /\ young # {}
  /\ IF kind = "idea" THEN ideas' = aged /\ comments' = comments
     ELSE comments' = aged /\ ideas' = ideas
  /\ UNCHANGED <<buckets, serving, board, own, visits, crossed>>

HasAnswer(h) == serving[h].at \in {"ok", "refused"}

\* The process is restarted: the buckets and the requests in service go,
\* the tables stay.
ServerRestarts ==
  /\ buckets' = [k \in PostKinds |-> [ip \in Ips |-> PerMinute]]
  /\ serving' = [h \in Handlers |->
       IF serving[h] = Free \/ HasAnswer(h) THEN serving[h]
       ELSE IF serving[h].heard THEN [serving[h] EXCEPT !.at = "refused"] ELSE Free]
  /\ UNCHANGED <<tables, board, own, visits, crossed>>

------------------------------------------------------------------------------
(* The page.                                                               *)

\* Whatever the page left behind is not listened to any more.
Unheard == [h \in Handlers |->
  IF serving[h] = Free \/ ~serving[h].heard THEN serving[h]
  ELSE IF HasAnswer(h) THEN Free
  ELSE [serving[h] EXCEPT !.heard = FALSE]]

\* The effect of IdeaDetailPage for an address: the call before it is
\* cancelled; what was shown stays in the state behind the skeleton, and
\* the thread is unmounted.  A change of language runs the same effect.
Open(i) ==
  /\ visits < MaxVisits /\ visits' = visits + 1
  /\ detail' = [detail EXCEPT !.id = i, !.loading = TRUE, !.problem = "no"]
  /\ calls' = {[g EXCEPT !.live = FALSE] : g \in calls} \cup {[id |-> i, live |-> TRUE]}
  /\ thread' = NoThread /\ own' = "idle" /\ serving' = Unheard
  /\ UNCHANGED <<tables, buckets, crossed>>

\* Leaving for another page unmounts everything.
Leave ==
  /\ detail.id # 0 /\ detail' = NoDetail /\ calls' = {} /\ thread' = NoThread
  /\ own' = "idle" /\ serving' = Unheard /\ crossed' = FALSE
  /\ UNCHANGED <<tables, buckets, visits>>

\* The thread of an idea is mounted: its first page is asked for.
Mounted(i) ==
  [NoThread EXCEPT !.total = Len(CommentsOf(i)), !.load = [NoLoad EXCEPT !.at = "asked", !.page = 1]]

\* getIdea returns: GetPublic's idea, or 404 when it is not public.
IdeaAnswered(g) ==
  /\ g \in calls /\ calls' = calls \ {g}
  /\ IF ~g.live THEN UNCHANGED <<detail, thread, crossed>>
     ELSE IF g.id \in PublicIds
     THEN /\ detail' = [detail EXCEPT !.idea = g.id, !.loading = FALSE]
          /\ thread' = Mounted(g.id) /\ crossed' = FALSE
     ELSE /\ detail' = [detail EXCEPT !.problem = "notFound", !.loading = FALSE]
          /\ UNCHANGED <<thread, crossed>>
  /\ UNCHANGED <<tables, buckets, serving, own, visits>>

\* It fails: an alert is added, and an idea shown before comes back under it.
IdeaFails(g) ==
  /\ g \in calls /\ calls' = calls \ {g}
  /\ IF ~g.live THEN UNCHANGED <<detail, thread, crossed>>
     ELSE /\ detail' = [detail EXCEPT !.problem = "error", !.loading = FALSE]
          /\ thread' = IF detail.idea = 0 THEN NoThread ELSE Mounted(detail.idea)
          /\ crossed' = FALSE
  /\ UNCHANGED <<tables, buckets, serving, own, visits>>

\* The thread is on the screen.
Showing == detail.idea # 0 /\ ~detail.loading /\ detail.problem # "notFound"
CanLoadMore == Len(thread.items) < thread.total

\* "Load more", unless the button still spins.
LoadMore ==
  /\ Showing /\ CanLoadMore /\ thread.load.at = "none" /\ thread.page < MaxPages
  /\ thread' = [thread EXCEPT !.failed = FALSE,
                              !.load = [NoLoad EXCEPT !.at = "asked", !.page = thread.page + 1]]
  /\ crossed' = (crossed \/ own = "sent")
  /\ UNCHANGED <<tables, buckets, serving, detail, calls, own, visits>>

\* The server reads the page.
ListRead ==
  /\ thread.load.at = "asked"
  /\ LET read == ListByIdea(detail.idea, thread.load.page) IN
     thread' = [thread EXCEPT !.load.at = "read", !.load.items = read.items, !.load.total = read.total]
  /\ UNCHANGED <<tables, buckets, serving, detail, calls, own, visits, crossed>>

\* Seeded fault: the page number is not moved on.
ListAnswered_SamePage(ok) ==
  /\ thread.load.at = "read"
  /\ thread' = IF ok
               THEN [thread EXCEPT !.load = NoLoad, !.total = thread.load.total,
                       !.items = IF thread.load.page = 1 THEN thread.load.items ELSE @ \o thread.load.items]
               ELSE [thread EXCEPT !.load = NoLoad, !.failed = TRUE]
  /\ UNCHANGED <<tables, buckets, serving, detail, calls, own, visits, crossed>>

\* fetchPage returns: the first page replaces the items, a later one is
\* appended.  After a first page that failed "load more" goes on to the
\* second: what the first holds is never asked for again.
ListAnswered(ok) ==
  /\ thread.load.at = "read"
  /\ thread' = IF ok
               THEN [thread EXCEPT !.load = NoLoad, !.total = thread.load.total, !.page = thread.load.page,
                       !.items = IF thread.load.page = 1 THEN thread.load.items ELSE @ \o thread.load.items]
               ELSE [thread EXCEPT !.load = NoLoad, !.failed = TRUE]
  /\ crossed' = (crossed \/ (~ok /\ thread.load.page = 1))
  /\ UNCHANGED <<tables, buckets, serving, detail, calls, own, visits>>

\* The comment form, or the form of the submission page; the page that
\* posts remembers the total it had.
Post(h, kind) ==
  /\ own # "sent" /\ HasRoom
  /\ IF kind = "comment" THEN Showing ELSE detail.id = 0
  /\ Admit(h, [kind |-> kind, of |-> detail.idea, ip |-> MyIp, by |-> "me", row |-> 0], TRUE)
  /\ own' = "sent"
  /\ thread' = [thread EXCEPT !.before = thread.total]
  /\ crossed' = (crossed \/ thread.load.at # "none")
  /\ UNCHANGED <<tables, detail, calls, visits>>

\* The answer to the visitor's own post.  A comment accepted is added at
\* the end, under the id the server gave it.
PostAnswered(h) ==
  /\ HasAnswer(h)
  /\ serving' = [serving EXCEPT ![h] = Free]
  /\ own' = "told"
  /\ IF serving[h].at = "ok" /\ serving[h].post.kind = "comment"
     THEN thread' = [thread EXCEPT !.items = Append(@, [id |-> serving[h].post.row, mine |-> TRUE]),
                                   !.total = thread.before + 1, !.before = 0]
     ELSE thread' = [thread EXCEPT !.before = 0]
  /\ UNCHANGED <<tables, buckets, detail, calls, visits, crossed>>

\* The answer is lost on its way: an error, whatever was stored.
PostLost(h) ==
  /\ serving[h] # Free /\ serving[h].heard
  /\ serving' = [serving EXCEPT ![h] = IF HasAnswer(h) THEN Free
                                       ELSE [@ EXCEPT !.heard = FALSE]]
  /\ own' = "told" /\ crossed' = (crossed \/ serving[h].at = "ok")
  /\ thread' = [thread EXCEPT !.before = 0]
  /\ UNCHANGED <<tables, buckets, detail, calls, visits>>

\* The moderator, with the database in hand, publishes or hides an idea.
Moderate(i) ==
  /\ i \in DOMAIN ideas
  /\ ideas' = [ideas EXCEPT ![i].status = IF @ = "public" THEN "hidden" ELSE "public"]
  /\ UNCHANGED <<comments, buckets, serving, board, own, visits, crossed>>

------------------------------------------------------------------------------
IdeasNext ==
  \/ \E h \in Handlers : (\E blank \in BOOLEAN : Count(h, blank)) \/ Create(h) \/ QueryFails(h)
  \/ \E h \in Handlers, i \in Busy, ip \in Ips : OthersPost(h, i, ip)
  \/ \E kind \in PostKinds, ip \in Ips : Refill(kind, ip) \/ OldestAges(kind, ip)
  \/ ServerRestarts
  \/ (\E i \in DOMAIN ideas : Open(i)) \/ (\E i \in Busy : Moderate(i))
  \/ Leave \/ LoadMore \/ ListRead
  \/ \E g \in calls : IdeaAnswered(g) \/ IdeaFails(g)
  \/ \E ok \in BOOLEAN : ListAnswered(ok)
  \/ \E h \in Handlers, kind \in PostKinds : Post(h, kind)
  \/ \E h \in Handlers : PostAnswered(h) \/ PostLost(h)

IdeasSpec == IdeasInit /\ [][IdeasNext]_ideasVars

------------------------------------------------------------------------------
\* The daily cap of one address is a count in the database, so that a
\* restart does not hand out a second day's worth (the comment at the top of
\* ratelimit.go).  The count is read before the row is written: only requests
\* in service at the same time pass it together, and whatever the restarts,
\* no address is ever further beyond its cap than that.
QuotaHolds ==
  \A kind \in PostKinds, ip \in Ips :
    LET writing == {h \in Handlers : serving[h].at = "inserting"
                      /\ serving[h].post.kind = kind /\ serving[h].post.ip = ip} IN
    CountSince(kind, ip) + Cardinality(writing) <= PerDay + Cardinality(Handlers) - 1

\* The idea under an address is that idea, however many calls were on their
\* way (the cancelled flag of IdeaDetailPage): only a failed call leaves the
\* one before it, under an alert.
AddressedIdea == Showing /\ detail.problem = "no" => detail.idea = detail.id

\* What the thread shows exists, belongs to the idea, and is marked as the
\* visitor's own exactly when it is.
ItemsAreReal ==
  \A k \in DOMAIN thread.items :
    LET item == thread.items[k] IN
    item.id \in DOMAIN comments
    /\ comments[item.id].of = detail.idea
    /\ (item.mine <=> comments[item.id].by = "me")

\* A thread that offers no more shows every comment, the visitor's own
\* included, though it counts what it loaded and what it posted together.
NothingHidden ==
  (Showing /\ ~CanLoadMore /\ thread.load.at = "none" /\ ~thread.failed /\ own # "sent" /\ ~crossed)
    => {thread.items[k].id : k \in DOMAIN thread.items} = ToSet(CommentsOf(detail.idea))

\* The page of an idea tells the truth about it.
ThreadIsTrue == AddressedIdea /\ ItemsAreReal /\ NothingHidden

\* The board keeps its cap (ratelimit.go:1-12) and its pages tell the truth.
BoardSound == QuotaHolds /\ ThreadIsTrue
=============================================================================
