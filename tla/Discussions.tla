---------------------------- MODULE Discussions ----------------------------
(***************************************************************************)
(* How an agent reads the discussion of its issue                          *)
(* (store/postgres/issue_discussions.go behind app/issue_discussions.go):  *)
(* the recent threads, one thread around a comment, and the comments newer *)
(* than a cursor, each bounded in depth and in number of comments.         *)
(* Comments are numbered by (created_at, id), a reply after the comment it *)
(* replies to.  While the reader pages through the updates, people write   *)
(* comments and delete comments without replies.                           *)
(***************************************************************************)
EXTENDS Naturals, Sequences, FiniteSets, FiniteSetsExt, SequencesExt

CONSTANTS
    MaxPosts,           \* bound: comments on the issue
    MaxDepth,           \* issueDiscussionMaxDepth
    MaxContext,         \* issueDiscussionContextLimit
    PageLimits,         \* the limits the agent asks for
    RootCandidates      \* issueDiscussionRootCandidateLimit

ASSUME DiscussionBounds ==
    /\ MaxPosts \in Nat /\ MaxDepth \in Nat \ {0} /\ RootCandidates \in Nat \ {0}
    /\ MaxContext \in Nat /\ MaxContext >= MaxDepth + 1 /\ PageLimits \subseteq Nat \ {0}

VARIABLES
    posts,      \* comment -> [parent (0: none), there]
    upTo,       \* the reader's cursor
    got         \* the reader: comments received as new, and the last page

discussionVars == <<posts, upTo, got>>

NoPage == [comments |-> <<>>, partial |-> {}, more |-> FALSE]

DiscussionInit == posts = <<>> /\ upTo = 0 /\ got = [fresh |-> {}, page |-> NoPage]

There == {c \in DOMAIN posts : posts[c].there}
Replies(c) == {d \in There : posts[d].parent = c}
Ascending(S) == SetToSortSeq(S, <)

\* the whole chain of a comment, root first
Ancestry == LET up[c \in DOMAIN posts] == IF posts[c].parent = 0 THEN <<c>>
                                          ELSE Append(up[posts[c].parent], c)
            IN  up

\* issueCommentAncestorIDsBoundedWith: at most MaxDepth levels above it
Chain(c) == LET all == Ancestry[c]
                from == IF Len(all) > MaxDepth + 1 THEN Len(all) - MaxDepth ELSE 1
            IN  SubSeq(all, from, Len(all))
Cut(c) == Len(Ancestry[c]) > MaxDepth + 1
RootOf(c) == Ancestry[c][1]

\* orderIssueCommentsAncestorFirstWithPartialContext: each tree in preorder,
\* siblings by age; a comment whose parent is absent must be marked partial
Ordered(S, partial) ==
    LET walk[c \in S] == <<c>> \o FlattenSeq([i \in 1..Cardinality(Replies(c) \cap S) |->
                                                walk[Ascending(Replies(c) \cap S)[i]]])
        roots == {c \in S : posts[c].parent = 0 \/ (posts[c].parent \notin S /\ c \in partial)}
    IN  FlattenSeq([i \in 1..Cardinality(roots) |-> walk[Ascending(roots)[i]]])

\* issueDiscussionContextTruncation: a comment is partial when the walk up
\* through the page ends at one that was accepted without its ancestors
Truncated(S, alone) ==
    LET cut[c \in S] == IF posts[c].parent = 0 THEN FALSE
                        ELSE IF posts[c].parent \in S THEN cut[posts[c].parent] ELSE c \in alone
    IN  {c \in S : cut[c]}

-----------------------------------------------------------------------------
\* a full page that goes on with the next candidate instead of stopping
AcceptWhatFits(acc, c) ==
    LET held == acc.held \cup (IF Cut(c) THEN {c} ELSE ToSet(Chain(c)))
    IN  IF Cardinality(held) > MaxContext THEN acc
        ELSE [acc EXCEPT !.held = held, !.new = Append(@, c), !.alone = IF Cut(c) THEN @ \cup {c} ELSE @]

\* ListIssueDiscussionUpdates: candidates after the cursor, each with the
\* ancestors the page lacks, until the page is full
AcceptUpdate(acc, c) ==
    LET context == IF Cut(c) THEN {c} ELSE ToSet(Chain(c))
        held == acc.held \cup context
    IN  IF acc.full \/ Cardinality(held) > MaxContext THEN [acc EXCEPT !.full = TRUE]
        ELSE [acc EXCEPT !.held = held, !.new = Append(@, c), !.alone = IF Cut(c) THEN @ \cup {c} ELSE @]

Updates(cursor, limit) ==
    LET newer == Ascending({c \in There : c > cursor})
        candidates == SubSeq(newer, 1, IF Len(newer) > limit THEN limit ELSE Len(newer))
        acc == FoldLeft(AcceptUpdate, [held |-> {}, new |-> <<>>, alone |-> {}, full |-> FALSE], candidates)
        partial == Truncated(acc.held, acc.alone)
    IN  [new |-> acc.new, comments |-> Ordered(acc.held, partial), partial |-> partial,
         more |-> Len(newer) > limit \/ acc.full \/ Len(acc.new) < Len(candidates)]

ReadUpdates(limit) ==
    LET page == Updates(upTo, limit)
    IN  /\ upTo' = IF page.new = <<>> THEN upTo ELSE Last(page.new)
        /\ got' = [fresh |-> got.fresh \cup ToSet(page.new),
                   page |-> [comments |-> page.comments, partial |-> page.partial, more |-> page.more]]
        /\ UNCHANGED posts

\* createIssueComment under an undeleted parent, and the hard deletion of a
\* comment without replies (a tombstone keeps its place in the discussion)
WritePost(parent) ==
    /\ Len(posts) < MaxPosts
    /\ parent # 0 => posts[parent].there
    /\ posts' = Append(posts, [parent |-> parent, there |-> TRUE])
    /\ got' = [got EXCEPT !.page = NoPage]
    /\ UNCHANGED upTo

RemovePost(c) ==
    /\ posts[c].there /\ Replies(c) = {}
    /\ posts' = [posts EXCEPT ![c].there = FALSE]
    /\ got' = [got EXCEPT !.page = NoPage]
    /\ UNCHANGED upTo

DiscussionNext ==
    \/ \E limit \in PageLimits : ReadUpdates(limit)
    \/ \E parent \in 0..Len(posts) : WritePost(parent)
    \/ \E c \in DOMAIN posts : RemovePost(c)

DiscussionSpec == DiscussionInit /\ [][DiscussionNext]_discussionVars

-----------------------------------------------------------------------------

\* boundedIssueCommentTreeIDs: breadth first, a level at a time
TreeLevels(root, most) ==
    LET level[d \in 0..MaxDepth] ==
          IF d = 0 THEN [ids |-> <<root>>, frontier |-> <<root>>, more |-> FALSE]
          ELSE LET last == level[d - 1]
                   kids == Ascending(UNION {Replies(c) : c \in ToSet(last.frontier)})
                   room == most - Len(last.ids)
                   taken == SubSeq(kids, 1, IF Len(kids) > room THEN room ELSE Len(kids))
               IN  IF last.more \/ last.frontier = <<>> THEN last
                   ELSE [ids |-> last.ids \o taken, frontier |-> taken, more |-> Len(kids) > room]
        deep == level[MaxDepth]
    IN  [ids |-> deep.ids, more |-> deep.more \/ \E c \in ToSet(deep.frontier) : Replies(c) # {}]

\* GetIssueDiscussionThread: when the bounded tree misses the anchor, the
\* anchor's chain goes first and the tree fills what is left
Thread(anchor, most) ==
    LET chain == Chain(anchor)
        tree == TreeLevels(chain[1], most)
        rest == SelectSeq(tree.ids, LAMBDA c : c \notin ToSet(chain))
        room == most - Len(chain)
    IN  IF Cut(anchor) THEN [ok |-> FALSE, comments |-> <<>>, more |-> TRUE]
        ELSE IF anchor \in ToSet(tree.ids)
        THEN [ok |-> TRUE, comments |-> Ordered(ToSet(tree.ids), {}), more |-> tree.more]
        ELSE IF Len(chain) > most THEN [ok |-> FALSE, comments |-> <<>>, more |-> TRUE]
        ELSE [ok |-> TRUE, more |-> TRUE,
              comments |-> Ordered(ToSet(chain) \cup ToSet(SubSeq(rest, 1, IF Len(rest) > room THEN room ELSE Len(rest))), {})]

\* ListIssueDiscussionRoots: newest comments first, stopping at one beyond
\* the supported depth
RecentRoots(limit) ==
    LET newest == Reverse(Ascending(There))
        candidates == SubSeq(newest, 1, IF Len(newest) > RootCandidates THEN RootCandidates ELSE Len(newest))
        take(acc, c) == IF acc.stop \/ Cut(c) \/ Len(acc.roots) = limit THEN [acc EXCEPT !.stop = TRUE]
                        ELSE IF \E i \in DOMAIN acc.roots : acc.roots[i].id = RootOf(c) THEN acc
                        ELSE [acc EXCEPT !.roots = Append(@, [id |-> RootOf(c), latest |-> c])]
    IN  FoldLeft(take, [roots |-> <<>>, stop |-> FALSE], candidates).roots

-----------------------------------------------------------------------------
\* Type correctness of the comments and the reader's state.
DiscussionTypeOK ==
    /\ \A c \in DOMAIN posts : posts[c].parent \in 0..(c - 1) /\ posts[c].there \in BOOLEAN
    /\ upTo \in 0..Len(posts) /\ got.fresh \subseteq DOMAIN posts

\* The cursor never passes a comment the reader did not get: every comment up
\* to it that still exists was delivered as new, although pages are cut by
\* their limit and by the room their ancestors take.
NothingSkipped == \A c \in There : c <= upTo => c \in got.fresh

\* Reading makes progress and tells when it is done: while newer comments
\* exist a page holds at least one, and a page that says there are no more
\* leaves none behind.
UpdatesProgress ==
    \A limit \in PageLimits :
        LET page == Updates(upTo, limit)
            newer == {c \in There : c > upTo}
        IN  /\ newer # {} => page.new # <<>>
            /\ ~page.more => ToSet(page.new) = newer

\* A page can be read top down: it keeps every comment it collected, within
\* the limit, and each comes after its parent or is marked as partial context.
PageIsReadable ==
    LET page == got.page.comments
    IN  /\ Len(page) <= MaxContext /\ IsInjective(page)
        /\ \A i \in DOMAIN page :
              posts[page[i]].parent = 0 \/ page[i] \in got.page.partial
                  \/ \E j \in 1..(i - 1) : page[j] = posts[page[i]].parent
        /\ \A limit \in PageLimits : \A c \in ToSet(Updates(upTo, limit).new) :
              c \in ToSet(Updates(upTo, limit).comments)

\* A thread read shows the comment it was asked for within the limit, never a
\* reply without its parent, and only claims to be complete when it is.
ThreadIsSound ==
    \A anchor \in There, most \in 1..MaxPosts :
        LET t == Thread(anchor, most)
            shown == ToSet(t.comments)
        IN  t.ok => /\ anchor \in shown /\ Len(t.comments) <= most /\ IsInjective(t.comments)
                    /\ \A c \in shown : posts[c].parent # 0 => posts[c].parent \in shown
                    /\ ~t.more => shown = {c \in There : RootOf(c) = RootOf(anchor)}

\* The recent threads are listed with their true last activity, newest first,
\* never twice ("so we never return a root with a stale last-activity
\* timestamp").
RootsAreFresh ==
    \A limit \in PageLimits :
        LET roots == RecentRoots(limit)
        IN  /\ Len(roots) <= limit
            /\ \A i \in DOMAIN roots :
                  roots[i].latest = Max({c \in There : RootOf(c) = roots[i].id})
            /\ \A i, j \in DOMAIN roots : i < j => roots[i].latest > roots[j].latest

\* DiscussionSafe: the cursor skips nothing and reading progresses, and every page,
\* thread and list of threads an agent reads is sound within its limits.
DiscussionSafe == /\ DiscussionTypeOK /\ NothingSkipped /\ UpdatesProgress
                  /\ PageIsReadable /\ ThreadIsSound /\ RootsAreFresh
=============================================================================
