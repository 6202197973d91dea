---------------------------- MODULE Discussions ----------------------------
(***************************************************************************)
(* The discussion under one lesson (apps/api/src/modules/discussions):     *)
(* posts and replies, upvotes, moderation, and the notifications that      *)
(* replies send.  Statements are awaited one by one; a call's checks       *)
(* before its first read of a post are part of its start.                  *)
(***************************************************************************)
EXTENDS Naturals, FiniteSets

CONSTANTS
  Posts,       \* rows of discussion_posts
  People,      \* those who are signed in
  Enrolled,    \* learners of the course
  Staff,       \* administrators and the course's instructor
  Speakers,    \* calls that may be in flight at once
  NoPost, NoPerson,
  MaxMessages, \* bound: calls made
  MaxUpsets    \* bound: crashes

VARIABLES
  posts,       \* discussion_posts
  ballots,     \* discussion_votes: pairs of a post and a person
  alerts,      \* replies people were notified of: pairs of a reply and a person
  modLog,      \* audit_log: pairs of a post and what was done to it
  speech,      \* the calls in flight
  crossTalk,   \* history: have two calls ever been in flight at once?
  messages,    \* calls so far
  upsets       \* crashes so far

history == <<crossTalk, messages, upsets>>
vars == <<posts, ballots, alerts, modLog, speech, history>>

MaxReplyDepth == 2
Post == [status : {"none", "visible", "hidden", "deleted"}, parent : Posts \union {NoPost},
         depth : 0..MaxReplyDepth, author : People \union {NoPerson}, upvotes : Nat,
         edited : BOOLEAN]
Step == {"idle", "chain", "insert", "alert", "look", "unvote", "vote", "score",
         "edit", "moderate", "log"}
Verb == {"post", "toggle", "edit", "hide", "unhide", "delete"}
Speech == [pc : Step, verb : Verb, who : People \union {NoPerson}, post : Posts \union {NoPost},
           depth : 0..MaxReplyDepth, ancestors : SUBSET People, upvotes : Nat]
NoRow == [status |-> "none", parent |-> NoPost, depth |-> 0, author |-> NoPerson,
          upvotes |-> 0, edited |-> FALSE]
Idle == [pc |-> "idle", verb |-> "post", who |-> NoPerson, post |-> NoPost, depth |-> 0,
         ancestors |-> {}, upvotes |-> 0]

(* Posts, votes, notifications and calls have their types. *)
TypeOK ==
  /\ posts \in [Posts -> Post]
  /\ ballots \in SUBSET (Posts \X People)
  /\ alerts \in SUBSET (Posts \X People)
  /\ modLog \in SUBSET (Posts \X Verb)
  /\ speech \in [Speakers -> Speech]
  /\ crossTalk \in BOOLEAN
  /\ messages \in 0..MaxMessages /\ upsets \in 0..MaxUpsets

Init ==
  /\ posts = [p \in Posts |-> NoRow]
  /\ ballots = {} /\ alerts = {} /\ modLog = {}
  /\ speech = [s \in Speakers |-> Idle]
  /\ crossTalk = FALSE
  /\ messages = 0 /\ upsets = 0

-----------------------------------------------------------------------------
(* Helpers *)

IsModerator(who) == who \in Staff
HasThreadAccess(who) == who \in Enrolled \/ IsModerator(who)
Exists(p) == p \in Posts /\ posts[p].status \in {"visible", "hidden"}
At(s, step) == speech[s].pc = step
Goto(s, step) == speech' = [speech EXCEPT ![s].pc = step]
Return(s) == speech' = [speech EXCEPT ![s] = Idle]
Begin(s, c) ==
  /\ At(s, "idle") /\ messages < MaxMessages
  /\ messages' = messages + 1
  /\ speech' = [speech EXCEPT ![s] = c]
  /\ crossTalk' = (crossTalk \/ \E t \in Speakers \ {s} : ~At(t, "idle"))
  /\ UNCHANGED <<posts, ballots, alerts, modLog, upsets>>

-----------------------------------------------------------------------------
(* createPost *)

(* A post of its own. *)
CreatePost(s, who) ==
  /\ HasThreadAccess(who)
  /\ Begin(s, [Idle EXCEPT !.pc = "insert", !.who = who])

(* A reply, at most three levels deep, to a post that is there.            *)
CreateReply(s, who, parent) ==
  /\ HasThreadAccess(who)
  /\ Exists(parent) /\ posts[parent].depth < MaxReplyDepth
  /\ Begin(s, [Idle EXCEPT !.pc = "chain", !.who = who, !.post = parent,
                           !.depth = posts[parent].depth + 1])

Mutant_WalkChain_Parent(s) ==
  /\ At(s, "chain")
  /\ speech' = [speech EXCEPT ![s].pc = "insert",
                  ![s].ancestors = {posts[speech[s].post].author} \ {NoPerson}]
  /\ UNCHANGED <<posts, ballots, alerts, modLog, history>>

(* The authors above the reply: its parent's and, for the third level, the *)
(* root's.  (A parent deleted meanwhile gives none.)                       *)
WalkChain(s) ==
  LET parent == speech[s].post
      above == IF Exists(parent) THEN {parent, posts[parent].parent} \ {NoPost} ELSE {}
  IN
  /\ At(s, "chain")
  /\ speech' = [speech EXCEPT ![s].pc = "insert",
                  ![s].ancestors = {posts[p].author : p \in above}]
  /\ UNCHANGED <<posts, ballots, alerts, modLog, history>>

(* The insert fails when the parent is gone. *)
InsertPost(s, p) ==
  LET c == speech[s] IN
  /\ At(s, "insert") /\ posts[p].status = "none"
  /\ IF c.post = NoPost \/ Exists(c.post)
       THEN /\ posts' = [posts EXCEPT ![p] = [NoRow EXCEPT !.status = "visible",
                           !.parent = c.post, !.depth = c.depth, !.author = c.who]]
            /\ speech' = [speech EXCEPT ![s].pc = "alert", ![s].post = p,
                            ![s].ancestors = @ \ {c.who}]
       ELSE UNCHANGED posts /\ Return(s)
  /\ UNCHANGED <<ballots, alerts, modLog, history>>

(* notifyDiscussionReply, one recipient after the other. *)
AlertAncestor(s) ==
  /\ At(s, "alert")
  /\ \E person \in speech[s].ancestors :
       /\ alerts' = alerts \union {<<speech[s].post, person>>}
       /\ speech' = [speech EXCEPT ![s].ancestors = @ \ {person}]
  /\ UNCHANGED <<posts, ballots, modLog, history>>

AnswerPost(s) ==
  /\ At(s, "alert") /\ speech[s].ancestors = {}
  /\ Return(s)
  /\ UNCHANGED <<posts, ballots, alerts, modLog, history>>

-----------------------------------------------------------------------------
(* toggleVote: on a visible post, or one's own, by anybody signed in.     *)

ToggleVote(s, who, p) ==
  /\ Exists(p) /\ (posts[p].status = "visible" \/ posts[p].author = who)
  /\ Begin(s, [Idle EXCEPT !.pc = "look", !.verb = "toggle", !.who = who, !.post = p,
                           !.upvotes = posts[p].upvotes])

LookForVote(s) ==
  /\ At(s, "look")
  /\ Goto(s, IF <<speech[s].post, speech[s].who>> \in ballots THEN "unvote" ELSE "vote")
  /\ UNCHANGED <<posts, ballots, alerts, modLog, history>>

DeleteVote(s) ==
  /\ At(s, "unvote")
  /\ ballots' = ballots \ {<<speech[s].post, speech[s].who>>}
  /\ speech' = [speech EXCEPT ![s].pc = "score", ![s].upvotes = IF @ > 0 THEN @ - 1 ELSE 0]
  /\ UNCHANGED <<posts, alerts, modLog, history>>

(* The insert fails for a vote already there, or a post that is gone.      *)
InsertVote(s) ==
  LET c == speech[s] IN
  /\ At(s, "vote")
  /\ IF <<c.post, c.who>> \in ballots \/ ~Exists(c.post)
       THEN UNCHANGED ballots /\ Return(s)
       ELSE /\ ballots' = ballots \union {<<c.post, c.who>>}
            /\ speech' = [speech EXCEPT ![s].pc = "score", ![s].upvotes = @ + 1]
  /\ UNCHANGED <<posts, alerts, modLog, history>>

(* The count goes by the count read at the start of the call.              *)
WriteScore(s) ==
  LET c == speech[s] IN
  /\ At(s, "score")
  /\ posts' = IF Exists(c.post) THEN [posts EXCEPT ![c.post].upvotes = c.upvotes] ELSE posts
  /\ Return(s)
  /\ UNCHANGED <<ballots, alerts, modLog, history>>

-----------------------------------------------------------------------------
(* editPost, by the author. *)

EditPost(s, p) ==
  /\ Exists(p)
  /\ Begin(s, [Idle EXCEPT !.pc = "edit", !.verb = "edit", !.who = posts[p].author, !.post = p])

WriteEdit(s) ==
  LET c == speech[s] IN
  /\ At(s, "edit")
  /\ posts' = IF Exists(c.post) THEN [posts EXCEPT ![c.post].edited = TRUE] ELSE posts
  /\ Return(s)
  /\ UNCHANGED <<ballots, alerts, modLog, history>>

-----------------------------------------------------------------------------
(* moderatePost, by staff: hide, unhide or delete, then the audit log.     *)

ModeratePost(s, who, p, verb) ==
  /\ IsModerator(who)
  /\ Exists(p)
  /\ Begin(s, [Idle EXCEPT !.pc = "moderate", !.verb = verb, !.who = who, !.post = p])

(* The posts of the subtree under p. *)
Below(p) == {q \in Posts : posts[q].parent = p}
Subtree(p) == {p} \union Below(p) \union UNION {Below(q) : q \in Below(p)}

(* Deletion takes the replies and the votes along. *)
WriteModeration(s) ==
  LET c == speech[s]
      gone == IF c.verb = "delete" /\ Exists(c.post) THEN Subtree(c.post) ELSE {}
      status == IF c.verb = "hide" THEN "hidden" ELSE "visible"
  IN
  /\ At(s, "moderate")
  /\ posts' = [p \in Posts |->
       IF p \in gone THEN [posts[p] EXCEPT !.status = "deleted"]
       ELSE IF p = c.post /\ Exists(p) THEN [posts[p] EXCEPT !.status = status]
       ELSE posts[p]]
  /\ ballots' = {b \in ballots : b[1] \notin gone}
  /\ Goto(s, "log")
  /\ UNCHANGED <<alerts, modLog, history>>

LogModeration(s) ==
  /\ At(s, "log")
  /\ modLog' = modLog \union {<<speech[s].post, speech[s].verb>>}
  /\ Return(s)
  /\ UNCHANGED <<posts, ballots, alerts, history>>

-----------------------------------------------------------------------------
(* The process dies, or a statement fails: the call ends where it is.      *)
Crash(s) ==
  /\ ~At(s, "idle") /\ upsets < MaxUpsets
  /\ upsets' = upsets + 1
  /\ Return(s)
  /\ UNCHANGED <<posts, ballots, alerts, modLog, crossTalk, messages>>

DiscussionRequest ==
  \E s \in Speakers :
    \/ \E who \in People : CreatePost(s, who)
    \/ \E who \in People, p \in Posts : CreateReply(s, who, p) \/ ToggleVote(s, who, p)
    \/ \E p \in Posts : EditPost(s, p)
    \/ \E who \in People, p \in Posts, verb \in {"hide", "unhide", "delete"} :
         ModeratePost(s, who, p, verb)

SpeechStep(s) ==
  \/ WalkChain(s) \/ (\E p \in Posts : InsertPost(s, p)) \/ AlertAncestor(s) \/ AnswerPost(s)
  \/ LookForVote(s) \/ DeleteVote(s) \/ InsertVote(s) \/ WriteScore(s)
  \/ WriteEdit(s) \/ WriteModeration(s) \/ LogModeration(s)

Next == DiscussionRequest \/ \E s \in Speakers : SpeechStep(s) \/ Crash(s)

Spec == Init /\ [][Next]_vars

-----------------------------------------------------------------------------
(* listThread: what a viewer is shown. *)

Visible(viewer) ==
  {p \in Posts : Exists(p) /\ \/ posts[p].status = "visible"
                              \/ posts[p].author = viewer \/ IsModerator(viewer)}
Roots(viewer) == {p \in Visible(viewer) : posts[p].parent \notin Visible(viewer)}
Replies(viewer, p) == Below(p) \intersect Visible(viewer)

(* Two levels of replies are hung under each root. *)
Thread(viewer) ==
  LET first == UNION {Replies(viewer, p) : p \in Roots(viewer)}
  IN Roots(viewer) \union first \union UNION {Replies(viewer, p) : p \in first}

(* searchPosts: posts that are visible, whatever they are a reply to.      *)
SearchPosts(viewer) == {p \in Posts : posts[p].status = "visible"}

-----------------------------------------------------------------------------
(* Properties *)

(* What a viewer may see is in the thread somewhere, also under a post     *)
(* that is hidden from them; so is whatever a search finds for them.       *)
ThreadIsWhole ==
  \A viewer \in People :
    HasThreadAccess(viewer) => /\ Thread(viewer) = Visible(viewer)
                               /\ SearchPosts(viewer) \subseteq Thread(viewer)

(* Without crashes, everybody above a reply hears of it (unless it is      *)
(* their own), once the call that wrote it is over.                        *)
Above(p) == {q \in Posts : \/ q = posts[p].parent
                           \/ posts[p].parent \in Posts /\ q = posts[posts[p].parent].parent}
Heard(p, but) ==
  \A q \in Above(p) : posts[q].author # posts[p].author =>
    <<p, posts[q].author>> \in alerts \/ posts[q].author \in but
RepliesAreHeard ==
  \A p \in Posts : Exists(p) /\ upsets = 0 =>
    Heard(p, {}) \/ \E s \in Speakers : At(s, "alert") /\ speech[s].post = p

(* Without crashes, and as long as calls do not overlap (each writes the   *)
(* count it computed from the one it read), a post has as many upvotes as  *)
(* there are votes for it, but for the one whose count is being written.   *)
Votes(p) == {b \in ballots : b[1] = p}
ScoreIsVotes ==
  \A p \in Posts :
    Exists(p) /\ ~crossTalk /\ upsets = 0 =>
      \/ \E s \in Speakers : At(s, "score") /\ speech[s].post = p
      \/ posts[p].upvotes = Cardinality(Votes(p))

(* Without crashes, what moderation did is in the audit log. *)
ModerationIsLogged ==
  \A p \in Posts :
    posts[p].status = "hidden" /\ upsets = 0 =>
      \/ <<p, "hide">> \in modLog
      \/ \E s \in Speakers : At(s, "log") /\ speech[s].post = p /\ speech[s].verb = "hide"

(* What they rest on: a reply is one level below a post that was written,  *)
(* votes are for posts that were, one call at a time as long as calls do   *)
(* not overlap, and a call's idea of its post is right.                    *)
Written(p) == p \in Posts /\ posts[p].status # "none"
OneBelow(depth, parent) ==
  IF parent = NoPost THEN depth = 0 ELSE Written(parent) /\ depth = posts[parent].depth + 1
Threaded ==
  \A p \in Posts : IF Written(p)
                      THEN posts[p].author \in People /\ OneBelow(posts[p].depth, posts[p].parent)
                      ELSE posts[p] = NoRow
Alone == ~crossTalk => \A s, t \in Speakers : ~At(s, "idle") /\ ~At(t, "idle") => s = t
SpeechOK(s) ==
  LET c == speech[s] IN
  /\ c.pc \in {"chain", "insert"} => c.who \in People /\ OneBelow(c.depth, c.post)
  /\ c.pc = "chain" => c.post # NoPost
  /\ c.pc = "insert" /\ Exists(c.post) =>
       /\ posts[c.post].author \in c.ancestors
       /\ posts[c.post].parent \in Posts => posts[posts[c.post].parent].author \in c.ancestors
  /\ c.pc = "alert" => Written(c.post) /\ Heard(c.post, c.ancestors)
  /\ c.pc \in {"look", "unvote", "vote", "score"} => Written(c.post) /\ c.who \in People
  /\ c.pc \in {"edit", "moderate", "log"} => Written(c.post)
  /\ ~crossTalk =>
       /\ c.pc \in {"look", "unvote", "vote"} => c.upvotes = posts[c.post].upvotes
       /\ c.pc = "unvote" => <<c.post, c.who>> \in ballots
       /\ c.pc = "score" /\ Exists(c.post) /\ upsets = 0 =>
            c.upvotes = Cardinality(Votes(c.post))

(* The forum's invariant: types, whole threads, notified replies, counted  *)
(* votes, logged moderation; with what they rest on, it is inductive.      *)
ForumInv ==
  /\ TypeOK /\ ThreadIsWhole /\ RepliesAreHeard /\ ScoreIsVotes /\ ModerationIsLogged
  /\ Threaded /\ Alone /\ \A b \in ballots : Written(b[1])
  /\ \A s \in Speakers : SpeechOK(s)
=============================================================================
