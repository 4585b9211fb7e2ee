------------------------------ MODULE Community ------------------------------
(***************************************************************************)
(* Shared cards with their likes and comments (card_share_router.py,       *)
(* card_share_repository_impl.py) and the boards that link to them         *)
(* (board_router.py, board_repository_impl.py).                            *)
(*                                                                         *)
(* A handler has no await, so one server process runs it from end to end;  *)
(* with several workers (docs/2026-04-21-perf-and-type-refactor.md) the    *)
(* handlers of different processes interleave.  MySQL gives a request one  *)
(* snapshot at its first SELECT, and the update of the card's row, which   *)
(* every write of a like or a comment starts with, makes the transactions  *)
(* on one card wait for each other.  So a request is a read step and a     *)
(* write step, and each write takes effect at once.                        *)
(***************************************************************************)
EXTENDS Naturals, FiniteSets

CONSTANTS Processes,    \* the workers of the server
          Accounts,     \* who is logged in
          Guests,       \* guest_id cookies and IP addresses
          MaxCards,     \* bound: cards ever shared
          MaxComments,  \* bound: comments of one card
          MaxBoards,    \* bound: boards ever created
          MaxUnmatched  \* bound: likes of one card removed twice

ASSUME CommunityAssumption ==
    /\ MaxCards \in Nat
    /\ MaxComments \in Nat
    /\ MaxBoards \in Nat
    /\ MaxUnmatched \in Nat

VARIABLES cardsMade,     \* the last id of shared_cards: ids never come back
          cards,         \* the ids of the rows of shared_cards
          sharer,        \* card -> account
          likeCount,     \* card -> shared_cards.like_count
          commentCount,  \* card -> shared_cards.comment_count
          likes,         \* the rows of card_likes
          comments,      \* card -> number of its rows in card_comments
          boards,        \* the rows of the boards
          boardsMade,    \* the last id of the boards
          request,       \* process -> what it has read and is about to write
          unmatched      \* history, card -> DELETEs of a like that met no row

communityVars == <<cardsMade, cards, sharer, likeCount, commentCount, likes,
                   comments, boards, boardsMade, request, unmatched>>
tables == <<cardsMade, cards, sharer, likeCount, commentCount, likes, comments,
            boards, boardsMade, unmatched>>

CardIds == 1..MaxCards
People == Accounts \cup Guests
Nobody == [op |-> "idle"]

\* The two unique constraints come to one row per card and identity, as an
\* account's row carries "account:{id}" for its address.
Like == [card : CardIds, who : People]
Board == [id : 1..MaxBoards, author : Accounts, card : CardIds]
Request == {Nobody}
           \cup [op : {"like", "unlike", "gone"}, card : CardIds, who : People]
           \cup [op : {"comment"}, card : CardIds]
           \cup [op : {"board"}, card : CardIds, who : Accounts]

CommunityInit ==
    /\ cardsMade = 0 /\ cards = {}
    /\ sharer = [c \in CardIds |-> CHOOSE a \in Accounts : TRUE]
    /\ likeCount = [c \in CardIds |-> 0]
    /\ commentCount = [c \in CardIds |-> 0]
    /\ likes = {}
    /\ comments = [c \in CardIds |-> 0]
    /\ boards = {} /\ boardsMade = 0
    /\ request = [p \in Processes |-> Nobody]
    /\ unmatched = [c \in CardIds |-> 0]

LikesOf(c) == {l \in likes : l.card = c}
Idle(p) == request[p] = Nobody
Ask(p, r) == request' = [request EXCEPT ![p] = r]

---------------------------------------------------------------------------
(* Cards.                                                                  *)

\* CardShareRepositoryImpl.save: a new row, with both counts at 0.
NewCard(a) ==
    /\ cardsMade < MaxCards
    /\ cardsMade' = cardsMade + 1
    /\ cards' = cards \cup {cardsMade + 1}
    /\ sharer' = [sharer EXCEPT ![cardsMade + 1] = a]

\* POST /card-share, by somebody logged in.
ShareCard(p, a) ==
    /\ Idle(p)
    /\ NewCard(a)
    /\ UNCHANGED <<likeCount, commentCount, likes, comments, boards,
                   boardsMade, request, unmatched>>

\* DELETE /card-share/{card_id}, by the sharer.  Its likes, comments and boards
\* stay behind.
DeleteSharedCard(p, a, c) ==
    /\ Idle(p)
    /\ c \in cards /\ sharer[c] = a
    /\ cards' = cards \ {c}
    /\ UNCHANGED <<cardsMade, sharer, likeCount, commentCount, likes, comments,
                   boards, boardsMade, request, unmatched>>

---------------------------------------------------------------------------
(* Likes and comments.                                                     *)

\* POST /card-share/{card_id}/likes: find_by_id and find_like decide which of
\* add_like and remove_like follows.
ToggleLike(p, who, c) ==
    /\ Idle(p)
    /\ c \in cards
    /\ Ask(p, [op |-> IF [card |-> c, who |-> who] \in likes
                      THEN "unlike" ELSE "like",
               card |-> c, who |-> who])
    /\ UNCHANGED tables

\* The count of a card that still exists moves with the row.
AddLike(p) ==
    /\ request[p].op = "like"
    /\ LET r == request[p]
           row == [card |-> r.card, who |-> r.who]
       IN  /\ row \notin likes
           /\ likes' = likes \cup {row}
           /\ likeCount' = IF r.card \in cards
                           THEN [likeCount EXCEPT ![r.card] = @ + 1]
                           ELSE likeCount
    /\ Ask(p, Nobody)
    /\ UNCHANGED <<cardsMade, cards, sharer, commentCount, comments, boards,
                   boardsMade, unmatched>>

\* Mutant: the count is committed before the row is refused.
CountRefusedLike(p) ==
    /\ request[p].op = "like"
    /\ [card |-> request[p].card, who |-> request[p].who] \in likes
    /\ likeCount' = [likeCount EXCEPT ![request[p].card] = @ + 1]
    /\ Ask(p, Nobody)
    /\ UNCHANGED <<cardsMade, cards, sharer, commentCount, likes, comments,
                   boards, boardsMade, unmatched>>

\* Another process wrote the same like first: the flush violates a unique
\* constraint, and the rollback takes the count back with the row.
LikeRefused(p) ==
    /\ request[p].op = "like"
    /\ [card |-> request[p].card, who |-> request[p].who] \in likes
    /\ Ask(p, Nobody)
    /\ UNCHANGED tables

\* remove_like counts down, not below 0, and deletes the row it read.
CountDown(c) ==
    likeCount' = IF c \in cards /\ likeCount[c] > 0
                 THEN [likeCount EXCEPT ![c] = @ - 1]
                 ELSE likeCount

\* A like given again is another row: whoever read this one will find it gone.
Settle(p) ==
    request' = [q \in Processes |->
                  IF q = p THEN Nobody
                  ELSE IF request[q] = request[p]
                       THEN [request[q] EXCEPT !.op = "gone"]
                       ELSE request[q]]

RemoveLike(p) ==
    /\ request[p].op = "unlike"
    /\ likes' = likes \ {[card |-> request[p].card, who |-> request[p].who]}
    /\ CountDown(request[p].card)
    /\ Settle(p)
    /\ UNCHANGED <<cardsMade, cards, sharer, commentCount, comments, boards,
                   boardsMade, unmatched>>

\* The DELETE matches no row, which SQLAlchemy only warns of: the count goes
\* down all the same.
RemoveGoneLike(p) ==
    /\ request[p].op = "gone"
    /\ unmatched[request[p].card] < MaxUnmatched
    /\ unmatched' = [unmatched EXCEPT ![request[p].card] = @ + 1]
    /\ CountDown(request[p].card)
    /\ Ask(p, Nobody)
    /\ UNCHANGED <<cardsMade, cards, sharer, commentCount, likes, comments,
                   boards, boardsMade>>

\* POST /card-share/{card_id}/comments: find_by_id, then the row and the count
\* in one commit.
FindCommentedCard(p, c) ==
    /\ Idle(p)
    /\ c \in cards
    /\ comments[c] < MaxComments
    /\ Ask(p, [op |-> "comment", card |-> c])
    /\ UNCHANGED tables

AddComment(p) ==
    /\ request[p].op = "comment"
    /\ LET c == request[p].card
       IN  /\ comments' = [comments EXCEPT ![c] = @ + 1]
           /\ commentCount' = IF c \in cards
                              THEN [commentCount EXCEPT ![c] = @ + 1]
                              ELSE commentCount
    /\ Ask(p, Nobody)
    /\ UNCHANGED <<cardsMade, cards, sharer, likeCount, likes, boards,
                   boardsMade, unmatched>>

\* A commit that fails is rolled back, and the request fails.  After the first
\* commit of create_board the card it made stays, with no board.
RequestFails(p) ==
    /\ ~Idle(p)
    /\ Ask(p, Nobody)
    /\ UNCHANGED tables

---------------------------------------------------------------------------
(* Boards.                                                                 *)

\* POST /board with a card of one's own.
LinkCard(p, a, c) ==
    /\ Idle(p)
    /\ boardsMade < MaxBoards
    /\ c \in cards /\ sharer[c] = a
    /\ Ask(p, [op |-> "board", card |-> c, who |-> a])
    /\ UNCHANGED tables

\* POST /board without one: a card is made for its likes and comments, and
\* committed.
MakeBoardCard(p, a) ==
    /\ Idle(p)
    /\ boardsMade < MaxBoards
    /\ NewCard(a)
    /\ Ask(p, [op |-> "board", card |-> cardsMade + 1, who |-> a])
    /\ UNCHANGED <<likeCount, commentCount, likes, comments, boards,
                   boardsMade, unmatched>>

SaveBoard(p) ==
    /\ request[p].op = "board"
    /\ boardsMade < MaxBoards
    /\ boardsMade' = boardsMade + 1
    /\ boards' = boards \cup {[id |-> boardsMade + 1, author |-> request[p].who,
                               card |-> request[p].card]}
    /\ Ask(p, Nobody)
    /\ UNCHANGED <<cardsMade, cards, sharer, likeCount, commentCount, likes,
                   comments, unmatched>>

\* DELETE /board/delete/{board_id}, by the author.  The card stays.
DeleteBoard(p, a) ==
    /\ Idle(p)
    /\ \E b \in boards :
          /\ b.author = a
          /\ boards' = boards \ {b}
    /\ UNCHANGED <<cardsMade, cards, sharer, likeCount, commentCount, likes,
                   comments, boardsMade, request, unmatched>>

CardStep(p) ==
    \/ \E a \in Accounts : ShareCard(p, a)
    \/ \E a \in Accounts, c \in CardIds : DeleteSharedCard(p, a, c)
    \/ \E who \in People, c \in CardIds : ToggleLike(p, who, c)
    \/ AddLike(p)
    \/ LikeRefused(p)
    \/ RemoveLike(p)
    \/ RemoveGoneLike(p)
    \/ \E c \in CardIds : FindCommentedCard(p, c)
    \/ AddComment(p)
    \/ RequestFails(p)

BoardStep(p) ==
    \/ \E a \in Accounts, c \in CardIds : LinkCard(p, a, c)
    \/ \E a \in Accounts : MakeBoardCard(p, a)
    \/ SaveBoard(p)
    \/ \E a \in Accounts : DeleteBoard(p, a)

CommunityNext == \E p \in Processes : CardStep(p) \/ BoardStep(p)

CommunitySpec == CommunityInit /\ [][CommunityNext]_communityVars

---------------------------------------------------------------------------
(* What the routes show.                                                   *)

\* find_liked_card_ids.
LikedCardIds(ids, who) == {c \in ids : [card |-> c, who |-> who] \in likes}

\* GET /card-share/{card_id}, as the one who asks sees it.
GetSharedCard(c, who) ==
    [likes |-> likeCount[c], comments |-> commentCount[c],
     liked |-> c \in LikedCardIds({c}, who)]

\* GET /card-share: the whole list, page by page.
ListSharedCards(who) == [c \in cards |-> GetSharedCard(c, who)]

\* GET /card-share/{card_id}/comments: how many there are to show.
ListComments(c) == comments[c]

---------------------------------------------------------------------------
CommunityTypeOK ==
    /\ cardsMade \in 0..MaxCards
    /\ cards \subseteq 1..cardsMade
    /\ sharer \in [CardIds -> Accounts]
    /\ likeCount \in [CardIds -> Nat]
    /\ commentCount \in [CardIds -> Nat]
    /\ likes \subseteq Like
    /\ comments \in [CardIds -> Nat]
    /\ boards \subseteq Board
    /\ boardsMade \in 0..MaxBoards
    /\ request \in [Processes -> Request]
    /\ unmatched \in [CardIds -> Nat]

\* The counts on the cards are those of the rows behind them, whatever process
\* fails, loses a race for the same like or has its card deleted under it:
\* comments exactly, likes up to the un-likes that two processes did at once.
\* Those count down twice for one row, so the card then shows too few likes,
\* never too many; one process alone never shows a wrong count, nor a like of
\* one's own on a card that says it has none
\* (card_share_repository_impl.py:79-118, 144-162; card_share_router.py:113-140).
CountsMatchRows ==
    \A who \in People :
       LET list == ListSharedCards(who)
       IN  \A c \in DOMAIN list :
             /\ list[c].comments = ListComments(c)
             /\ list[c].likes <= Cardinality(LikesOf(c))
             /\ Cardinality(LikesOf(c)) <= list[c].likes + unmatched[c]
             /\ list[c].liked /\ list[c].likes = 0 => unmatched[c] > 0
=============================================================================
