----------------------------- MODULE StockThemes -----------------------------
(***************************************************************************)
(* The stocks with their themes (stock_themes), how they are seeded        *)
(* (POST /stock-theme/seed) and how stocks are recommended from the words  *)
(* of the saved YouTube comments (GET /stock-theme/recommend) or from      *)
(* counts that a client sends (POST).                                      *)
(*                                                                         *)
(* A seed commits entry by entry and its requests interleave when several  *)
(* workers serve them.  Its session reads a snapshot (REPEATABLE READ),    *)
(* which the refresh after a commit opens anew.  A recommendation changes  *)
(* nothing and reads comments and themes in one snapshot: it is a function *)
(* of the state.  Comments are the nouns they hold, in the order of their  *)
(* likes; a database that fails is not modelled.                           *)
(*                                                                         *)
(* A score is a share of the counts, added up theme by theme in floats and *)
(* then rounded to four places.  While the counts add up to less than some *)
(* 10^10, the floats are off by so little that it matters only where the   *)
(* share lies exactly in the middle between two places: there the score    *)
(* goes up or down, for each stock as it happens.                          *)
(***************************************************************************)
EXTENDS Integers, FiniteSets, SequencesExt

CONSTANTS StockCodes, Nouns,
          SeedData,      \* SEED_DATA, a sequence of [code, themes]
          ByName,        \* the codes in the order of the stocks' names
          EarlierThemes, \* the themes of the stocks an earlier version seeded
          SynonymGroups, \* the synonym table: keyword -> the nouns that count for it
          Seeds,         \* the requests to seed
          CommentBound,  \* bound: nouns in the saved comments
          Scale,         \* 10000: a score is rounded to four places
          Posted,        \* the counts that clients send: word -> number, negative ones too
          Replies,       \* what the LLM answers: items [code, text], or LLMFailed
          NoThemes, Blank, LLMFailed

ASSUME StockThemesAssumption ==
    /\ \A themes \in SUBSET Nouns : themes # NoThemes
    /\ SeedData \in Seq([code : StockCodes, themes : SUBSET Nouns])
    /\ \A i, j \in DOMAIN SeedData : SeedData[i].code = SeedData[j].code => i = j
    /\ \A i \in DOMAIN SeedData : SeedData[i].themes # {}
    /\ ByName \in Seq(StockCodes) /\ ToSet(ByName) = StockCodes /\ Len(ByName) = Cardinality(StockCodes)
    /\ EarlierThemes \in [StockCodes -> SUBSET Nouns]
    /\ SynonymGroups \in [DOMAIN SynonymGroups -> SUBSET Nouns]
    /\ \A k, l \in DOMAIN SynonymGroups :
          k \in SynonymGroups[k] /\ (SynonymGroups[k] \cap SynonymGroups[l] # {} => k = l)
    /\ CommentBound \in Nat /\ Scale \in Nat \ {0}
    /\ \A k \in Posted : k \in [DOMAIN k -> Int] /\ DOMAIN k \subseteq Nouns /\ IsFiniteSet(DOMAIN k)
    /\ \A reply \in Replies \ {LLMFailed} : DOMAIN reply = 1 .. Len(reply) /\ Len(reply) \in Nat

VARIABLES stored,    \* stock_themes: code -> its themes, or NoThemes
          saidNouns, \* the nouns of video_comments, most liked comment first
          seeding    \* request -> where it is

themeVars == <<stored, saidNouns, seeding>>

StoredCodes == {c \in StockCodes : stored[c] # NoThemes}

\* The themes the entries of SEED_DATA give a stock; {} where they have none.
SeededThemes(c) == UNION {SeedData[i].themes : i \in {j \in DOMAIN SeedData : SeedData[j].code = c}}

\* A table that was never seeded, or by this or an earlier version, perhaps by a
\* request that stopped half-way.
StockThemesInit ==
    /\ stored \in [StockCodes -> {NoThemes} \cup SUBSET Nouns]
    /\ \A c \in StockCodes : stored[c] \in {NoThemes, EarlierThemes[c], SeededThemes(c)}
    /\ saidNouns = <<>>
    /\ seeding = [r \in Seeds |-> [phase |-> "idle"]]

StockThemesTypeOK ==
    /\ stored \in [StockCodes -> {NoThemes} \cup SUBSET Nouns]
    /\ saidNouns \in Seq(Nouns) /\ Len(saidNouns) <= CommentBound
    /\ DOMAIN seeding = Seeds
    /\ \A r \in Seeds :
          /\ seeding[r].phase \in {"idle", "save", "refresh", "done", "failed", "dead"}
          /\ seeding[r].phase \in {"save", "refresh"} =>
                seeding[r] \in [phase : {"save", "refresh"}, at : DOMAIN SeedData,
                                sees : SUBSET StockCodes]

---------------------------------------------------------------------------
(* Seeding.                                                                *)

Entry(r) == SeedData[seeding[r].at]

SeedBegins(r) ==
    /\ seeding[r].phase = "idle"
    /\ seeding' = [seeding EXCEPT ![r] =
                     IF SeedData = <<>> THEN [phase |-> "done"]
                     ELSE [phase |-> "save", at |-> 1, sees |-> StoredCodes]]
    /\ UNCHANGED <<stored, saidNouns>>

\* Mutant: every entry is inserted, whatever the table holds.
FindsNone(r) == FALSE
\* save() finds the row by its code, in the snapshot of its session.
Finds(r) == Entry(r).code \in seeding[r].sees

\* Mutant: a stock that is there keeps the themes it has.
InsertOnly(r) ==
    [stored EXCEPT ![Entry(r).code] = IF Finds(r) THEN @ ELSE Entry(r).themes]
\* Found, its themes are replaced; else it is inserted.
Saved(r) == [stored EXCEPT ![Entry(r).code] = Entry(r).themes]

Save(r) ==
    /\ seeding[r].phase = "save"
    /\ Finds(r) \/ stored[Entry(r).code] = NoThemes
    /\ stored' = Saved(r)
    /\ seeding' = [seeding EXCEPT ![r].phase = "refresh"]
    /\ UNCHANGED saidNouns

\* The code is unique and another request has inserted it since: the request
\* answers 500, and what it committed stays.
SaveConflicts(r) ==
    /\ seeding[r].phase = "save"
    /\ ~Finds(r) /\ stored[Entry(r).code] # NoThemes
    /\ seeding' = [seeding EXCEPT ![r] = [phase |-> "failed"]]
    /\ UNCHANGED <<stored, saidNouns>>

IsLast(r) == seeding[r].at = Len(SeedData)

\* On to the next entry with a new snapshot; after the last the count is told.
Refresh(r) ==
    /\ seeding[r].phase = "refresh"
    /\ seeding' = [seeding EXCEPT ![r] =
                     IF IsLast(r) THEN [phase |-> "done"]
                     ELSE [phase |-> "save", at |-> seeding[r].at + 1,
                           sees |-> StoredCodes]]
    /\ UNCHANGED <<stored, saidNouns>>

WorkerEnds(r) ==
    /\ seeding[r].phase \in {"save", "refresh"}
    /\ seeding' = [seeding EXCEPT ![r] = [phase |-> "dead"]]
    /\ UNCHANGED <<stored, saidNouns>>

---------------------------------------------------------------------------
(* The comments that collections store.                                    *)

CommentSaved(w) ==
    /\ Len(saidNouns) < CommentBound
    /\ \E i \in 1 .. Len(saidNouns) + 1 : saidNouns' = InsertAt(saidNouns, i, w)
    /\ UNCHANGED <<stored, seeding>>

\* Collected again, with another text and other likes.
CommentUpdated(i, w) ==
    /\ \E j \in 1 .. Len(saidNouns) : saidNouns' = InsertAt(RemoveAt(saidNouns, i), j, w)
    /\ UNCHANGED <<stored, seeding>>

SeedNext ==
    \E r \in Seeds :
       SeedBegins(r) \/ Save(r) \/ SaveConflicts(r) \/ Refresh(r) \/ WorkerEnds(r)
CommentNext ==
    \E w \in Nouns :
       CommentSaved(w) \/ \E i \in DOMAIN saidNouns : CommentUpdated(i, w)
StockThemesNext == SeedNext \/ CommentNext

StockThemesSpec == StockThemesInit /\ [][StockThemesNext]_themeVars

---------------------------------------------------------------------------
(* Recommending.  A Counter holds its keys in the order they first came.   *)

IsNew(k, counts) == k \notin DOMAIN counts

\* A dictionary in which k has the value v.
Assigned(dictionary, k, v) ==
    [x \in DOMAIN dictionary \cup {k} |-> IF x = k THEN v ELSE dictionary[x]]

\* Mutant: what was counted for the keyword before is forgotten.
LastPlus(counter, k, n) ==
    [keys  |-> IF IsNew(k, counter.count) THEN Append(counter.keys, k) ELSE counter.keys,
     count |-> Assigned(counter.count, k, n)]
Plus(counter, k, n) ==
    [keys  |-> IF IsNew(k, counter.count) THEN Append(counter.keys, k) ELSE counter.keys,
     count |-> Assigned(counter.count, k, IF IsNew(k, counter.count) THEN n
                                      ELSE counter.count[k] + n)]
NoCounts == [keys |-> <<>>, count |-> <<>>]

\* A Counter after keys[1], keys[2] and so on were added, amounts[n] for keys[n].
Tally(keys, amounts) ==
    LET after[n \in 0 .. Len(keys)] ==
          IF n = 0 THEN NoCounts ELSE Plus(after[n - 1], keys[n], amounts[n])
    IN  after[Len(keys)]

CountWords(words) == Tally(words, [i \in DOMAIN words |-> 1])

\* A noun of no group counts for itself.
Normalize(w) ==
    IF \E k \in DOMAIN SynonymGroups : w \in SynonymGroups[k]
    THEN CHOOSE k \in DOMAIN SynonymGroups : w \in SynonymGroups[k]
    ELSE w
MergeSynonyms(counter) ==
    Tally([i \in DOMAIN counter.keys |-> Normalize(counter.keys[i])],
          [i \in DOMAIN counter.keys |-> counter.count[counter.keys[i]]])

\* Mutant: among equals the later one goes first.
BeforeEquals(seq, x, key) == Cardinality({i \in DOMAIN seq : key[seq[i]] > key[x]}) + 1
\* Where x goes in a sequence that is sorted by falling keys: behind its equals.
Place(seq, x, key) == Cardinality({i \in DOMAIN seq : key[seq[i]] >= key[x]}) + 1
SortedBy(seq, key) ==
    LET sorted[n \in 0 .. Len(seq)] ==
          IF n = 0 THEN <<>>
          ELSE InsertAt(sorted[n - 1], Place(sorted[n - 1], seq[n], key), seq[n])
    IN  sorted[Len(seq)]

\* The nouns of the comments with their synonyms merged, the top of them.
Keywords(topN) ==
    LET merged == MergeSynonyms(CountWords(saidNouns))
        ranked == SortedBy(merged.keys, merged.count)
    IN  Restrict(merged.count, ToSet(SubSeq(ranked, 1, Min({topN, Len(ranked)}))))

Matched(keywords, c) == stored[c] \cap DOMAIN keywords
Weight(keywords, c) == SumFunctionOnSet(keywords, Matched(keywords, c))
Total(keywords) == SumFunction(keywords)

\* Weight / Total with a denominator that is not negative.
Whole(keywords) == IF Total(keywords) < 0 THEN -Total(keywords) ELSE Total(keywords)
Portion(keywords, c) ==
    IF Total(keywords) < 0 THEN -Weight(keywords, c) ELSE Weight(keywords, c)

\* Whether n / d lies in the middle between two places.
InTheMiddle(n, d) == 2 * ((n * Scale) % d) = d

\* round(n / d, 4), scaled: to the nearest, and where there are two, to either.
Round(n, d, up) ==
    LET q == (n * Scale) \div d
    IN  IF 2 * ((n * Scale) % d) > d \/ (InTheMiddle(n, d) /\ up) THEN q + 1 ELSE q

\* Those of the codes that are in a set, in their order.
Only(codes, set) ==
    LET kept[n \in 0 .. Len(codes)] ==
          IF n = 0 THEN <<>>
          ELSE IF codes[n] \in set THEN Append(kept[n - 1], codes[n]) ELSE kept[n - 1]
    IN  kept[Len(codes)]

\* The stocks whose share lies in the middle.
Halves(keywords) ==
    {c \in StoredCodes :
        Total(keywords) # 0 /\ InTheMiddle(Portion(keywords, c), Whole(keywords))}

\* The stocks with a theme among the keywords, the best score first, those of
\* equal score by name; "up" are those of the Halves whose score goes up.
Match(keywords, up) ==
    IF StoredCodes = {} \/ Total(keywords) = 0 THEN <<>>
    ELSE SortedBy(Only(ByName, {c \in StoredCodes : Matched(keywords, c) # {}}),
                  [c \in StoredCodes |->
                      Round(Portion(keywords, c), Whole(keywords), c \in up)])

Fallback(c) == <<"rule", c>>

\* Mutant: a blank reason takes the place of the one before it.
AnyText(text) == TRUE
Says(text) == text # Blank

\* _parse_reason_map: the last reason of each code; a reply that is no JSON list
\* is <<>>.
ReasonMap(reply) ==
    LET after[n \in 0 .. Len(reply)] ==
          IF n = 0 THEN <<>>
          ELSE IF Says(reply[n].text)
               THEN Assigned(after[n - 1], reply[n].code, reply[n].text) ELSE after[n - 1]
    IN  after[Len(reply)]

\* build_reasons: one for each match, in their order.
Reasons(matches, reply) ==
    [i \in DOMAIN matches |->
        IF reply # LLMFailed /\ matches[i] \in DOMAIN ReasonMap(reply)
        THEN ReasonMap(reply)[matches[i]]
        ELSE Fallback(matches[i])]

\* What is answered: an item for each match.
Recommend(matches, reply) ==
    [i \in DOMAIN matches |-> [code |-> matches[i], reason |-> Reasons(matches, reply)[i]]]

---------------------------------------------------------------------------
\* A request that told how many stocks it registered has left every stock of
\* SEED_DATA with its current themes, whatever the table held before, whatever
\* other requests wrote or died of meanwhile, and for good.  And requests do not
\* defeat each other: once all that began have ended and none of them died with
\* its worker, one of them got to the end, although each may fail of a row that
\* another has just inserted and none is tried again
\* (seed_stock_themes_usecase.py:10-20, stock_theme_repository_impl.py:15-27).
SeedsSucceed ==
    LET began == {r \in Seeds : seeding[r].phase # "idle"}
        done  == {r \in Seeds : seeding[r].phase = "done"}
    IN  /\ done # {} => \A i \in DOMAIN SeedData :
                           stored[SeedData[i].code] = SeedData[i].themes
        /\ began # {} /\ (\A r \in began : seeding[r].phase \in {"done", "failed"})
              => done # {}

\* The keywords are the most frequent ones: as many as asked for or as there are,
\* each with the number of times it or a synonym was said, and none of those left
\* out was said more often (extract_nouns_usecase.py:22-42,
\* keyword_synonym_service.py:18-26).
MostFrequentKept(kept, topN) ==
    LET said(k) == Cardinality({i \in DOMAIN saidNouns : Normalize(saidNouns[i]) = k})
    IN  /\ Cardinality(DOMAIN kept)
              = Min({topN, Cardinality({Normalize(w) : w \in ToSet(saidNouns)})})
        /\ \A k \in DOMAIN kept :
              /\ kept[k] = said(k)
              /\ \A other \in Nouns \ DOMAIN kept : said(other) <= kept[k]

\* The recommended stocks are the ones with a theme among the keywords, each
\* once; none comes before one whose share of the keywords is larger, but where
\* rounding to four places hides the difference; and stocks of equal share come
\* by name, unless the share lies in the middle between two places.  Of counts
\* that add up to less than nothing the share is the quotient all the same: the
\* stock with the smaller sum comes first (theme_match_service.py:17-49).
BestComeFirst(keywords, matches) ==
    LET place(c) == CHOOSE i \in DOMAIN matches : matches[i] = c
        byName(c) == CHOOSE i \in DOMAIN ByName : ByName[i] = c
    IN  /\ ToSet(matches) =
              {c \in StoredCodes : Total(keywords) # 0 /\ Matched(keywords, c) # {}}
        /\ Len(matches) = Cardinality(ToSet(matches))
        /\ \A a, b \in ToSet(matches) : place(a) < place(b) =>
              /\ (Portion(keywords, b) - Portion(keywords, a)) * Scale <= Whole(keywords)
              /\ Portion(keywords, a) = Portion(keywords, b) =>
                    \/ byName(a) < byName(b)
                    \/ a \in Halves(keywords)

\* Each recommended stock is shown with a reason of its own: one that the LLM
\* gave for its code, whatever the order and the number of the items it wrote,
\* and else the sentence the rule writes for it
\* (recommendation_reason_generation_service.py:22-46, 64-90,
\* recommend_stocks_usecase.py:22-43).
ReasonsAreTheirOwn(matches) ==
    LET given(c, reply) ==
          IF reply = LLMFailed THEN {}
          ELSE {reply[j].text : j \in {n \in DOMAIN reply : reply[n].code = c}} \ {Blank}
    IN  \A i \in DOMAIN matches, reply \in Replies :
           LET item == Recommend(matches, reply)[i]
               said == given(matches[i], reply)
           IN  /\ item.code = matches[i]
               /\ item.reason \in IF said = {} THEN {Fallback(item.code)} ELSE said

\* What a recommendation shows is true of the saved comments, or of the counts
\* that were sent, and of the table: in which words it was looked for, which
\* stocks come first, and why (recommend_stocks_usecase.py:22-43).
RecommendationsAreTrue ==
    /\ \A topN \in 1 .. CommentBound :
          LET keywords == Keywords(topN)
          IN  /\ MostFrequentKept(keywords, topN)
              /\ \A up \in SUBSET Halves(keywords) :
                    LET matches == Match(keywords, up)
                    IN  BestComeFirst(keywords, matches) /\ ReasonsAreTheirOwn(matches)
    /\ StoredCodes # {} =>
          \A keywords \in Posted : \A up \in SUBSET Halves(keywords) :
             BestComeFirst(keywords, Match(keywords, up))
=============================================================================
