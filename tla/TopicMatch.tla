----------------------------- MODULE TopicMatch -----------------------------
(***************************************************************************)
(* mqtt_topics.c: whether a filter is well formed and whether it matches a *)
(* topic.  Strings are sequences of characters; they are typed in one      *)
(* character at a time, and each state is a call of Topics_matches.        *)
(***************************************************************************)
EXTENDS Integers, SequencesExt, Ascent

CONSTANTS
    Letters,         \* characters without a meaning
    MaxFilter, MaxTopic      \* the lengths of the strings

ASSUME LengthsAssumption == MaxFilter \in Nat /\ MaxTopic \in Nat
ASSUME LettersAssumption == Letters \cap {"/", "+", "#", "$"} = {}

VARIABLES wildTopic, topicName

matchVars == <<wildTopic, topicName>>

Positions(s, c) == {i \in DOMAIN s : s[i] = c}

(***************************************************************************)
(* Topics_isValidName, Topics_hasWildcards                                 *)
(***************************************************************************)
\* "'#' wildcard can be only at the beginning or the end of a topic"
HashInPlace(s) == /\ \A i \in Positions(s, "#") : i \in {1, Len(s)}
                  /\ \A i, j \in Positions(s, "#") : i = j

Topics_isValidName(s) ==
    /\ HashInPlace(s)
    /\ \A c \in {"#", "+"} : \A i \in Positions(s, c) :
          /\ i > 1 => s[i - 1] = "/"
          /\ i < Len(s) => s[i + 1] = "/"

Topics_hasWildcards(s) == Positions(s, "+") \cup Positions(s, "#") # {}

(***************************************************************************)
(* Topics_matches                                                          *)
(***************************************************************************)
\* The levels of a string, empty ones included.  Mutant of Tokens.
Bounds(s) == {0} \cup Positions(s, "/") \cup {Len(s) + 1}
Levels(s) ==
    LET ends == Ascending(Bounds(s))
    IN  [n \in 1..Len(ends) - 1 |-> SubSeq(s, ends[n] + 1, ends[n + 1] - 1)]

\* The tokens of strtok_r: separators next to each other count as one, and those at the
\* ends not at all.
TokenStarts(s) == {i \in DOMAIN s : s[i] # "/" /\ (i = 1 \/ s[i - 1] = "/")}
TokenEnd(s, i) == CHOOSE j \in i..Len(s) : /\ \A k \in i..j : s[k] # "/"
                                           /\ j = Len(s) \/ s[j + 1] = "/"
Tokens(s) ==
    LET starts == Ascending(TokenStarts(s))
    IN  [n \in DOMAIN starts |-> SubSeq(s, starts[n], TokenEnd(s, starts[n]))]

\* Mutant of Steps: what remains of the topic is not looked at.
StepsPrefix(ws, ts) ==
    LET From[k \in Nat] ==
          k > Len(ws) \/ ws[k] = <<"#">>
             \/ (k <= Len(ts) /\ ws[k] \in {<<"+">>, ts[k]} /\ From[k + 1])
    IN  From[1]

\* Level by level.
Steps(ws, ts) ==
    LET From[k \in Nat] ==
          IF k > Len(ws) THEN k > Len(ts)
          ELSE \/ ws[k] = <<"#">>
               \/ k <= Len(ts) /\ ws[k] \in {<<"+">>, ts[k]} /\ From[k + 1]
    IN  From[1]

\* The character at the beginning, the final zero of an empty string.
First(s) == IF s = <<>> THEN "" ELSE s[1]

\* Filters that begin with '#' are matched from the end.
Walk(w, t) ==
    IF First(w) = "#" THEN Steps(Tokens(Reverse(w)), Tokens(Reverse(t)))
                  ELSE Steps(Tokens(w), Tokens(t))

Topics_matches(w, t) ==
    /\ ~Topics_hasWildcards(t)
    /\ Topics_isValidName(w)
    /\ \/ w = t
       \/ w # t /\ w = <<"#">> /\ First(t) # "$"
       \/ w = <<"/", "#">> /\ First(t) = "/"
       \/ /\ w \notin {t, <<"#">>, <<"/", "#">>}
          /\ First(w) = "/" => First(t) = "/"
          /\ First(w) = "+" => First(t) # "/"
          /\ Walk(w, t)

-----------------------------------------------------------------------------
MatchInit == wildTopic = <<>> /\ topicName = <<>>

TypeFilter == /\ Len(wildTopic) < MaxFilter
              /\ \E c \in Letters \cup {"/", "+", "#"} : wildTopic' = Append(wildTopic, c)
              /\ UNCHANGED topicName
TypeTopic == /\ Len(topicName) < MaxTopic
             /\ \E c \in Letters \cup {"/", "$"} : topicName' = Append(topicName, c)
             /\ UNCHANGED wildTopic
Anew == wildTopic' = <<>> /\ topicName' = <<>>

MatchNext == TypeFilter \/ TypeTopic \/ Anew

MatchSpec == MatchInit /\ [][MatchNext]_matchVars

-----------------------------------------------------------------------------
(***************************************************************************)
(* The definition by levels.                                               *)
(***************************************************************************)
LevelFits(w, l) == w = <<"+">> \/ w = l

\* A '#' at the end stands for any number of levels, none included.
FitsByLevels(ws, ts) ==
    IF ws # <<>> /\ Last(ws) = <<"#">>
    THEN Len(ts) >= Len(ws) - 1 /\ \A n \in 1..Len(ws) - 1 : LevelFits(ws[n], ts[n])
    ELSE Len(ts) = Len(ws) /\ \A n \in DOMAIN ws : LevelFits(ws[n], ts[n])

\* The names whose wildcards stand alone in their levels, with one '#' at most, in the
\* first level or the last.
ValidByLevels(ls) ==
    /\ \A n \in DOMAIN ls : \A c \in {"#", "+"} : Positions(ls[n], c) # {} => Len(ls[n]) = 1
    /\ \A n \in DOMAIN ls : ls[n] = <<"#">> =>
          n \in {1, Len(ls)} /\ \A k \in DOMAIN ls : ls[k] = <<"#">> => k = n

\* A '#' at the beginning stands for any number of levels, and the others are the last.
FitsFromTheEnd(ws, ts) ==
    /\ Len(ts) >= Len(ws) - 1
    /\ \A n \in 2..Len(ws) : LevelFits(ws[n], ts[Len(ts) - Len(ws) + n])

\* Topics_isValidName, which looks at characters and their neighbours, accepts the names that
\* are valid by levels; and where no level is empty, these match the topics that fit them
\* level by level, from the end if they begin with '#' and go on.
NoEmptyLevel(s) == \A n \in DOMAIN Levels(s) : Levels(s)[n] # <<>>
MatchesByLevels ==
    LET ws == Levels(wildTopic)
        ts == Levels(topicName)
    IN  /\ Topics_isValidName(wildTopic) <=> ValidByLevels(ws)
        /\ /\ NoEmptyLevel(wildTopic) /\ NoEmptyLevel(topicName)
           /\ Topics_isValidName(wildTopic) /\ wildTopic # <<"#">>
           => (Topics_matches(wildTopic, topicName) <=>
                   IF First(wildTopic) = "#" THEN FitsFromTheEnd(ws, ts) ELSE FitsByLevels(ws, ts))

\* Also with empty levels: a '/' more or less, other than at the beginning, is not seen,
\* since strtok_r passes over it: a name that ends in '/' gets what is sent to the one without.
SlashesMerge ==
    \A i \in Positions(topicName, "/") :
        /\ i > 1 /\ (i = Len(topicName) \/ topicName[i + 1] = "/")
        /\ wildTopic \notin {topicName, RemoveAt(topicName, i)}
        => (Topics_matches(wildTopic, topicName) <=> Topics_matches(wildTopic, RemoveAt(topicName, i)))
=============================================================================
